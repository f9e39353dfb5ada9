--------------------------- MODULE CreateDbProofs ---------------------------
(***************************************************************************)
(* Theorems about the creation tool, for every configuration in which each *)
(* database has a file of its own, however many counters it names.         *)
(***************************************************************************)
EXTENDS CreateDb, SubsequenceProofs

-----------------------------------------------------------------------------
(***************************************************************************)
(* Lists of counters                                                       *)
(***************************************************************************)

\* A list is a sequence, a sequence a list.
LEMMA ListIsSeq ==
    ASSUME NEW s
    PROVE  IsList(s) <=> \E E : s \in Seq(E)
  <1>1. ASSUME IsList(s) PROVE s \in Seq({s[k] : k \in 1 .. Len(s)})
    <2> DEFINE f == [k \in 1 .. Len(s) |-> s[k]]
    <2>1. Len(s) \in Nat /\ s = f
      BY <1>1 DEF IsList
    <2>2. f \in [1 .. Len(s) -> {s[k] : k \in 1 .. Len(s)}]
      OBVIOUS
    <2> QED
      BY <2>1, <2>2, SeqDef
  <1>2. ASSUME NEW E, s \in Seq(E) PROVE IsList(s)
    BY <1>2, LenProperties DEF IsList
  <1> QED
    BY <1>1, <1>2

\* Lists can be joined.
LEMMA JoinLists ==
    ASSUME NEW s, NEW t, IsList(s), IsList(t)
    PROVE  /\ IsList(s \o t)
           /\ Len(s) \in Nat /\ Len(t) \in Nat
           /\ Len(s \o t) = Len(s) + Len(t)
           /\ DOMAIN (s \o t) = 1 .. Len(s) + Len(t)
           /\ \A k \in 1 .. Len(s) + Len(t) :
                 (s \o t)[k] = IF k <= Len(s) THEN s[k] ELSE t[k - Len(s)]
  <1>1. PICK S : s \in Seq(S)
    BY ListIsSeq
  <1>2. PICK T : t \in Seq(T)
    BY ListIsSeq
  <1>3. s \in Seq(S \cup T) /\ t \in Seq(S \cup T)
    BY <1>1, <1>2, SeqMonotonic
  <1>4. /\ s \o t \in Seq(S \cup T)
        /\ Len(s \o t) = Len(s) + Len(t)
        /\ \A k \in 1 .. Len(s) + Len(t) :
              (s \o t)[k] = IF k <= Len(s) THEN s[k] ELSE t[k - Len(s)]
    BY <1>3, ConcatProperties
  <1>5. IsList(s \o t)
    BY <1>4, ListIsSeq
  <1>6. DOMAIN (s \o t) = 1 .. Len(s \o t)
    BY <1>4, LenProperties
  <1> QED
    BY <1>4, <1>5, <1>6 DEF IsList

\* What a list is mapped to is one.
LEMMA MapList ==
    ASSUME NEW s, IsList(s), NEW f, f = [k \in DOMAIN s |-> f[k]]
    PROVE  IsList(f) /\ Len(f) = Len(s)
  <1>1. DOMAIN s = 1 .. Len(s) /\ Len(s) \in Nat
    BY DEF IsList
  <1>2. f \in [1 .. Len(s) -> {f[k] : k \in 1 .. Len(s)}]
    BY <1>1
  <1>3. f \in Seq({f[k] : k \in 1 .. Len(s)})
    BY <1>1, <1>2, SeqDef
  <1>4. DOMAIN f = 1 .. Len(f) /\ DOMAIN f = 1 .. Len(s) /\ Len(f) \in Nat
    BY <1>1, <1>2, <1>3, LenProperties
  <1>5. Len(f) = Len(s)
    BY <1>1, <1>4
  <1> QED
    BY <1>3, <1>5, ListIsSeq

\* The lists of one counter at most.
LEMMA ShortLists ==
    /\ IsList(<< >>) /\ Len(<< >>) = 0
    /\ \A x : IsList(<<x>>) /\ Len(<<x>>) = 1
  <1>1. << >> \in Seq({}) /\ Len(<< >>) = 0
    OBVIOUS
  <1>2. ASSUME NEW x PROVE <<x>> \in Seq({x}) /\ Len(<<x>>) = 1
    OBVIOUS
  <1> QED
    BY <1>1, <1>2, ListIsSeq

\* The counters of a configuration are lists.
LEMMA CountersAreLists ==
    ASSUME conf \in Configurations, NEW type
    PROVE  /\ IsList(CurrentCounters) /\ IsList(OtherRawCounters)
           /\ IsList(ToolCounters(type))
           /\ DaemonCounters(type) = IF IsRaw(type) THEN ToolCounters(type) \o OtherRawCounters
                                     ELSE ToolCounters(type)
  <1>1. IsList(CurrentCounters)
    BY ShortLists, JoinLists DEF CurrentCounters, CurrentCounter
  <1>2. IsList(OtherRawCounters)
    <2> DEFINE elements == Get(conf, "other_raw_counters", "array", << >>)
               ids == StringArray(conf, "other_raw_counters")
    <2>1. IsList(elements)
      BY CreateDbAssumption, ShortLists DEF Get
    <2>2. ids = [k \in DOMAIN elements |-> Get(elements, k, "string", << >>)]
      BY DEF StringArray
    <2>3. IsList(ids)
      <3> HIDE DEF elements, ids
      <3>1. ids = [k \in DOMAIN elements |-> ids[k]]
        BY <2>2
      <3> QED
        BY <2>1, <3>1, MapList
    <2>4. OtherRawCounters = [k \in DOMAIN ids |-> CounterSpec(ids[k], "raw")]
      BY DEF OtherRawCounters
    <2>5. OtherRawCounters = [k \in DOMAIN ids |-> OtherRawCounters[k]]
      <3> HIDE DEF ids
      <3> QED
        BY <2>4
    <2> HIDE DEF ids
    <2> QED
      BY <2>3, <2>5, MapList
  <1>3. ASSUME NEW name \in {"consumption", "production"}, NEW kind
        PROVE  IsList(CounterSpecs(conf, name, kind))
    <2> DEFINE Usable(entry) == Has(entry, "description", "string") /\ Has(entry, "id", "string")
               all == Members(conf, name)
               entries == ElementsAt(all, {k \in DOMAIN all : Usable(all[k])})
               specs == CounterSpecs(conf, name, kind)
    <2>1. IsList(all)
      BY CreateDbAssumption, ShortLists DEF Members
    <2>2. specs = [k \in DOMAIN entries |-> CounterSpec(entries[k].id.value, kind)]
      BY DEF CounterSpecs
    <2>3. IsList(entries)
      <3> HIDE DEF all, Usable
      <3> QED
        BY <2>1, ListIsSeq, ElementsAreOfIt
    <2> HIDE DEF entries, specs
    <2>4. specs = [k \in DOMAIN entries |-> specs[k]]
      BY <2>2
    <2>5. IsList(specs)
      BY <2>3, <2>4, MapList
    <2> QED
      BY <2>5 DEF specs
  <1>4. \A kind : IsList(GasCounter(kind))
    BY ShortLists DEF GasCounter
  <1>5. IsList(ToolCounters(type))
    BY <1>1, <1>3, <1>4, JoinLists DEF ToolCounters
  <1> QED
    BY <1>1, <1>2, <1>5 DEF DaemonCounters, ToolCounters

-----------------------------------------------------------------------------
(***************************************************************************)
(* Types, files and statements                                             *)
(***************************************************************************)

\* The four types are different.
LEMMA TypesAre ==
    /\ Len(Types) = 4
    /\ TypeNames = {Types[m] : m \in 1 .. 4}
    /\ \A m, k \in 1 .. 4 : Types[m] = Types[k] => m = k
  BY DEF Types, TypeNames, ToSet

\* Every type has a file of its own and a number of statements.
LEMMA FilesOfTypes ==
    ASSUME conf \in Configurations
    PROVE  /\ \A type \in TypeNames : ~Nothing(type) => PathOf(type) \in Paths
           /\ \A type, other \in TypeNames :
                 ~Nothing(type) /\ ~Nothing(other) /\ PathOf(type) = PathOf(other)
                    => type = other
           /\ \A type \in TypeNames : Statements(type) \in Nat \ {0}
  <1>1. \A type : Len(ToolCounters(type)) \in Nat
    BY CountersAreLists DEF IsList
  <1> QED
    BY <1>1, CreateDbAssumption DEF Nothing, PathOf, Statements

\* The configuration is read only once.
LEMMA Unchanging ==
    ASSUME UNCHANGED fixed
    PROVE  /\ conf' = conf /\ locked' = locked
           /\ \A type : /\ Nothing(type)' <=> Nothing(type)
                        /\ PathOf(type)' = PathOf(type)
                        /\ ToolCounters(type)' = ToolCounters(type)
                        /\ DaemonCounters(type)' = DaemonCounters(type)
                        /\ Statements(type)' = Statements(type)
           /\ \A type, k : Clashes(type, k)' <=> Clashes(type, k)
           /\ OtherRawCounters' = OtherRawCounters
  <1>1. conf' = conf /\ locked' = locked
    BY DEF fixed
  <1>2. \A type : ToolCounters(type)' = ToolCounters(type)
    BY <1>1 DEF ToolCounters, CurrentCounters, CurrentCounter, GasCounter, Gas
  <1>3. \A type : Nothing(type)' <=> Nothing(type)
    BY <1>1 DEF Nothing, CurrentCounters, CurrentCounter
  <1>4. \A type : PathOf(type)' = PathOf(type)
    BY <1>1 DEF PathOf
  <1>5. OtherRawCounters' = OtherRawCounters
    BY <1>1 DEF OtherRawCounters
  <1>6. \A type : DaemonCounters(type)' = DaemonCounters(type)
    BY <1>1, <1>5 DEF DaemonCounters, CurrentCounters, CurrentCounter, GasCounter, Gas
  <1> QED
    BY <1>1, <1>2, <1>3, <1>4, <1>5, <1>6 DEF Statements, Clashes

-----------------------------------------------------------------------------
(***************************************************************************)
(* The inductive invariant                                                 *)
(***************************************************************************)

\* the type at hand has something to make once its file is touched
AtWork ==
    pc # "idle" => /\ outcome = "none" /\ n \in 1 .. 5
                   /\ pc # "type" => n <= 4 /\ ~Nothing(Types[n])

\* the types before it are done
DoneSoFar ==
    pc # "idle" => \A m \in 1 .. n - 1 : Nothing(Types[m]) \/ Complete(Types[m])

\* a database is half made only while it is made, or after a kill
Whole(type) ==
    \/ made[PathOf(type)] = Absent
    \/ Complete(type)
    \/ PathOf(type) \in torn
    \/ pc = "tables" /\ type = Types[n] /\ PathOf(type) \notin locked
HalfMade == \A type \in TypeNames : Nothing(type) \/ Whole(type)

\* no statement was executed that repeats a key or a table
NoClash ==
    \A type \in TypeNames : Nothing(type) \/
        \A k \in 1 .. made[PathOf(type)] : ~Clashes(type, k)

\* readings are in files that are there
RowsThere == \A p \in rows : made[p] # Absent

Inv ==
    /\ TypeOK /\ AtWork /\ DoneSoFar /\ HalfMade /\ NoClash /\ RowsThere
    /\ FinishedIsComplete

\* It holds before the first run, whatever files are there.
LEMMA InitInv == Init => Inv
  <1> SUFFICES ASSUME Init PROVE Inv
    OBVIOUS
  <1>1. conf \in Configurations /\ locked \subseteq Paths
    BY DEF Init
  <1>2. PICK old \in SUBSET {type \in TypeNames : ~Nothing(type) /\ ClashFree(type)} :
            LET oldFiles == {PathOf(type) : type \in old} IN
            /\ made = [p \in Paths |-> IF p \in oldFiles
                  THEN Statements(CHOOSE type \in old : PathOf(type) = p) ELSE Absent]
            /\ unreadable \in SUBSET oldFiles
            /\ rows \in SUBSET oldFiles
    BY DEF Init
  <1>3. \A type \in old : /\ type \in TypeNames /\ ~Nothing(type) /\ ClashFree(type)
                          /\ PathOf(type) \in Paths
                          /\ made[PathOf(type)] = Statements(type)
                          /\ Statements(type) \in Nat \ {0}
    <2> SUFFICES ASSUME NEW type \in old
                 PROVE  /\ type \in TypeNames /\ ~Nothing(type) /\ ClashFree(type)
                        /\ PathOf(type) \in Paths
                        /\ made[PathOf(type)] = Statements(type)
                        /\ Statements(type) \in Nat \ {0}
      OBVIOUS
    <2>1. (CHOOSE t \in old : PathOf(t) = PathOf(type)) = type
      BY <1>1, FilesOfTypes
    <2> QED
      BY <1>1, <1>2, <2>1, FilesOfTypes
  <1>4. \A p \in Paths : made[p] = Absent \/ \E type \in old : p = PathOf(type)
    BY <1>2
  <1>5. \A p \in rows \cup unreadable : \E type \in old : p = PathOf(type)
    BY <1>2
  <1>6. \A type \in TypeNames \ old : Nothing(type) \/ made[PathOf(type)] = Absent
    BY <1>1, <1>3, <1>4, FilesOfTypes
  <1>7. TypeOK
    <2>1. made \in [Paths -> Int]
      <3>1. made = [p \in Paths |-> made[p]]
        BY <1>2
      <3>2. \A p \in Paths : made[p] \in Int
        BY <1>3, <1>4 DEF Absent
      <3> QED
        BY <3>1, <3>2
    <2>2. unreadable \subseteq Paths /\ rows \subseteq Paths
      BY <1>3, <1>5
    <2>3. \A type \in TypeNames :
              ~Nothing(type) => made[PathOf(type)] \in Absent .. Statements(type)
      BY <1>1, <1>3, <1>6, FilesOfTypes DEF Absent
    <2>4. n \in 0 .. Len(Types) + 1
      BY TypesAre DEF Init
    <2> QED
      BY <1>1, <2>1, <2>2, <2>3, <2>4 DEF Init, TypeOK
  <1>8. HalfMade
    BY <1>3, <1>6 DEF HalfMade, Whole, Complete
  <1>9. NoClash
    <2>1. \A type \in old : \A k \in 1 .. made[PathOf(type)] : ~Clashes(type, k)
      BY <1>3 DEF ClashFree
    <2>2. 1 .. Absent = {}
      BY DEF Absent
    <2> QED
      BY <1>6, <2>1, <2>2 DEF NoClash
  <1>10. RowsThere
    BY <1>3, <1>5 DEF RowsThere, Absent
  <1> QED
    BY <1>7, <1>8, <1>9, <1>10 DEF Init, Inv, AtWork, DoneSoFar, FinishedIsComplete

-----------------------------------------------------------------------------
(***************************************************************************)
(* What a step does to the files                                           *)
(***************************************************************************)

\* What the types say of their files while no file changes.
LEMMA FilesSame ==
    ASSUME UNCHANGED fixed, made' = made
    PROVE  /\ \A type : Complete(type)' <=> Complete(type)
           /\ NoClash => NoClash'
           /\ \A type \in TypeNames : (torn \subseteq torn') =>
                 (made[PathOf(type)] = Absent \/ Complete(type) \/ PathOf(type) \in torn
                    => Whole(type)')
  BY Unchanging DEF Complete, NoClash, Whole

\* The file of the type at hand changes, those of the others do not.
LEMMA FileChanges ==
    ASSUME Inv, n \in 1 .. 4, ~Nothing(Types[n]), UNCHANGED fixed,
           NEW v \in Int, made' = [made EXCEPT ![Path] = v]
    PROVE  /\ Path \in Paths /\ Types[n] \in TypeNames
           /\ made' \in [Paths -> Int] /\ made'[Path] = v
           /\ \A p \in Paths : p # Path => made'[p] = made[p]
           /\ \A type \in TypeNames \ {Types[n]} : ~Nothing(type) =>
                 /\ PathOf(type) # Path
                 /\ made'[PathOf(type)] = made[PathOf(type)]
                 /\ Complete(type)' <=> Complete(type)
  <1>1. Types[n] \in TypeNames
    BY TypesAre
  <1>2. conf \in Configurations /\ made \in [Paths -> Int]
    BY DEF Inv, TypeOK
  <1>3. Path \in Paths
    BY <1>1, <1>2, FilesOfTypes DEF Path
  <1>4. /\ made' \in [Paths -> Int] /\ made'[Path] = v
        /\ \A p \in Paths : p # Path => made'[p] = made[p]
    BY <1>2, <1>3
  <1>5. \A type \in TypeNames \ {Types[n]} : ~Nothing(type) =>
            PathOf(type) # Path /\ PathOf(type) \in Paths
    BY <1>1, <1>2, FilesOfTypes DEF Path
  <1> QED
    BY <1>1, <1>3, <1>4, <1>5, Unchanging DEF Complete

-----------------------------------------------------------------------------
(***************************************************************************)
(* The steps that leave the files alone                                    *)
(***************************************************************************)

\* A step that changes neither the files nor the history keeps what is said of
\* them.
LEMMA DiskSame ==
    ASSUME Inv, UNCHANGED <<fixed, disk>>, torn \subseteq torn', torn' \subseteq Paths,
           pc' \in {"idle", "type", "open", "tables"}, force' \in BOOLEAN,
           n' \in 0 .. Len(Types) + 1, outcome' \in {"none", "errors", "finished"},
           pc = "tables" => \/ Complete(Types[n]) \/ Path \in torn'
                            \/ Path \in locked \/ (pc' = "tables" /\ n' = n)
    PROVE  TypeOK' /\ HalfMade' /\ NoClash' /\ RowsThere'
  <1>1. conf' = conf /\ locked' = locked /\ made' = made /\ rows' = rows
        /\ unreadable' = unreadable
    BY DEF fixed, disk
  <1>2. TypeOK'
    BY <1>1, Unchanging DEF Inv, TypeOK
  <1>3. HalfMade'
    <2> SUFFICES ASSUME NEW type \in TypeNames, ~Nothing(type) PROVE Whole(type)'
      BY Unchanging DEF HalfMade
    <2>1. Whole(type)
      BY DEF Inv, HalfMade
    <2>2. CASE made[PathOf(type)] = Absent \/ Complete(type) \/ PathOf(type) \in torn
      BY <1>1, <2>2, FilesSame
    <2>3. CASE pc = "tables" /\ type = Types[n] /\ PathOf(type) \notin locked
      BY <1>1, <2>3, Unchanging, FilesSame DEF Whole, Path
    <2> QED
      BY <2>1, <2>2, <2>3 DEF Whole
  <1> QED
    BY <1>1, <1>2, <1>3, FilesSame DEF Inv, RowsThere

\* A type is passed over when there is nothing to make or all of it was made.
LEMMA TypePassed ==
    ASSUME Inv, UNCHANGED <<fixed, disk, torn>>, NextType, pc # "idle", n <= 4,
           Nothing(Types[n]) \/ Complete(Types[n])
    PROVE  Inv'
  <1>1. n \in 1 .. 4 /\ n' = n + 1 /\ pc' = "type" /\ outcome' = "none" /\ force' = force
    BY DEF Inv, AtWork, NextType
  <1>2. made' = made
    BY DEF disk
  <1>3. TypeOK' /\ HalfMade' /\ NoClash' /\ RowsThere'
    BY <1>1, TypesAre, DiskSame DEF Inv, TypeOK, AtWork
  <1>4. DoneSoFar'
    <2> SUFFICES ASSUME NEW m \in 1 .. n PROVE (Nothing(Types[m]) \/ Complete(Types[m]))'
      BY <1>1 DEF DoneSoFar
    <2>1. Nothing(Types[m]) \/ Complete(Types[m])
      BY <1>1 DEF Inv, DoneSoFar
    <2> QED
      BY <1>2, <2>1, Unchanging, FilesSame
  <1> QED
    BY <1>1, <1>3, <1>4 DEF Inv, AtWork, FinishedIsComplete

\* A run that ends with errors leaves the files as they are.
LEMMA EndsWithErrors ==
    ASSUME Inv, UNCHANGED <<fixed, disk, torn>>, Errors,
           pc = "tables" => Path \in locked
    PROVE  Inv'
  <1>1. n' = n /\ pc' = "idle" /\ outcome' = "errors" /\ force' = force
    BY DEF Errors
  <1>2. TypeOK' /\ HalfMade' /\ NoClash' /\ RowsThere'
    BY <1>1, DiskSame DEF Inv, TypeOK
  <1> QED
    BY <1>1, <1>2 DEF Inv, AtWork, DoneSoFar, FinishedIsComplete

\* The run that is killed may leave the file at hand half made.
LEMMA KilledInv ==
    ASSUME Inv, Killed
    PROVE  Inv'
  <1>1. pc' = "idle" /\ UNCHANGED <<fixed, disk, force, n, outcome>>
    BY DEF Killed
  <1>2. pc = "tables" => Path \in Paths
    BY FilesOfTypes, TypesAre DEF Inv, AtWork, TypeOK, Path
  <1>3. torn \subseteq torn' /\ torn' \subseteq Paths /\ (pc = "tables" => Path \in torn')
    BY <1>2 DEF Killed, Inv, TypeOK
  <1>4. TypeOK' /\ HalfMade' /\ NoClash' /\ RowsThere'
    BY <1>1, <1>3, DiskSame DEF Inv, TypeOK
  <1>5. pc # "idle" /\ outcome' = "none"
    BY <1>1 DEF Killed, Inv, AtWork
  <1> QED
    BY <1>1, <1>4, <1>5 DEF Inv, AtWork, DoneSoFar, FinishedIsComplete

\* Readings are recorded in a file that has a table.
LEMMA RecordInv ==
    ASSUME Inv, NEW type \in TypeNames, Record(type)
    PROVE  Inv'
  <1>1. /\ UNCHANGED <<fixed, unreadable, made, run, torn>> /\ ~Nothing(type)
        /\ rows' = rows \cup {PathOf(type)}
    BY DEF Record
  <1>2. UNCHANGED <<conf, locked, unreadable, made, pc, force, n, outcome, torn>>
    BY <1>1 DEF fixed, run
  <1>3. PathOf(type) \in Paths /\ made[PathOf(type)] \in Int
    BY <1>1, FilesOfTypes DEF Inv, TypeOK
  <1>4. made[PathOf(type)] # Absent
    <2>1. PICK k \in DOMAIN ToolCounters(type) : 2 * k + 1 <= made[PathOf(type)]
      BY DEF Record, Tables
    <2>2. k \in Nat
      BY <2>1, CountersAreLists DEF IsList, Inv, TypeOK
    <2> QED
      BY <1>3, <2>1, <2>2 DEF Absent
  <1>5. TypeOK'
    BY <1>1, <1>2, <1>3, Unchanging DEF Inv, TypeOK
  <1>6. RowsThere'
    BY <1>1, <1>2, <1>4 DEF Inv, RowsThere
  <1>7. HalfMade' /\ NoClash'
    BY <1>1, <1>2, Unchanging, FilesSame DEF Inv, HalfMade, Whole
  <1>8. AtWork' /\ DoneSoFar' /\ FinishedIsComplete'
    BY <1>1, <1>2, Unchanging, FilesSame DEF Inv, AtWork, DoneSoFar, FinishedIsComplete
  <1> QED
    BY <1>5, <1>6, <1>7, <1>8 DEF Inv

-----------------------------------------------------------------------------
(***************************************************************************)
(* The steps that change a file                                            *)
(***************************************************************************)

\* unlink takes the readings and the history of a file with it, or does nothing.
LEMMA Unlinked ==
    ASSUME Inv, n \in 1 .. 4, ~Nothing(Types[n]), UNCHANGED fixed, Unlink(Path),
           n' = n, force' \in BOOLEAN,
           pc' \in {"idle", "open"}, outcome' \in {"none", "errors", "finished"}
    PROVE  /\ TypeOK' /\ HalfMade' /\ NoClash' /\ RowsThere'
           /\ \A type \in TypeNames \ {Types[n]} : Nothing(type) \/
                 (Complete(type)' <=> Complete(type))
  <1>1. CASE Path \in locked
    <2>1. UNCHANGED <<disk, torn>>
      BY <1>1 DEF Unlink
    <2>2. made' = made
      BY <2>1 DEF disk
    <2>3. n' \in 0 .. Len(Types) + 1 /\ torn' \subseteq Paths /\ torn \subseteq torn'
      BY <2>1 DEF Inv, TypeOK
    <2> QED
      BY <1>1, <2>1, <2>2, <2>3, DiskSame, FilesSame
  <1>2. CASE Path \notin locked
    <2>1. /\ made' = [made EXCEPT ![Path] = Absent] /\ torn' = torn \ {Path}
          /\ unreadable' = unreadable \ {Path} /\ rows' = rows \ {Path}
      BY <1>2 DEF Unlink
    <2>2. Absent \in Int
      BY DEF Absent
    <2>3. /\ Path \in Paths /\ made' \in [Paths -> Int] /\ made'[Path] = Absent
          /\ \A p \in Paths : p # Path => made'[p] = made[p]
          /\ \A type \in TypeNames \ {Types[n]} : ~Nothing(type) =>
                /\ PathOf(type) # Path
                /\ made'[PathOf(type)] = made[PathOf(type)]
                /\ Complete(type)' <=> Complete(type)
      BY <2>1, <2>2, FileChanges
    <2>4. conf' = conf /\ locked' = locked /\ conf \in Configurations
      BY DEF fixed, Inv, TypeOK
    <2>5. \A type \in TypeNames : ~Nothing(type) =>
              made'[PathOf(type)] \in Absent .. Statements(type)
      BY <2>3, <2>4, FilesOfTypes DEF Absent, Path, Inv, TypeOK
    <2>6. TypeOK'
      BY <2>1, <2>3, <2>4, <2>5, Unchanging DEF Inv, TypeOK
    <2>7. HalfMade'
      <3> SUFFICES ASSUME NEW type \in TypeNames, ~Nothing(type) PROVE Whole(type)'
        BY Unchanging DEF HalfMade
      <3>1. CASE type = Types[n]
        BY <2>3, <3>1, Unchanging DEF Whole, Path
      <3>2. CASE type # Types[n]
        <4>1. \/ made[PathOf(type)] = Absent \/ Complete(type) \/ PathOf(type) \in torn
          BY <3>2 DEF Inv, HalfMade, Whole
        <4> QED
          BY <2>1, <2>3, <3>2, <4>1, Unchanging DEF Whole
      <3> QED
        BY <3>1, <3>2
    <2>8. NoClash'
      <3>1. 1 .. Absent = {}
        BY DEF Absent
      <3> SUFFICES ASSUME NEW type \in TypeNames, ~Nothing(type),
                          NEW k \in 1 .. made'[PathOf(type)]
                   PROVE  ~Clashes(type, k)
        BY Unchanging DEF NoClash
      <3>2. type # Types[n]
        BY <2>3, <3>1 DEF Path
      <3> QED
        BY <2>3, <3>2 DEF Inv, NoClash
    <2>9. RowsThere'
      BY <2>1, <2>3 DEF Inv, TypeOK, RowsThere
    <2> QED
      BY <2>3, <2>6, <2>7, <2>8, <2>9
  <1> QED
    BY <1>1, <1>2

\* meterd_db_open and the statements add to the file at hand.
LEMMA Grows ==
    ASSUME Inv, pc # "idle", pc # "type", UNCHANGED <<fixed, unreadable, rows, force, n, outcome, torn>>,
           pc' = "tables",
           NEW v \in 0 .. Statements(Types[n]), made' = [made EXCEPT ![Path] = v],
           made[Path] <= v, \A k \in 1 .. v : k <= made[Path] \/ ~Clashes(Types[n], k),
           Path \notin locked \/ v = made[Path]
    PROVE  Inv'
  <1>1. n \in 1 .. 4 /\ n \in Nat /\ ~Nothing(Types[n]) /\ outcome = "none" /\ n <= 4
    BY DEF Inv, AtWork
  <1>2. conf' = conf /\ locked' = locked /\ conf \in Configurations
    BY DEF fixed, Inv, TypeOK
  <1>3. v \in Int
    BY <1>1, <1>2, FilesOfTypes, TypesAre
  <1>4. /\ Path \in Paths /\ Types[n] \in TypeNames
        /\ made' \in [Paths -> Int] /\ made'[Path] = v
        /\ \A p \in Paths : p # Path => made'[p] = made[p]
        /\ \A type \in TypeNames \ {Types[n]} : ~Nothing(type) =>
              /\ PathOf(type) # Path
              /\ made'[PathOf(type)] = made[PathOf(type)]
              /\ Complete(type)' <=> Complete(type)
    BY <1>1, <1>3, FileChanges
  <1>5. TypeOK'
    <2>1. \A type \in TypeNames : ~Nothing(type) =>
              made'[PathOf(type)] \in Absent .. Statements(type)
      BY <1>2, <1>4, FilesOfTypes DEF Absent, Path, Inv, TypeOK
    <2> QED
      BY <1>2, <1>4, <2>1, Unchanging DEF Inv, TypeOK
  <1>6. HalfMade'
    <2> SUFFICES ASSUME NEW type \in TypeNames, ~Nothing(type) PROVE Whole(type)'
      BY Unchanging DEF HalfMade
    <2>1. CASE type = Types[n] /\ Path \notin locked
      BY <1>2, <2>1, Unchanging DEF Whole, Path
    <2>2. CASE type = Types[n] /\ Path \in locked
      <3>1. made' = made
        BY <1>4, <2>2 DEF Inv, TypeOK
      <3>2. \/ made[PathOf(type)] = Absent \/ Complete(type) \/ PathOf(type) \in torn
        BY <2>2 DEF Inv, HalfMade, Whole, Path
      <3> QED
        BY <3>1, <3>2, FilesSame
    <2>3. CASE type # Types[n]
      <3>1. \/ made[PathOf(type)] = Absent \/ Complete(type) \/ PathOf(type) \in torn
        BY <2>3 DEF Inv, HalfMade, Whole
      <3> QED
        BY <1>4, <2>3, <3>1, Unchanging DEF Whole
    <2> QED
      BY <2>1, <2>2, <2>3
  <1>7. NoClash'
    <2> SUFFICES ASSUME NEW type \in TypeNames, ~Nothing(type),
                        NEW k \in 1 .. made'[PathOf(type)]
                 PROVE  ~Clashes(type, k)
      BY Unchanging DEF NoClash
    <2>1. CASE type = Types[n]
      <3>1. k \in 1 .. v /\ made[Path] \in Int /\ k \in Nat
        BY <1>4, <2>1 DEF Path, Inv, TypeOK
      <3>2. CASE k <= made[Path]
        BY <2>1, <3>1, <3>2 DEF Inv, NoClash, Path
      <3> QED
        BY <2>1, <3>1, <3>2
    <2>2. CASE type # Types[n]
      BY <1>4, <2>2 DEF Inv, NoClash
    <2> QED
      BY <2>1, <2>2
  <1>8. RowsThere'
    BY <1>3, <1>4 DEF Inv, TypeOK, RowsThere, Absent
  <1>9. DoneSoFar'
    <2> SUFFICES ASSUME NEW m \in 1 .. n - 1 PROVE (Nothing(Types[m]) \/ Complete(Types[m]))'
      BY DEF DoneSoFar
    <2>1. Types[m] \in TypeNames \ {Types[n]}
      BY <1>1, TypesAre
    <2>2. Nothing(Types[m]) \/ Complete(Types[m])
      BY DEF Inv, DoneSoFar
    <2> QED
      BY <1>4, <2>1, <2>2, Unchanging
  <1> QED
    BY <1>1, <1>5, <1>6, <1>7, <1>8, <1>9, Unchanging DEF Inv, AtWork, FinishedIsComplete

\* No call of a run, no kill and no recording of the daemon disturbs it.
LEMMA NextInv == Inv /\ [Next]_vars => Inv'
  <1> SUFFICES ASSUME Inv, [Next]_vars PROVE Inv'
    OBVIOUS
  <1>0. Len(Types) = 4 /\ n \in 0 .. 5 /\ conf \in Configurations /\ force \in BOOLEAN
    BY TypesAre DEF Inv, TypeOK
  <1>1. ASSUME NEW f \in BOOLEAN, Start(f) PROVE Inv'
    <2>1. /\ pc = "idle" /\ pc' = "type" /\ force' = f /\ n' = 1 /\ outcome' = "none"
          /\ UNCHANGED <<fixed, disk, torn>>
      BY <1>1 DEF Start
    <2>2. TypeOK' /\ HalfMade' /\ NoClash' /\ RowsThere'
      BY <1>0, <2>1, DiskSame DEF Inv, TypeOK
    <2> QED
      BY <2>1, <2>2 DEF Inv, AtWork, DoneSoFar, FinishedIsComplete
  <1>2. CASE Finish
    <2>1. /\ pc = "type" /\ n > 4 /\ pc' = "idle" /\ outcome' = "finished"
          /\ UNCHANGED <<fixed, disk, force, n, torn>> /\ made' = made
      BY <1>0, <1>2 DEF Finish, disk
    <2>2. TypeOK' /\ HalfMade' /\ NoClash' /\ RowsThere'
      BY <2>1, DiskSame DEF Inv, TypeOK
    <2>3. \A m \in 1 .. 4 : Nothing(Types[m]) \/ Complete(Types[m])
      BY <1>0, <2>1 DEF Inv, DoneSoFar
    <2>4. FinishedIsComplete'
      BY <2>1, <2>3, TypesAre, Unchanging, FilesSame DEF FinishedIsComplete
    <2> QED
      BY <2>1, <2>2, <2>4 DEF Inv, AtWork, DoneSoFar
  <1>3. CASE Skip
    BY <1>0, <1>3, TypePassed DEF Skip, AtType
  <1>4. CASE ConfigurationFails
    BY <1>4, EndsWithErrors DEF ConfigurationFails, AtType
  <1>5. CASE Refuse
    BY <1>5, EndsWithErrors DEF Refuse, ToCreate, AtType
  <1>6. CASE Delete
    <2>1. /\ n \in 1 .. 4 /\ ~Nothing(Types[n]) /\ outcome = "none" /\ pc = "type"
          /\ pc' = "open" /\ UNCHANGED <<fixed, force, n, outcome>> /\ Unlink(Path)
      BY <1>0, <1>6 DEF Delete, ToCreate, AtType, Inv, AtWork
    <2>2. /\ TypeOK' /\ HalfMade' /\ NoClash' /\ RowsThere'
          /\ \A type \in TypeNames \ {Types[n]} : Nothing(type) \/
                (Complete(type)' <=> Complete(type))
      BY <1>0, <2>1, Unlinked
    <2>3. DoneSoFar'
      <3> SUFFICES ASSUME NEW m \in 1 .. n - 1 PROVE (Nothing(Types[m]) \/ Complete(Types[m]))'
        BY <2>1 DEF DoneSoFar
      <3>1. Types[m] \in TypeNames \ {Types[n]}
        BY <2>1, TypesAre
      <3>2. Nothing(Types[m]) \/ Complete(Types[m])
        BY <2>1 DEF Inv, DoneSoFar
      <3> QED
        BY <2>1, <2>2, <3>1, <3>2, Unchanging
    <2> QED
      BY <2>1, <2>2, <2>3, Unchanging DEF Inv, AtWork, FinishedIsComplete
  <1>7. CASE Open
    <2> DEFINE v == IF made[Path] = Absent THEN 0 ELSE made[Path]
    <2>1. /\ pc = "open" /\ pc' = "tables" /\ (Path \in locked => made[Path] # Absent)
          /\ UNCHANGED <<fixed, unreadable, rows, force, n, outcome, torn>>
          /\ made' = [made EXCEPT ![Path] = v]
      BY <1>7 DEF Open
    <2>2. Types[n] \in TypeNames /\ ~Nothing(Types[n])
      BY <2>1, TypesAre DEF Inv, AtWork
    <2>3. made[Path] \in Absent .. Statements(Types[n]) /\ Statements(Types[n]) \in Nat
      BY <1>0, <2>2, FilesOfTypes DEF Inv, TypeOK, Path
    <2>4. v \in 0 .. Statements(Types[n]) /\ made[Path] <= v
          /\ (made[Path] = Absent \/ v = made[Path])
      BY <2>3 DEF Absent
    <2>5. \A k \in 1 .. v : k <= made[Path]
      BY <2>3 DEF Absent
    <2> HIDE DEF v
    <2> QED
      BY <2>1, <2>4, <2>5, Grows
  <1>8. CASE OpenFails
    BY <1>8, EndsWithErrors DEF OpenFails
  <1>9. CASE Execute
    <2> DEFINE v == made[Path] + 1
    <2>1. /\ pc = "tables" /\ Path \notin locked /\ made[Path] < Statements(Types[n])
          /\ ~Clashes(Types[n], v)
          /\ UNCHANGED <<fixed, unreadable, rows, run, torn>>
          /\ made' = [made EXCEPT ![Path] = v]
      BY <1>9 DEF Execute
    <2>2. Types[n] \in TypeNames /\ ~Nothing(Types[n])
      BY <2>1, TypesAre DEF Inv, AtWork
    <2>3. made[Path] \in Absent .. Statements(Types[n]) /\ Statements(Types[n]) \in Nat
      BY <1>0, <2>2, FilesOfTypes DEF Inv, TypeOK, Path
    <2>4. v \in 0 .. Statements(Types[n]) /\ made[Path] <= v
      BY <2>1, <2>3 DEF Absent
    <2>5. \A k \in 1 .. v : k <= made[Path] \/ k = v
      BY <2>3 DEF Absent
    <2>6. UNCHANGED <<pc, force, n, outcome>>
      BY <2>1 DEF run
    <2> HIDE DEF v
    <2> QED
      BY <2>1, <2>4, <2>5, <2>6, Grows
  <1>10. CASE ExecuteFails
    <2>1. /\ n \in 1 .. 4 /\ ~Nothing(Types[n]) /\ pc = "tables" /\ pc' = "idle"
          /\ outcome' = "errors" /\ UNCHANGED <<fixed, force, n>> /\ Unlink(Path)
      BY <1>0, <1>10 DEF ExecuteFails, Errors, Inv, AtWork
    <2>2. TypeOK' /\ HalfMade' /\ NoClash' /\ RowsThere'
      BY <1>0, <2>1, Unlinked
    <2> QED
      BY <2>1, <2>2 DEF Inv, AtWork, DoneSoFar, FinishedIsComplete
  <1>11. CASE AllExecuted
    <2>1. Complete(Types[n])
      BY <1>11 DEF AllExecuted, Complete, Path
    <2>2. pc = "tables" /\ n <= 4 /\ NextType /\ UNCHANGED <<fixed, disk, torn>>
      BY <1>11 DEF AllExecuted, Inv, AtWork
    <2> QED
      BY <2>1, <2>2, TypePassed
  <1>12. CASE Killed
    BY <1>12, KilledInv
  <1>13. ASSUME NEW type \in TypeNames, Record(type) PROVE Inv'
    BY <1>13, RecordInv
  <1>14. CASE UNCHANGED vars
    <2>1. UNCHANGED <<fixed, disk, run, torn>>
      BY <1>14 DEF vars
    <2>2. UNCHANGED <<pc, force, n, outcome>> /\ made' = made
      BY <2>1 DEF run, disk
    <2>3. torn \subseteq torn' /\ torn' \subseteq Paths
      BY <2>1 DEF Inv, TypeOK
    <2>4. TypeOK' /\ HalfMade' /\ NoClash' /\ RowsThere'
      BY <2>1, <2>2, <2>3, DiskSame DEF Inv, TypeOK
    <2>5. \A type : (Nothing(type) \/ Complete(type))' <=> (Nothing(type) \/ Complete(type))
      BY <2>1, <2>2, Unchanging, FilesSame
    <2> QED
      BY <2>1, <2>2, <2>4, <2>5, Unchanging DEF Inv, AtWork, DoneSoFar, FinishedIsComplete
  <1> QED
    BY <1>1, <1>2, <1>3, <1>4, <1>5, <1>6, <1>7, <1>8, <1>9, <1>10, <1>11, <1>12, <1>13, <1>14
       DEF Next, ToolStep

\* So it holds in every state.
LEMMA InvHolds == Spec => []Inv
  BY InitInv, NextInv, PTL DEF Spec

-----------------------------------------------------------------------------
(***************************************************************************)
(* Theorems                                                                *)
(***************************************************************************)

\* Every variable of the tool keeps its type, whatever is configured.
THEOREM CreateDbTyped == Spec => []TypeOK
  <1>1. Inv => TypeOK
    BY DEF Inv
  <1> QED
    BY <1>1, InvHolds, PTL

\* "Finished database creation" means that every database is complete.
THEOREM FinishedComplete == Spec => []FinishedIsComplete
  <1>1. Inv => FinishedIsComplete
    BY DEF Inv
  <1> QED
    BY <1>1, InvHolds, PTL

\* Between runs there are only whole databases, absent ones and killed ones.
THEOREM NoHalfDatabase == Spec => []WholeOrAbsent
  <1>1. Inv => WholeOrAbsent
    BY DEF Inv, HalfMade, Whole, WholeOrAbsent
  <1> QED
    BY <1>1, InvHolds, PTL

\* All counters of a complete database have their tables, no two share one.
LEMMA CompleteTables ==
    ASSUME Inv, NEW type \in TypeNames, ~Nothing(type), Complete(type)
    PROVE  LET counters == ToolCounters(type) IN
           /\ \A k \in DOMAIN counters : counters[k].table \in Tables(type)
           /\ \A k, j \in DOMAIN counters : counters[k].table = counters[j].table => k = j
  <1> DEFINE counters == ToolCounters(type)
  <1>1. DOMAIN counters = 1 .. Len(counters) /\ Len(counters) \in Nat
    BY CountersAreLists DEF IsList, Inv, TypeOK
  <1>2. made[PathOf(type)] = 1 + 2 * Len(counters)
    BY DEF Complete, Statements
  <1>3. \A k \in DOMAIN counters : counters[k].table \in Tables(type)
    BY <1>1, <1>2 DEF Tables
  <1>4. ASSUME NEW k \in DOMAIN counters, NEW j \in DOMAIN counters, j < k,
               counters[k].table = counters[j].table
        PROVE  FALSE
    <2>1. 2 * k + 1 \in 1 .. made[PathOf(type)] /\ j \in 1 .. k - 1
      BY <1>1, <1>2, <1>4
    <2>2. (2 * k + 1) \div 2 = k /\ (2 * k + 1) % 2 # 0
      BY <1>1
    <2>3. Clashes(type, 2 * k + 1)
      BY <1>4, <2>1, <2>2 DEF Clashes
    <2> QED
      BY <2>1, <2>3 DEF Inv, NoClash
  <1> QED
    BY <1>1, <1>3, <1>4

\* Tool and daemon agree on the schema.
THEOREM SchemasAgree == Spec => []SchemaAgrees
  <1>1. Inv => SchemaAgrees
    <2> SUFFICES ASSUME Inv, outcome = "finished", NEW type \in TypeNames, ~Nothing(type)
                 PROVE  LET counters == DaemonCounters(type)
                            own == {i \in DOMAIN counters :
                                       counters[i] \notin ToSet(OtherRawCounters)}
                        IN  /\ \A i \in own : counters[i].table \in Tables(type)
                            /\ \A i, j \in own : counters[i].table = counters[j].table => i = j
      BY DEF SchemaAgrees
    <2> DEFINE tools == ToolCounters(type)
               daemons == DaemonCounters(type)
               own == {i \in DOMAIN daemons : daemons[i] \notin ToSet(OtherRawCounters)}
    <2>1. /\ \A k \in DOMAIN tools : tools[k].table \in Tables(type)
          /\ \A k, j \in DOMAIN tools : tools[k].table = tools[j].table => k = j
      BY CompleteTables DEF Inv, FinishedIsComplete
    <2>2. /\ IsList(tools) /\ IsList(OtherRawCounters)
          /\ daemons = IF IsRaw(type) THEN tools \o OtherRawCounters ELSE tools
      BY CountersAreLists DEF Inv, TypeOK
    <2> HIDE DEF tools, daemons
    <2>3. ASSUME NEW k \in own PROVE k \in DOMAIN tools /\ daemons[k] = tools[k]
      <3>1. CASE ~IsRaw(type)
        BY <2>2, <3>1
      <3>2. CASE IsRaw(type)
        <4>1. /\ Len(tools) \in Nat /\ Len(OtherRawCounters) \in Nat
              /\ k \in 1 .. Len(tools) + Len(OtherRawCounters)
              /\ daemons[k] = IF k <= Len(tools) THEN tools[k]
                              ELSE OtherRawCounters[k - Len(tools)]
          BY <2>2, <3>2, JoinLists
        <4>2. DOMAIN tools = 1 .. Len(tools)
              /\ DOMAIN OtherRawCounters = 1 .. Len(OtherRawCounters)
          BY <2>2 DEF IsList
        <4>3. k <= Len(tools)
          <5> SUFFICES ASSUME k > Len(tools) PROVE FALSE
            BY <4>1
          <5>1. k - Len(tools) \in DOMAIN OtherRawCounters
            BY <4>1, <4>2
          <5>2. daemons[k] \in ToSet(OtherRawCounters)
            BY <4>1, <5>1 DEF ToSet
          <5> QED
            BY <5>2
        <4> QED
          BY <4>1, <4>2, <4>3
      <3> QED
        BY <3>1, <3>2
    <2> QED
      BY <2>1, <2>3 DEF tools, daemons
  <1> QED
    BY <1>1, InvHolds, PTL

\* Without -f no run loses readings.
THEOREM ReadingsKept == Spec => KeepsReadings
  <1>1. ASSUME Inv, [Next]_vars
        PROVE  \A p \in rows : \/ force \/ p \in unreadable
                               \/ pc = "tables" /\ p = Path
                               \/ p \in rows'
    <2> SUFFICES ASSUME NEW p \in rows, p \notin rows'
                 PROVE  force \/ p \in unreadable \/ (pc = "tables" /\ p = Path)
      OBVIOUS
    <2>1. CASE Delete
      <3>1. p = Path
        BY <2>1 DEF Delete, Unlink, disk
      <3>2. made[p] # Absent
        BY <1>1 DEF Inv, RowsThere
      <3>3. force \/ made[Path] = Absent \/ Path \in unreadable
        BY <2>1 DEF Delete, Exists
      <3> QED
        BY <3>1, <3>2, <3>3
    <2>2. CASE ExecuteFails
      <3>1. p = Path
        BY <2>2 DEF ExecuteFails, Unlink, disk
      <3> QED
        BY <2>2, <3>1 DEF ExecuteFails
    <2>3. CASE ~Delete /\ ~ExecuteFails
      BY <1>1, <2>3 DEF Next, ToolStep, Start, Finish, Skip, ConfigurationFails, Refuse, Open,
         OpenFails, Execute, AllExecuted, Killed, Record, vars, disk
    <2> QED
      BY <2>1, <2>2, <2>3
  <1> QED
    BY <1>1, InvHolds, PTL DEF Spec, KeepsReadings
=============================================================================
