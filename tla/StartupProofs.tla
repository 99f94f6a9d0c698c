---------------------------- MODULE StartupProofs ----------------------------
(***************************************************************************)
(* Proofs about Startup, for any number of processes that start, fail and  *)
(* die on one database file, and for any list of tables.                   *)
(***************************************************************************)
EXTENDS Startup, TLAPS

\* A process is past create_all.
Created(p) == pc[p] \in {"ensure", "insert", "current", "inspect", "alter", "stamp",
                         "serve", "claim"}

\* A table that a process has passed is in the file, and one that it still has to
\* come to is in the file or on its list.
TablesOf(p) ==
    /\ pc[p] = "check" =>
         \A i \in 1..Len(Tables) : i < pos[p] => Tables[i] \in tables \cup missing[p]
    /\ pc[p] \in {"create", "index"} =>
         /\ \A i \in 1..Len(Tables) : /\ i < pos[p] => Tables[i] \in tables
                                      /\ Tables[i] \in tables \cup missing[p]
    /\ pc[p] = "index" => Tables[pos[p]] \in tables
    /\ Created(p) => tables = TableSet

\* A column that a migration has passed is in the file.
ColumnsOf(p) ==
    /\ pc[p] \in {"inspect", "alter"} =>
         \A i \in 1..Len(NewColumns) : i < pos[p] => NewColumns[i] \in columns
    /\ pc[p] \in {"stamp", "serve", "claim"} => columns = ColumnSet

\* The version row comes after the tables, and version 1 after the columns.
VersionInv ==
    /\ version # -1 => tables = TableSet
    /\ version = 1 => columns = ColumnSet

SchemaInv == /\ TypeOK /\ VersionInv
             /\ \A p \in Processes : TablesOf(p) /\ ColumnsOf(p)

-----------------------------------------------------------------------------
(* Positions in the two lists *)

\* There is a first table, and a position in the list is one of a table.
LEMMA TablePositions ==
    /\ Len(Tables) \in Nat \ {0}
    /\ \A i \in Nat \ {0} : i <= Len(Tables) => Tables[i] \in TableSet
<1>1. Len(Tables) \in Nat
  BY Shapes
<1>2. Len(Tables) # 0
  BY <1>1, Shapes DEF TableSet
<1> QED
  BY <1>1, <1>2 DEF TableSet

\* The same for the columns.
LEMMA ColumnPositions ==
    /\ Len(NewColumns) = 4
    /\ \A i \in Nat \ {0} : i <= 4 => NewColumns[i] \in ColumnSet
<1>1. Len(NewColumns) = 4
  BY DEF NewColumns
<1> QED
  BY <1>1 DEF ColumnSet

\* All positions passed is all tables there.
LEMMA AllTables ==
    ASSUME tables \subseteq TableSet, \A i \in 1..Len(Tables) : Tables[i] \in tables
    PROVE  tables = TableSet
BY DEF TableSet

\* All positions passed is all columns there.
LEMMA AllColumns ==
    ASSUME columns \subseteq ColumnSet, \A i \in 1..Len(NewColumns) : NewColumns[i] \in columns
    PROVE  columns = ColumnSet
BY DEF ColumnSet

-----------------------------------------------------------------------------
(* One lemma per action *)

PcLabels == {"down", "check", "create", "index", "ensure", "insert", "current",
             "inspect", "alter", "stamp", "serve", "claim"}

\* The part of TypeOK that speaks of where the processes are.
PlacesOK == /\ pc \in [Processes -> PcLabels]
            /\ pos \in [Processes -> Nat \ {0}]
            /\ \A p \in Processes :
                 /\ pc[p] \in {"check", "create", "index"} => pos[p] <= Len(Tables)
                 /\ pc[p] \in {"inspect", "alter"} => pos[p] <= Len(NewColumns)

\* A process that goes to a place within its list.
LEMMA PlaceReached ==
    ASSUME PlacesOK, NEW p \in Processes, NEW label \in PcLabels, NEW i \in Nat \ {0},
           Reaches(p, label, i),
           label \in {"check", "create", "index"} => i <= Len(Tables),
           label \in {"inspect", "alter"} => i <= Len(NewColumns)
    PROVE  PlacesOK'
<1>1. pc' \in [Processes -> PcLabels] /\ pos' \in [Processes -> Nat \ {0}]
  BY DEF PlacesOK, Reaches, Goto
<1>2. pc'[p] = label /\ pos'[p] = i
  BY DEF PlacesOK, Reaches, Goto
<1>3. \A q \in Processes \ {p} : pc'[q] = pc[q] /\ pos'[q] = pos[q]
  BY DEF PlacesOK, Reaches, Goto
<1> QED
  BY <1>1, <1>2, <1>3 DEF PlacesOK

\* The loop over the tables ends at the last.
LEMMA AfterTablePlaces ==
    ASSUME TypeOK, NEW p \in Processes, AfterTable(p)
    PROVE  PlacesOK'
<1>1. PlacesOK
  BY DEF TypeOK, PlacesOK, PcLabels
<1>2. pos[p] \in Nat \ {0} /\ Len(Tables) \in Nat \ {0}
  BY TablePositions DEF TypeOK
<1>3. CASE pos[p] < Len(Tables)
  <2>1. Reaches(p, "create", pos[p] + 1)
    BY <1>3 DEF AfterTable
  <2>2. pos[p] + 1 <= Len(Tables) /\ pos[p] + 1 \in Nat \ {0}
    BY <1>2, <1>3
  <2> QED
    BY <1>1, <2>1, <2>2, PlaceReached DEF PcLabels
<1>4. CASE ~(pos[p] < Len(Tables))
  <2>1. Reaches(p, "ensure", 1)
    BY <1>4 DEF AfterTable
  <2> QED
    BY <1>1, <2>1, PlaceReached DEF PcLabels
<1> QED
  BY <1>3, <1>4

\* The loop over the columns ends at the last.
LEMMA AfterColumnPlaces ==
    ASSUME TypeOK, NEW p \in Processes, AfterColumn(p)
    PROVE  PlacesOK'
<1>1. PlacesOK
  BY DEF TypeOK, PlacesOK, PcLabels
<1>2. pos[p] \in Nat \ {0} /\ Len(NewColumns) \in Nat \ {0}
  BY ColumnPositions DEF TypeOK
<1>3. CASE pos[p] < Len(NewColumns)
  <2>1. Reaches(p, "inspect", pos[p] + 1)
    BY <1>3 DEF AfterColumn
  <2>2. pos[p] + 1 <= Len(NewColumns) /\ pos[p] + 1 \in Nat \ {0}
    BY <1>2, <1>3
  <2> QED
    BY <1>1, <2>1, <2>2, PlaceReached DEF PcLabels
<1>4. CASE ~(pos[p] < Len(NewColumns))
  <2>1. Reaches(p, "stamp", 1)
    BY <1>4 DEF AfterColumn
  <2> QED
    BY <1>1, <2>1, PlaceReached DEF PcLabels
<1> QED
  BY <1>3, <1>4

\* The file only grows, so what one process does leaves the promises of all others
\* intact.
LEMMA OthersStep ==
    ASSUME SchemaInv, NEW p \in Processes,
           \A q \in Processes \ {p} : /\ pc'[q] = pc[q] /\ pos'[q] = pos[q]
                                      /\ missing'[q] = missing[q],
           tables \subseteq tables', tables' \subseteq TableSet,
           columns \subseteq columns', columns' \subseteq ColumnSet,
           TypeOK', VersionInv', TablesOf(p)', ColumnsOf(p)'
    PROVE  SchemaInv'
<1>1. ASSUME NEW q \in Processes \ {p} PROVE TablesOf(q)'
  BY <1>1 DEF SchemaInv, TablesOf, Created
<1>2. ASSUME NEW q \in Processes \ {p} PROVE ColumnsOf(q)'
  BY <1>2 DEF SchemaInv, ColumnsOf
<1> QED
  BY <1>1, <1>2 DEF SchemaInv

\* A step that leaves the tables, the columns and the version alone.
LEMMA FileUnchanged ==
    ASSUME SchemaInv, UNCHANGED <<tables, columns, version>>
    PROVE  /\ VersionInv'
           /\ tables \subseteq tables' /\ tables' \subseteq TableSet
           /\ columns \subseteq columns' /\ columns' \subseteq ColumnSet
BY DEF SchemaInv, TypeOK, VersionInv

\* A process that starts has checked nothing.
LEMMA StartStep ==
    ASSUME SchemaInv, NEW p \in Processes, Start(p)
    PROVE  SchemaInv'
<1> USE DEF SchemaInv
<1>1. TypeOK'
  BY TablePositions DEF TypeOK, Start, Reaches, Goto, file
<1>2. TablesOf(p)'
  BY TablePositions DEF TypeOK, TablesOf, Created, Start, Reaches, Goto
<1>3. ColumnsOf(p)'
  BY DEF TypeOK, ColumnsOf, Start, Reaches, Goto
<1>4. \A q \in Processes \ {p} : pc'[q] = pc[q] /\ pos'[q] = pos[q] /\ missing'[q] = missing[q]
  BY DEF TypeOK, Start, Reaches, Goto
<1> QED
  BY <1>1, <1>2, <1>3, <1>4, OthersStep, FileUnchanged DEF Start, Reaches, Goto, file

\* A table is there or goes on the list.
LEMMA CheckTableStep ==
    ASSUME SchemaInv, NEW p \in Processes, CheckTable(p)
    PROVE  SchemaInv'
<1> USE DEF SchemaInv
<1>1. TypeOK'
  <2>1. PlacesOK
    BY DEF TypeOK, PlacesOK, PcLabels
  <2>2. PlacesOK'
    <3>1. pos[p] \in Nat \ {0} /\ Len(Tables) \in Nat \ {0}
      BY TablePositions DEF TypeOK
    <3>2. CASE pos[p] < Len(Tables)
      <4>1. Reaches(p, "check", pos[p] + 1)
        BY <3>2 DEF CheckTable
      <4>2. pos[p] + 1 <= Len(Tables) /\ pos[p] + 1 \in Nat \ {0}
        BY <3>1, <3>2
      <4> QED
        BY <2>1, <4>1, <4>2, PlaceReached DEF PcLabels
    <3>3. CASE ~(pos[p] < Len(Tables))
      <4>1. Reaches(p, "create", 1)
        BY <3>3 DEF CheckTable
      <4> QED
        BY <2>1, <3>1, <4>1, PlaceReached DEF PcLabels
    <3> QED
      BY <3>2, <3>3
  <2>3. missing' \in [Processes -> SUBSET TableSet]
    BY TablePositions DEF TypeOK, CheckTable
  <2> QED
    BY <2>2, <2>3 DEF TypeOK, PlacesOK, PcLabels, CheckTable, file
<1>2. TablesOf(p)'
  BY TablePositions DEF TypeOK, TablesOf, Created, CheckTable, Reaches, Goto, file
<1>3. ColumnsOf(p)'
  BY DEF TypeOK, ColumnsOf, CheckTable, Reaches, Goto
<1>4. \A q \in Processes \ {p} : pc'[q] = pc[q] /\ pos'[q] = pos[q] /\ missing'[q] = missing[q]
  BY DEF TypeOK, CheckTable, Reaches, Goto
<1> QED
  BY <1>1, <1>2, <1>3, <1>4, OthersStep, FileUnchanged DEF CheckTable, Reaches, Goto, file

\* A table that is not on the list is there.
LEMMA SkipTableStep ==
    ASSUME SchemaInv, NEW p \in Processes, SkipTable(p)
    PROVE  SchemaInv'
<1> USE DEF SchemaInv
<1>1. TypeOK'
  BY AfterTablePlaces DEF TypeOK, PlacesOK, PcLabels, SkipTable, file
<1>2. TablesOf(p)'
  BY TablePositions, AllTables DEF TypeOK, TablesOf, Created, SkipTable, AfterTable, Reaches, Goto, file
<1>3. ColumnsOf(p)'
  BY DEF TypeOK, ColumnsOf, SkipTable, AfterTable, Reaches, Goto
<1>4. \A q \in Processes \ {p} : pc'[q] = pc[q] /\ pos'[q] = pos[q] /\ missing'[q] = missing[q]
  BY DEF TypeOK, SkipTable, AfterTable, Reaches, Goto
<1> QED
  BY <1>1, <1>2, <1>3, <1>4, OthersStep, FileUnchanged DEF SkipTable, AfterTable, Reaches, Goto, file

\* ensure_table only looks.
LEMMA EnsureTableStep ==
    ASSUME SchemaInv, NEW p \in Processes, EnsureTable(p)
    PROVE  SchemaInv'
<1> USE DEF SchemaInv
<1>1. TypeOK'
  BY DEF TypeOK, EnsureTable, Goto, file
<1>2. TablesOf(p)'
  BY DEF TypeOK, TablesOf, Created, EnsureTable, Goto, file
<1>3. ColumnsOf(p)'
  BY DEF TypeOK, ColumnsOf, EnsureTable, Goto
<1>4. \A q \in Processes \ {p} : pc'[q] = pc[q] /\ pos'[q] = pos[q] /\ missing'[q] = missing[q]
  BY DEF TypeOK, EnsureTable, Goto
<1> QED
  BY <1>1, <1>2, <1>3, <1>4, OthersStep, FileUnchanged DEF EnsureTable, Goto, file

\* A version of 1 means that the columns are there.
LEMMA CurrentStep ==
    ASSUME SchemaInv, NEW p \in Processes, Current(p)
    PROVE  SchemaInv'
<1> USE DEF SchemaInv
<1>1. TypeOK'
  BY ColumnPositions DEF TypeOK, Current, NeedsUpgrade, Reaches, Goto, file
<1>2. TablesOf(p)'
  BY DEF TypeOK, TablesOf, Created, Current, NeedsUpgrade, Reaches, Goto, file
<1>3. ColumnsOf(p)'
  BY DEF TypeOK, ColumnsOf, VersionInv, Current, NeedsUpgrade, Reaches, Goto, file
<1>4. \A q \in Processes \ {p} : pc'[q] = pc[q] /\ pos'[q] = pos[q] /\ missing'[q] = missing[q]
  BY DEF TypeOK, Current, NeedsUpgrade, Reaches, Goto
<1> QED
  BY <1>1, <1>2, <1>3, <1>4, OthersStep, FileUnchanged DEF Current, NeedsUpgrade, Reaches, Goto, file

\* A column that needs no ALTER is there: its table is.
LEMMA InspectStep ==
    ASSUME SchemaInv, NEW p \in Processes, Inspect(p)
    PROVE  SchemaInv'
<1> USE DEF SchemaInv
<1>1. TypeOK'
  <2>1. CASE AfterColumn(p)
    BY <2>1, AfterColumnPlaces DEF TypeOK, PlacesOK, PcLabels, Inspect, file
  <2>2. CASE Goto(p, "alter") /\ UNCHANGED pos
    BY <2>2 DEF TypeOK, Inspect, Goto, file
  <2> QED
    BY <2>1, <2>2 DEF Inspect
<1>2. TablesOf(p)'
  BY DEF TypeOK, TablesOf, Created, Inspect, NeedsColumn, AfterColumn, Reaches, Goto, file
<1>3. ColumnsOf(p)'
  BY ColumnPositions, Shapes, AllColumns DEF TypeOK, TablesOf, Created, ColumnsOf, Inspect, NeedsColumn, AfterColumn, Reaches, Goto, file
<1>4. \A q \in Processes \ {p} : pc'[q] = pc[q] /\ pos'[q] = pos[q] /\ missing'[q] = missing[q]
  BY DEF TypeOK, Inspect, NeedsColumn, AfterColumn, Reaches, Goto
<1> QED
  BY <1>1, <1>2, <1>3, <1>4, OthersStep, FileUnchanged DEF Inspect, NeedsColumn, AfterColumn, Reaches, Goto, file

\* A lookup changes nothing.
LEMMA LookUpKeyStep ==
    ASSUME SchemaInv, NEW p \in Processes, LookUpKey(p)
    PROVE  SchemaInv'
<1> USE DEF SchemaInv
<1>1. TypeOK'
  BY DEF TypeOK, LookUpKey, Goto, file
<1>2. TablesOf(p)'
  BY DEF TypeOK, TablesOf, Created, LookUpKey, Goto, file
<1>3. ColumnsOf(p)'
  BY DEF TypeOK, ColumnsOf, LookUpKey, Goto, file
<1>4. \A q \in Processes \ {p} : pc'[q] = pc[q] /\ pos'[q] = pos[q] /\ missing'[q] = missing[q]
  BY DEF TypeOK, LookUpKey, Goto
<1> QED
  BY <1>1, <1>2, <1>3, <1>4, OthersStep, FileUnchanged DEF LookUpKey, Goto, file

\* A claim changes the records only.
LEMMA ClaimKeyStep ==
    ASSUME SchemaInv, NEW p \in Processes, ClaimKey(p)
    PROVE  SchemaInv'
<1> USE DEF SchemaInv
<1>1. TypeOK'
  BY DEF TypeOK, ClaimKey, Goto, file
<1>2. TablesOf(p)'
  BY DEF TypeOK, TablesOf, Created, ClaimKey, Goto
<1>3. ColumnsOf(p)'
  BY DEF TypeOK, ColumnsOf, ClaimKey, Goto
<1>4. \A q \in Processes \ {p} : pc'[q] = pc[q] /\ pos'[q] = pos[q] /\ missing'[q] = missing[q]
  BY DEF TypeOK, ClaimKey, Goto
<1> QED
  BY <1>1, <1>2, <1>3, <1>4, OthersStep, FileUnchanged DEF ClaimKey, Goto, file

\* A process that dies promises nothing.
LEMMA CrashStep ==
    ASSUME SchemaInv, NEW p \in Processes, Crash(p)
    PROVE  SchemaInv'
<1> USE DEF SchemaInv
<1>1. TypeOK'
  BY Shapes DEF TypeOK, Crash, Goto, file
<1>2. TablesOf(p)'
  BY DEF TypeOK, TablesOf, Created, Crash, Goto
<1>3. ColumnsOf(p)'
  BY DEF TypeOK, ColumnsOf, Crash, Goto
<1>4. \A q \in Processes \ {p} : pc'[q] = pc[q] /\ pos'[q] = pos[q] /\ missing'[q] = missing[q]
  BY DEF TypeOK, Crash, Goto
<1> QED
  BY <1>1, <1>2, <1>3, <1>4, OthersStep, FileUnchanged DEF Crash, Goto, file

\* CREATE TABLE, or the end of a process that came second.
LEMMA CreateTableStep ==
    ASSUME SchemaInv, NEW p \in Processes, CreateTable(p)
    PROVE  SchemaInv'
<1> USE DEF SchemaInv
<1>1. TypeOK'
  <2>1. tables' \subseteq TableSet /\ indexed' \subseteq tables' /\ columns' \subseteq ColumnSet
    BY TablePositions DEF TypeOK, CreateTable
  <2>2. PlacesOK'
    BY DEF TypeOK, PlacesOK, PcLabels, CreateTable, Goto
  <2> QED
    BY <2>1, <2>2 DEF TypeOK, PlacesOK, PcLabels, CreateTable
<1>2. TablesOf(p)'
  <2>1. CASE Tables[pos[p]] \in tables
    BY <2>1 DEF TypeOK, TablesOf, Created, CreateTable, Goto
  <2>2. CASE Tables[pos[p]] \notin tables
    <3>1. /\ pc[p] = "create" /\ pc'[p] = "index" /\ UNCHANGED <<pos, missing>>
          /\ tables' = tables \cup {Tables[pos[p]]}
      BY <2>2 DEF TypeOK, CreateTable, Goto
    <3> QED
      BY <3>1 DEF TablesOf, Created
  <2> QED
    BY <2>1, <2>2
<1>3. ColumnsOf(p)'
  BY DEF TypeOK, ColumnsOf, CreateTable, Goto
<1>4. VersionInv'
  BY TablePositions DEF TypeOK, VersionInv, CreateTable
<1>5. /\ tables \subseteq tables' /\ tables' \subseteq TableSet
      /\ columns \subseteq columns' /\ columns' \subseteq ColumnSet
  BY TablePositions DEF TypeOK, CreateTable
<1>6. \A q \in Processes \ {p} : pc'[q] = pc[q] /\ pos'[q] = pos[q] /\ missing'[q] = missing[q]
  BY DEF TypeOK, CreateTable, Goto
<1> QED
  BY <1>1, <1>2, <1>3, <1>4, <1>5, <1>6, OthersStep

\* The indexes of a table follow the table.
LEMMA CreateIndexesStep ==
    ASSUME SchemaInv, NEW p \in Processes, CreateIndexes(p)
    PROVE  SchemaInv'
<1> USE DEF SchemaInv
<1>1. TypeOK'
  BY AfterTablePlaces DEF TypeOK, TablesOf, PlacesOK, PcLabels, CreateIndexes
<1>2. TablesOf(p)'
  BY TablePositions, AllTables DEF TypeOK, TablesOf, Created, CreateIndexes, AfterTable, Reaches, Goto
<1>3. ColumnsOf(p)'
  BY DEF TypeOK, ColumnsOf, CreateIndexes, AfterTable, Reaches, Goto
<1>4. VersionInv'
  BY DEF VersionInv, CreateIndexes
<1>5. /\ tables \subseteq tables' /\ tables' \subseteq TableSet
      /\ columns \subseteq columns' /\ columns' \subseteq ColumnSet
  BY DEF TypeOK, CreateIndexes
<1>6. \A q \in Processes \ {p} : pc'[q] = pc[q] /\ pos'[q] = pos[q] /\ missing'[q] = missing[q]
  BY DEF TypeOK, CreateIndexes, AfterTable, Reaches, Goto
<1> QED
  BY <1>1, <1>2, <1>3, <1>4, <1>5, <1>6, OthersStep

\* The version row is written when all tables are there.
LEMMA InsertVersionStep ==
    ASSUME SchemaInv, NEW p \in Processes, InsertVersion(p)
    PROVE  SchemaInv'
<1> USE DEF SchemaInv
<1>1. TypeOK'
  BY DEF TypeOK, InsertVersion, Goto
<1>2. TablesOf(p)'
  BY DEF TypeOK, TablesOf, Created, InsertVersion, Goto
<1>3. ColumnsOf(p)'
  BY DEF TypeOK, ColumnsOf, InsertVersion, Goto
<1>4. VersionInv'
  BY DEF TypeOK, VersionInv, TablesOf, Created, InsertVersion
<1>5. /\ tables \subseteq tables' /\ tables' \subseteq TableSet
      /\ columns \subseteq columns' /\ columns' \subseteq ColumnSet
  BY DEF TypeOK, InsertVersion
<1>6. \A q \in Processes \ {p} : pc'[q] = pc[q] /\ pos'[q] = pos[q] /\ missing'[q] = missing[q]
  BY DEF TypeOK, InsertVersion, Goto
<1> QED
  BY <1>1, <1>2, <1>3, <1>4, <1>5, <1>6, OthersStep

\* ALTER TABLE, or the end of a process that came second.
LEMMA AddColumnStep ==
    ASSUME SchemaInv, NEW p \in Processes, AddColumn(p)
    PROVE  SchemaInv'
<1> USE DEF SchemaInv
<1>1. TypeOK'
  <2>1. columns' \subseteq ColumnSet
    BY ColumnPositions DEF TypeOK, AddColumn
  <2>2. CASE AfterColumn(p)
    BY <2>1, <2>2, AfterColumnPlaces DEF TypeOK, PlacesOK, PcLabels, AddColumn
  <2>3. CASE Goto(p, "down") /\ UNCHANGED <<columns, pos>>
    BY <2>1, <2>3 DEF TypeOK, AddColumn, Goto
  <2> QED
    BY <2>2, <2>3 DEF AddColumn
<1>2. TablesOf(p)'
  BY DEF TypeOK, TablesOf, Created, AddColumn, AfterColumn, Reaches, Goto
<1>3. ColumnsOf(p)'
  <2>1. columns' \subseteq ColumnSet
    BY ColumnPositions DEF TypeOK, AddColumn
  <2>2. CASE NewColumns[pos[p]] \in columns
    BY <2>2 DEF TypeOK, ColumnsOf, AddColumn, Goto
  <2>3. CASE NewColumns[pos[p]] \notin columns
    <3> DEFINE n == Len(NewColumns)
    <3>1. /\ pc[p] = "alter" /\ AfterColumn(p) /\ columns' = columns \cup {NewColumns[pos[p]]}
      BY <2>3 DEF AddColumn
    <3>2. pos[p] \in 1..n /\ n \in Nat
      BY <3>1, ColumnPositions DEF TypeOK
    <3>3. \A i \in 1..n : i <= pos[p] => NewColumns[i] \in columns'
      BY <3>1, <3>2 DEF ColumnsOf
    <3>4. CASE pos[p] < n
      <4>1. pc'[p] = "inspect" /\ pos'[p] = pos[p] + 1
        BY <3>1, <3>4 DEF TypeOK, AfterColumn, Reaches, Goto
      <4> QED
        BY <3>2, <3>3, <4>1 DEF ColumnsOf
    <3>5. CASE ~(pos[p] < n)
      <4>1. pc'[p] = "stamp"
        BY <3>1, <3>5 DEF TypeOK, AfterColumn, Reaches, Goto
      <4>2. \A i \in 1..n : NewColumns[i] \in columns'
        BY <3>2, <3>3, <3>5
      <4>3. columns' = ColumnSet
        BY <2>1, <4>2 DEF ColumnSet
      <4> QED
        BY <4>1, <4>3 DEF ColumnsOf
    <3> QED
      BY <3>4, <3>5
  <2> QED
    BY <2>2, <2>3
<1>4. VersionInv'
  BY ColumnPositions DEF TypeOK, VersionInv, AddColumn
<1>5. /\ tables \subseteq tables' /\ tables' \subseteq TableSet
      /\ columns \subseteq columns' /\ columns' \subseteq ColumnSet
  BY ColumnPositions DEF TypeOK, AddColumn
<1>6. \A q \in Processes \ {p} : pc'[q] = pc[q] /\ pos'[q] = pos[q] /\ missing'[q] = missing[q]
  BY DEF TypeOK, AddColumn, AfterColumn, Reaches, Goto
<1> QED
  BY <1>1, <1>2, <1>3, <1>4, <1>5, <1>6, OthersStep

\* Version 1 is written when all columns are there.
LEMMA SetCurrentStep ==
    ASSUME SchemaInv, NEW p \in Processes, SetCurrent(p)
    PROVE  SchemaInv'
<1> USE DEF SchemaInv
<1>1. TypeOK'
  BY DEF TypeOK, SetCurrent, Goto
<1>2. TablesOf(p)'
  BY DEF TypeOK, TablesOf, Created, SetCurrent, Goto
<1>3. ColumnsOf(p)'
  BY DEF TypeOK, ColumnsOf, SetCurrent, Goto
<1>4. VersionInv'
  BY DEF VersionInv, TablesOf, Created, ColumnsOf, SetCurrent
<1>5. /\ tables \subseteq tables' /\ tables' \subseteq TableSet
      /\ columns \subseteq columns' /\ columns' \subseteq ColumnSet
  BY DEF TypeOK, SetCurrent
<1>6. \A q \in Processes \ {p} : pc'[q] = pc[q] /\ pos'[q] = pos[q] /\ missing'[q] = missing[q]
  BY DEF TypeOK, SetCurrent, Goto
<1> QED
  BY <1>1, <1>2, <1>3, <1>4, <1>5, <1>6, OthersStep

-----------------------------------------------------------------------------
(* The theorems *)

\* A new file, or one of an earlier release, has no version.
LEMMA InitSchemaInv == Init => SchemaInv
<1> SUFFICES ASSUME Init PROVE SchemaInv
  OBVIOUS
<1>1. TypeOK
  BY Shapes DEF Init, TypeOK
<1> QED
  BY <1>1 DEF Init, SchemaInv, VersionInv, TablesOf, ColumnsOf, Created

\* Every step keeps the invariant.
LEMMA NextSchemaInv == SchemaInv /\ [Next]_vars => SchemaInv'
<1> SUFFICES ASSUME SchemaInv, [Next]_vars PROVE SchemaInv'
  OBVIOUS
<1>1. ASSUME NEW p \in Processes, Boot(p) PROVE SchemaInv'
  BY <1>1, StartStep, CheckTableStep, CreateTableStep, CreateIndexesStep, SkipTableStep,
     EnsureTableStep, InsertVersionStep, CurrentStep, InspectStep, AddColumnStep,
     SetCurrentStep DEF Boot
<1>2. CASE UNCHANGED vars
  BY <1>2 DEF SchemaInv, TypeOK, VersionInv, TablesOf, ColumnsOf, Created, vars, file
<1> QED
  BY <1>1, <1>2, LookUpKeyStep, ClaimKeyStep, CrashStep DEF Next

\* However processes start, fail and die on one file, no step of one breaks what
\* another has seen to be there.
THEOREM SchemaInvariance == Spec => []SchemaInv
BY InitSchemaInv, NextSchemaInv, PTL DEF Spec

\* Every variable of the start keeps its type and no loop runs past its list, for any
\* number of processes.
THEOREM TypeCorrect == Spec => []TypeOK
<1>1. SchemaInv => TypeOK
  BY DEF SchemaInv
<1> QED
  BY <1>1, SchemaInvariance, PTL

\* No process serves, and no version row says 1, before every table and every column
\* of models.py is there: for any number of processes and deaths, and any old file.
THEOREM FullSchemaServed == Spec => []ServesOnFullSchema
<1>1. SchemaInv => ServesOnFullSchema
  BY DEF SchemaInv, TypeOK, VersionInv, TablesOf, Created, ColumnsOf, ServesOnFullSchema, Serving
<1> QED
  BY <1>1, SchemaInvariance, PTL
==============================================================================
