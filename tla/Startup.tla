------------------------------- MODULE Startup -------------------------------
(***************************************************************************)
(* What a process of the Python service does to its SQLite database before *)
(* it serves: create_session_factory creates the tables that are missing   *)
(* and runs the migrations.  Several processes may start on one file, and  *)
(* any of them may die anywhere and be started again.                      *)
(*                                                                         *)
(* The driver opens no transaction for DDL, so every CREATE and ALTER is   *)
(* committed by itself.  Statements that find their work already done fail *)
(* and end the process.  A served request is reduced to the claim of its   *)
(* idempotency key, the one INSERT that relies on an index.                *)
(***************************************************************************)
EXTENDS Integers, Sequences

CONSTANTS
    Processes,
    Tables,       \* the tables of models.py, in the order create_all takes them
    OldFiles,     \* what earlier releases left: sets of tables without NewColumns
    Keys,         \* idempotency keys
    MaxCrashes    \* bound: processes that die

\* The columns _upgrade_to_1 adds, in its order.
NewColumns == << <<"operational_events", "correlation_id">>, <<"actions", "next_attempt_at">>,
                 <<"actions", "lease_id">>, <<"actions", "leased_at">> >>

TableSet == {Tables[i] : i \in 1..Len(Tables)}
ColumnSet == {NewColumns[i] : i \in 1..Len(NewColumns)}

ASSUME Shapes == /\ Tables \in Seq(STRING) /\ MaxCrashes \in Nat
                 /\ "idempotency_records" \in TableSet
                 /\ \A c \in ColumnSet : c[1] \in TableSet
                 /\ \A f \in OldFiles : f \subseteq TableSet

VARIABLES
    tables,     \* tables in the file
    indexed,    \* those of them whose indexes exist
    columns,    \* columns of NewColumns in the file
    version,    \* schema_versions.version, -1 while the row does not exist
    records,    \* idempotency_records: how many rows each key has
    pc,         \* where each process is, "down" when it does not run
    missing,    \* tables it is going to create
    pos,        \* its place in Tables or in NewColumns
    asked,      \* the key its request is about to claim
    crashes

file == <<tables, indexed, columns, version, records>>
vars == <<file, pc, missing, pos, asked, crashes>>

Init ==
    /\ tables \in {{}} \cup OldFiles
    /\ indexed = tables
    /\ columns = {}
    /\ version = -1
    /\ records = [k \in Keys |-> 0]
    /\ pc = [p \in Processes |-> "down"]
    /\ missing = [p \in Processes |-> {}]
    /\ pos = [p \in Processes |-> 1]
    /\ asked \in [Processes -> Keys]
    /\ crashes = 0

Goto(p, label) == pc' = [pc EXCEPT ![p] = label]
Reaches(p, label, i) == Goto(p, label) /\ pos' = [pos EXCEPT ![p] = i]

Start(p) ==
    /\ pc[p] = "down"
    /\ Reaches(p, "check", 1)
    /\ missing' = [missing EXCEPT ![p] = {}]
    /\ UNCHANGED <<file, asked, crashes>>

-----------------------------------------------------------------------------
(* Base.metadata.create_all *)

\* The tables are looked up one after the other before any is created.
CheckTable(p) ==
    /\ pc[p] = "check"
    /\ missing' = [missing EXCEPT ![p] = @ \cup ({Tables[pos[p]]} \ tables)]
    /\ IF pos[p] < Len(Tables) THEN Reaches(p, "check", pos[p] + 1) ELSE Reaches(p, "create", 1)
    /\ UNCHANGED <<file, asked, crashes>>

\* CREATE TABLE, with all its columns; somebody else's table is an error.
CreateTable(p) ==
    LET t == Tables[pos[p]] IN
    /\ pc[p] = "create" /\ t \in missing[p]
    /\ IF t \in tables
         THEN Goto(p, "down") /\ UNCHANGED <<tables, columns>>
         ELSE /\ tables' = tables \cup {t}
              /\ columns' = columns \cup {c \in ColumnSet : c[1] = t}
              /\ Goto(p, "index")
    /\ UNCHANGED <<indexed, version, records, missing, pos, asked, crashes>>

AfterTable(p) == IF pos[p] < Len(Tables) THEN Reaches(p, "create", pos[p] + 1)
                                         ELSE Reaches(p, "ensure", 1)

\* CREATE INDEX for the table just created: the unique ones too.
CreateIndexes(p) ==
    /\ pc[p] = "index"
    /\ indexed' = indexed \cup {Tables[pos[p]]}
    /\ AfterTable(p)
    /\ UNCHANGED <<tables, columns, version, records, missing, asked, crashes>>

\* A table that was there is left alone, with the indexes it has.
SkipTable(p) ==
    /\ pc[p] = "create" /\ Tables[pos[p]] \notin missing[p]
    /\ AfterTable(p)
    /\ UNCHANGED <<file, missing, asked, crashes>>

-----------------------------------------------------------------------------
(* run_migrations *)

\* ensure_table: CREATE TABLE IF NOT EXISTS and SELECT of the row ..
EnsureTable(p) ==
    /\ pc[p] = "ensure"
    /\ Goto(p, IF version = -1 THEN "insert" ELSE "current")
    /\ UNCHANGED <<file, missing, pos, asked, crashes>>

\* .. and its INSERT, an IntegrityError when there is one by now.
InsertVersion(p) ==
    /\ pc[p] = "insert"
    /\ IF version = -1 THEN version' = 0 /\ Goto(p, "current")
                       ELSE UNCHANGED version /\ Goto(p, "down")
    /\ UNCHANGED <<tables, indexed, columns, records, missing, pos, asked, crashes>>

\* Faulty variant of NeedsUpgrade: any row will do.
NeedsUpgradeIfNew == version < 0

NeedsUpgrade == version < 1

Current(p) ==
    /\ pc[p] = "current"
    /\ Reaches(p, IF NeedsUpgrade THEN "inspect" ELSE "serve", 1)
    /\ UNCHANGED <<file, missing, asked, crashes>>

\* Faulty variant of NeedsColumn: the columns that exist are not looked at.
NeedsColumnAlways(c) == c[1] \in tables

\* _add_column_if_missing: the inspection ..
NeedsColumn(c) == c[1] \in tables /\ c \notin columns

\* Faulty variant of AfterColumn: one column too many.
AfterColumnOffByOne(p) == IF pos[p] <= Len(NewColumns) THEN Reaches(p, "inspect", pos[p] + 1)
                                                       ELSE Reaches(p, "stamp", 1)

AfterColumn(p) == IF pos[p] < Len(NewColumns) THEN Reaches(p, "inspect", pos[p] + 1)
                                              ELSE Reaches(p, "stamp", 1)

Inspect(p) ==
    /\ pc[p] = "inspect"
    /\ IF NeedsColumn(NewColumns[pos[p]]) THEN Goto(p, "alter") /\ UNCHANGED pos ELSE AfterColumn(p)
    /\ UNCHANGED <<file, missing, asked, crashes>>

\* .. and the ALTER TABLE, an error when somebody else has added the column.
AddColumn(p) ==
    LET c == NewColumns[pos[p]] IN
    /\ pc[p] = "alter"
    /\ IF c \in columns THEN Goto(p, "down") /\ UNCHANGED <<columns, pos>>
                        ELSE columns' = columns \cup {c} /\ AfterColumn(p)
    /\ UNCHANGED <<tables, indexed, version, records, missing, asked, crashes>>

SetCurrent(p) ==
    /\ pc[p] = "stamp"
    /\ version' = 1
    /\ Goto(p, "serve")
    /\ UNCHANGED <<tables, indexed, columns, records, missing, pos, asked, crashes>>

-----------------------------------------------------------------------------
(* Serving, and dying *)

\* _process_with_idempotency: the lookup of a key that has no record ..
LookUpKey(p) ==
    /\ pc[p] = "serve"
    /\ records[asked[p]] = 0
    /\ Goto(p, "claim")
    /\ UNCHANGED <<file, missing, pos, asked, crashes>>

\* .. and the INSERT of the claim, which the unique index refuses when another
\* request has claimed the key since.
ClaimKey(p) ==
    LET k == asked[p] IN
    /\ pc[p] = "claim"
    /\ records' = IF "idempotency_records" \in indexed /\ records[k] > 0 THEN records
                  ELSE [records EXCEPT ![k] = @ + 1]
    /\ Goto(p, "serve")
    /\ UNCHANGED <<tables, indexed, columns, version, missing, pos, asked, crashes>>

Crash(p) ==
    /\ pc[p] # "down"
    /\ crashes < MaxCrashes
    /\ crashes' = crashes + 1
    /\ Goto(p, "down")
    /\ UNCHANGED <<file, missing, pos, asked>>

Boot(p) == \/ Start(p) \/ CheckTable(p) \/ CreateTable(p) \/ CreateIndexes(p) \/ SkipTable(p)
           \/ EnsureTable(p) \/ InsertVersion(p) \/ Current(p) \/ Inspect(p) \/ AddColumn(p)
           \/ SetCurrent(p)

Next == \E p \in Processes : Boot(p) \/ LookUpKey(p) \/ ClaimKey(p) \/ Crash(p)

Spec == Init /\ [][Next]_vars

\* Whoever runs the service starts again a process that is down.
FairSpec == Spec /\ \A p \in Processes : WF_vars(Boot(p))

-----------------------------------------------------------------------------
(* Properties *)

Serving(p) == pc[p] \in {"serve", "claim"}

\* Every variable holds the kind of value the code gives it, and a loop never runs
\* past its list.
TypeOK ==
    /\ tables \subseteq TableSet /\ indexed \subseteq tables
    /\ columns \subseteq ColumnSet
    /\ version \in {-1, 0, 1}
    /\ records \in [Keys -> Nat]
    /\ pc \in [Processes -> {"down", "check", "create", "index", "ensure", "insert", "current",
                             "inspect", "alter", "stamp", "serve", "claim"}]
    /\ missing \in [Processes -> SUBSET TableSet]
    /\ pos \in [Processes -> Nat \ {0}]
    /\ \A p \in Processes : /\ pc[p] \in {"check", "create", "index"} => pos[p] <= Len(Tables)
                            /\ pc[p] \in {"inspect", "alter"} => pos[p] <= Len(NewColumns)
    /\ asked \in [Processes -> Keys]
    /\ crashes \in 0..MaxCrashes

\* No process serves on a schema that lacks a table or a column of models.py, and
\* the version row never promises more than is there: whichever process set it,
\* whoever died half way, and whatever release made the file.
ServesOnFullSchema ==
    (version = 1 \/ \E p \in Processes : Serving(p)) =>
        tables = TableSet /\ columns = ColumnSet

\* Processes that start together make each other fail, but never for ever: each
\* failure means that another one has got further, and in the end all of them serve.
EveryProcessServes == <>[](\A p \in Processes : Serving(p))

\* An idempotency key has one persisted record.
OneRecordPerKey == \A k \in Keys : records[k] <= 1
=============================================================================
