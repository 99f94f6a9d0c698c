------------------------------ MODULE MCStartup ------------------------------
(* Small instances of Startup for TLC. *)
EXTENDS Startup

\* Three of the tables: those the migration touches and the one whose index the
\* service relies on.
ThreeTables == <<"operational_events", "actions", "idempotency_records">>

\* The file of test_migration_adds_wave1_columns_to_existing_sqlite_database.
OldRelease == {{"operational_events", "actions"}}
=============================================================================
