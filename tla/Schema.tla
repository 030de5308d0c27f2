-------------------------------- MODULE Schema --------------------------------
(***************************************************************************)
(* The schema of the database and its six migrations (run_migrations,        *)
(* db/mod.rs), each in a transaction that ends with its row in _migrations.  *)
(*                                                                         *)
(* A database may have been made by an earlier gateway, whose schema.sql    *)
(* lacked what a later migration adds: tables are created IF NOT EXISTS, and *)
(* a column is added when table_info does not show it.  A process that dies, *)
(* or gives up on an error, leaves the database as the last commit left it. *)
(***************************************************************************)
EXTENDS Integers, Sequences, FiniteSets

VARIABLES
    database,   \* what is committed: tables and columns, and _migrations
    tx          \* the transaction: its migration, and what it has made

schemaVars == <<database, tx>>

\* A table is <<name>>, a column added later <<table, name>>.
BaseTables ==
    {<<"tenants">>, <<"credentials">>, <<"agent_tokens">>, <<"phone_tokens">>,
     <<"phone_push_keys">>, <<"pending_sessions">>, <<"machines">>, <<"quotas">>,
     <<"audit_entries">>, <<"workers">>}
TaskTables ==
    {<<"tasks">>, <<"workflows">>, <<"workflow_runs">>, <<"task_outputs">>,
     <<"agent_credentials">>, <<"agent_messages">>}
WatchdogTables ==
    {<<"watchdog_reports">>, <<"ultimata">>, <<"agent_roles">>, <<"disagreements">>,
     <<"workflow_templates">>}

ConnectTokenHash == <<"machines", "connect_token_hash">>
Counter == <<"credentials", "counter">>
StepResults == <<"workflow_runs", "step_results">>

\* schema.sql has what the migrations 2 to 4 add.
InitialSchema == BaseTables \cup TaskTables \cup WatchdogTables \cup {ConnectTokenHash}

Migrations == 1 .. 6
Creates == <<InitialSchema, {}, TaskTables, WatchdogTables, {<<"phone_challenges">>}, {}>>
Adds == <<{}, {ConnectTokenHash}, {}, {}, {Counter}, {StepResults}>>

WholeSchema == UNION {Creates[i] \cup Adds[i] : i \in Migrations}

\* What a gateway with the first n migrations left, with today's schema.sql or with
\* the first one.
Left(n, early) ==
    UNION {(IF i = 1 /\ early THEN BaseTables ELSE Creates[i]) \cup Adds[i] : i \in 1 .. n}

NoTx == [migration |-> 0, made |-> {}, created |-> FALSE]

SchemaInit(n, early) ==
    /\ database = [has |-> Left(n, early), applied |-> 1 .. n]
    /\ tx = NoTx

-----------------------------------------------------------------------------
(* A broken variant of BeginMigration.                                      *)

\* The row in _migrations is written before the transaction, not in it.
BeginRecorded(i) ==
    /\ tx = NoTx
    /\ i \notin database.applied /\ 1 .. i - 1 \subseteq database.applied
    /\ tx' = [NoTx EXCEPT !.migration = i]
    /\ database' = [database EXCEPT !.applied = @ \cup {i}]

-----------------------------------------------------------------------------
(* run_migrations.                                                          *)

\* COUNT(*) of the row, migration after migration, then BEGIN.
BeginMigration(i) ==
    /\ tx = NoTx
    /\ i \notin database.applied /\ 1 .. i - 1 \subseteq database.applied
    /\ tx' = [NoTx EXCEPT !.migration = i]
    /\ UNCHANGED database

\* CREATE TABLE IF NOT EXISTS.
CreateTables(i) ==
    /\ tx.migration = i /\ ~tx.created
    /\ tx' = [tx EXCEPT !.created = TRUE, !.made = @ \cup Creates[i]]
    /\ UNCHANGED database

\* What ALTER TABLE can add: to a table that is there, a column that is not.
Lacking(i) == Adds[i] \ (database.has \cup tx.made)
Alterable(i) == \A column \in Lacking(i) : <<column[1]>> \in database.has \cup tx.made

AddColumns(i) ==
    /\ tx.migration = i /\ tx.created
    /\ Lacking(i) # {} /\ Alterable(i)
    /\ tx' = [tx EXCEPT !.made = @ \cup Lacking(i)]
    /\ UNCHANGED database

\* The row in _migrations, and COMMIT.
CommitMigration(i) ==
    /\ tx.migration = i /\ tx.created /\ Lacking(i) = {}
    /\ database' = [has |-> database.has \cup tx.made, applied |-> database.applied \cup {i}]
    /\ tx' = NoTx

Rollback == tx' = NoTx /\ UNCHANGED database

Migrate ==
    \E i \in Migrations :
        BeginMigration(i) \/ CreateTables(i) \/ AddColumns(i) \/ CommitMigration(i)

Migrated == tx = NoTx /\ database.applied = Migrations
=============================================================================
