--------------------------- MODULE SchemaMigration ---------------------------
(***************************************************************************)
(* Creating and upgrading the database (app/db.py, Database.init).  Every  *)
(* worker does it when it starts (app/main.py, lifespan), and so do the    *)
(* tools mintkey, keys and verify_blobs: it looks for the `files` table,   *)
(* adds the columns of MIGRATIONS that the table lacks, and runs           *)
(* SCHEMA_TABLES, all CREATE ... IF NOT EXISTS.                            *)
(*                                                                         *)
(* Python's sqlite3 opens no transaction for SELECT, PRAGMA or DDL, and    *)
(* executescript none of its own, so that each statement commits by        *)
(* itself: processes that start together interleave between any two of     *)
(* them, and a death leaves whatever was done so far.  ALTER TABLE has no  *)
(* IF NOT EXISTS; a column that is there already ends the start.           *)
(***************************************************************************)
EXTENDS Naturals, Sequences

CONSTANTS
  Workers,     \* uvicorn workers, which are started again when they end
  Tools,       \* command line tools, which run when somebody calls them
  Migrations,  \* the columns of MIGRATIONS, in their order
  ScanStatus   \* the one of them that SCHEMA_TABLES puts an index on

Columns == {Migrations[i] : i \in 1..Len(Migrations)}

ASSUME ConstantsOK ==
  /\ Migrations \in Seq(Columns)
  /\ \A i, j \in 1..Len(Migrations) : Migrations[i] = Migrations[j] => i = j
  /\ ScanStatus \in Columns

Processes == Workers \cup Tools

VARIABLES
  objects,   \* the tables and indexes in the database
  columns,   \* the columns of MIGRATIONS that `files` has (all, if it is yet to be created)
  pc,        \* pc[p]: how far the start of p has got
  at,        \* at[p]: its place in MIGRATIONS, and later in the script
  existing,  \* existing[p]: the columns its PRAGMA table_info returned
  fellOver   \* fellOver[p]: columns that ended a start of p (no program variable)

vars == <<objects, columns, pc, at, existing, fellOver>>

\* SCHEMA_TABLES, the indexes on columns that were always there taken as one.
Script == <<"files", "idx_files", "idx_files_scan", "api_keys", "audit_log", "idx_audit_ts">>

Objects == {Script[i] : i \in 1..Len(Script)}

TypeOK ==
  /\ objects \subseteq Objects
  /\ columns \subseteq Columns
  /\ pc \in [Processes -> {"down", "tables", "columns", "migrate", "script", "up"}]
  /\ at \in [Processes -> Nat \ {0}]
  /\ existing \in [Processes -> SUBSET Columns]
  /\ fellOver \in [Processes -> SUBSET Columns]

\* No database; or one of an earlier release, which lacks the index and the
\* columns from some place of MIGRATIONS on; or one that needs nothing.
Init ==
  /\ \/ objects = {} /\ columns = Columns
     \/ /\ objects = Objects \ {"idx_files_scan"}
        /\ \E n \in 0..Len(Migrations) : columns = {Migrations[i] : i \in 1..n}
     \/ objects = Objects /\ columns = Columns
  /\ pc = [p \in Processes |-> "down"]
  /\ at = [p \in Processes |-> 1]
  /\ existing = [p \in Processes |-> {}]
  /\ fellOver = [p \in Processes |-> {}]

-----------------------------------------------------------------------------

\* _migrate, or init, returns or raises, and its variables are gone.
Leave(p, place) ==
  /\ pc' = [pc EXCEPT ![p] = place]
  /\ at' = [at EXCEPT ![p] = 1]
  /\ existing' = [existing EXCEPT ![p] = {}]

Start(p) ==
  /\ pc[p] = "down"
  /\ pc' = [pc EXCEPT ![p] = "tables"]
  /\ UNCHANGED <<objects, columns, at, existing, fellOver>>

\* SELECT name FROM sqlite_master: a fresh database has nothing to migrate.
ReadTables(p) ==
  /\ pc[p] = "tables"
  /\ pc' = [pc EXCEPT ![p] = IF "files" \in objects THEN "columns" ELSE "script"]
  /\ UNCHANGED <<objects, columns, at, existing, fellOver>>

\* Slips, for the mutation runs; no specification uses these.

\* A table that has one of the columns is taken for migrated.
ReadColumnsAnyWillDo(p) ==
  /\ pc[p] = "columns"
  /\ pc' = [pc EXCEPT ![p] = IF columns = {} THEN "migrate" ELSE "script"]
  /\ existing' = [existing EXCEPT ![p] = columns]
  /\ UNCHANGED <<objects, columns, at, fellOver>>

\* No `if column in existing`.
ReadColumnsForgotten(p) ==
  /\ pc[p] = "columns"
  /\ pc' = [pc EXCEPT ![p] = "migrate"]
  /\ existing' = [existing EXCEPT ![p] = {}]
  /\ UNCHANGED <<objects, columns, at, fellOver>>

\* PRAGMA table_info(files)
ReadColumns(p) ==
  /\ pc[p] = "columns"
  /\ pc' = [pc EXCEPT ![p] = "migrate"]
  /\ existing' = [existing EXCEPT ![p] = columns]
  /\ UNCHANGED <<objects, columns, at, fellOver>>

\* if column in existing: continue
SkipColumn(p) ==
  /\ pc[p] = "migrate"
  /\ at[p] <= Len(Migrations)
  /\ Migrations[at[p]] \in existing[p]
  /\ at' = [at EXCEPT ![p] = @ + 1]
  /\ UNCHANGED <<objects, columns, pc, existing, fellOver>>

\* ALTER TABLE files ADD COLUMN
AddColumn(p) ==
  /\ pc[p] = "migrate"
  /\ at[p] <= Len(Migrations)
  /\ Migrations[at[p]] \notin existing[p] \cup columns
  /\ columns' = columns \cup {Migrations[at[p]]}
  /\ at' = [at EXCEPT ![p] = @ + 1]
  /\ UNCHANGED <<objects, pc, existing, fellOver>>

\* ... which somebody else has added meanwhile: "duplicate column name", an
\* OperationalError nobody catches, which ends the start.
DuplicateColumn(p) ==
  /\ pc[p] = "migrate"
  /\ at[p] <= Len(Migrations)
  /\ Migrations[at[p]] \in columns \ existing[p]
  /\ fellOver' = [fellOver EXCEPT ![p] = @ \cup {Migrations[at[p]]}]
  /\ Leave(p, "down")
  /\ UNCHANGED <<objects, columns>>

Migrated(p) ==
  /\ pc[p] = "migrate"
  /\ at[p] > Len(Migrations)
  /\ Leave(p, "script")
  /\ UNCHANGED <<objects, columns, fellOver>>

\* The next statement of the script; the index on a column that is missing
\* is an OperationalError, which ends the start.
RunStatement(p) ==
  /\ pc[p] = "script"
  /\ at[p] <= Len(Script)
  /\ IF Script[at[p]] = "idx_files_scan" /\ ScanStatus \notin columns
       THEN Leave(p, "down") /\ UNCHANGED objects
       ELSE /\ objects' = objects \cup {Script[at[p]]}
            /\ at' = [at EXCEPT ![p] = @ + 1]
            /\ UNCHANGED <<pc, existing>>
  /\ UNCHANGED <<columns, fellOver>>

Started(p) ==
  /\ pc[p] = "script"
  /\ at[p] > Len(Script)
  /\ Leave(p, "up")
  /\ UNCHANGED <<objects, columns, fellOver>>

\* The process is killed or stopped, or SQLite raises ("database is locked").
Die(p) ==
  /\ pc[p] # "down"
  /\ Leave(p, "down")
  /\ UNCHANGED <<objects, columns, fellOver>>

-----------------------------------------------------------------------------

Step(p) ==
  \/ Start(p)
  \/ ReadTables(p)
  \/ ReadColumns(p)
  \/ SkipColumn(p)
  \/ AddColumn(p)
  \/ DuplicateColumn(p)
  \/ Migrated(p)
  \/ RunStatement(p)
  \/ Started(p)

Next == \E p \in Processes : Step(p) \/ Die(p)

Spec == Init /\ [][Next]_vars

(***************************************************************************)
(* uvicorn and systemd start a worker again whenever it ends, and one that *)
(* is starting goes on.  Nothing is assumed of the tools.                  *)
(***************************************************************************)
Fairness == \A w \in Workers : WF_vars(Step(w))

\* A worker is not killed for ever; a tool may be.  (A start that fails is no
\* death, although it may change the same variables.)
DeathsEnd ==
  \A w \in Workers : <>[][Die(w) => DuplicateColumn(w) \/ RunStatement(w)]_vars

FairSpec == Spec /\ Fairness /\ DeathsEnd

-----------------------------------------------------------------------------

(***************************************************************************)
(* A process that has started finds every table, index and column that its *)
(* queries name, for as long as it runs: on a new database, an old one, a  *)
(* half-migrated one, and one that others are migrating around it.         *)
(***************************************************************************)
UpHasSchema ==
  \A p \in Processes : pc[p] = "up" => objects = Objects /\ columns = Columns

(***************************************************************************)
(* A start that loses the race for a column is the price of that column    *)
(* once: the process does not fall over the same column again, however     *)
(* often it and the others die.  So nobody fails more often than there are *)
(* columns to add, and on a migrated database nobody does.                 *)
(***************************************************************************)
NeverFailsTwice ==
  [][\A p \in Processes :
       DuplicateColumn(p) => Migrations[at[p]] \notin fellOver[p]]_vars

(***************************************************************************)
(* Every worker comes up in the end, whatever its neighbours and the tools *)
(* add, or leave half done, before it.                                     *)
(***************************************************************************)
WorkersComeUp == \A w \in Workers : pc[w] = "down" ~> pc[w] = "up"

-----------------------------------------------------------------------------
(* The inductive invariant behind the first two. *)

\* A process begins each of its two loops at the first entry.
AtStart == \A p \in Processes : pc[p] \notin {"migrate", "script"} => at[p] = 1

\* The columns p has passed, or seen, are there.
PassedIsThere ==
  \A p \in Processes : pc[p] = "migrate" =>
    /\ existing[p] \subseteq columns
    /\ \A i \in 1..Len(Migrations) : i < at[p] => Migrations[i] \in columns

\* The script runs only on a table that has them all, or that it creates so.
ScriptHasColumns == \A p \in Processes : pc[p] \in {"script", "up"} => columns = Columns

\* The statements p has passed have had their effect.
PassedIsCreated ==
  \A p \in Processes :
    /\ pc[p] = "script" => \A i \in 1..Len(Script) : i < at[p] => Script[i] \in objects
    /\ pc[p] = "up" => objects = Objects

\* Only an existing table lacks columns.
MissingOnlyFromOld == "files" \in objects \/ columns = Columns

\* What p once fell over is there, and p will see it.
FellOverIsSeen ==
  \A p \in Processes :
    /\ fellOver[p] \subseteq columns
    /\ pc[p] = "migrate" => fellOver[p] \subseteq existing[p]

IInv ==
  /\ TypeOK
  /\ AtStart
  /\ MissingOnlyFromOld
  /\ PassedIsThere
  /\ ScriptHasColumns
  /\ PassedIsCreated
  /\ FellOverIsSeen
=============================================================================
