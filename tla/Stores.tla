------------------------------- MODULE Stores -------------------------------
(***************************************************************************)
(* The stores behind the daily run and the script that moves them into     *)
(* DuckDB: snapshot files, job manifests, watchlist entries, merged raw    *)
(* files and the trade ledger table on one side, scripts/migrate_storage   *)
(* on the other.                                                           *)
(*                                                                         *)
(* Every store does the same two things, read what a place holds and write *)
(* back what that becomes, and none of them locks in between.  Processes   *)
(* here are whole commands (two runs of a day, a sync beside a run); a     *)
(* step is one read or one write of one place.  What a place holds is a    *)
(* set of entries <<label, version>>: one per stage in a manifest, one per *)
(* key in a raw file, a single one in a snapshot or a watchlist entry.     *)
(***************************************************************************)
EXTENDS Integers, FiniteSets, StorePlaces

CONSTANTS Labels,        \* stages of a manifest, keys of a raw file
          Versions,      \* the values an entry can have
          MaxWrites,     \* bound: store operations begun
          MaxMigrations, \* bound: runs of the migration script
          None

StoresAssumption == None \notin {"clean", "blocked", "written"}

Entries(p) ==
  (IF p \in JobDays \cup RawFiles THEN Labels ELSE {"whole"}) \X Versions

TableOf(p) == CASE p \in SnapshotKeys -> "snapshots"
                [] p \in WatchSymbols -> "watchlist"
                [] p \in JobDays -> "job_runs"
                [] OTHER -> "trade_ledger"

\* The slip: what is written is only what is new.
After_Alone(seen, entry) == {entry}

\* A new entry replaces the one of its label and joins the others.
After(seen, entry) == {e \in seen : e[1] # entry[1]} \cup {entry}

(***************************************************************************)
(* The stores                                                              *)
(***************************************************************************)

Resting == [at |-> "rest", place |-> None, entry |-> None, seen |-> {},
            outcome |-> None]
Idle == [at |-> "idle", mode |-> None, todo |-> {}, listed |-> {},
         counted |-> {}, memory |-> [r \in RawFiles |-> {}]]
NoReport == [verdict |-> None, counted |-> {}, memory |-> {}]

Init ==
  /\ backend \in {"json", "duckdb"}
  /\ held = [p \in FilePlaces |-> {}] /\ table = [p \in Rows |-> {}]
  /\ shape = [t \in {"snapshots", "watchlist", "job_runs", "trade_ledger"} |-> "absent"]
  /\ parquet = [r \in RawFiles |-> {}]
  /\ process = [w \in Processes |-> Resting]
  /\ migration = Idle /\ report = NoReport
  /\ begun = [writes |-> 0, migrations |-> 0] /\ raced = {}

\* The script keeps its connection, and with it the database's lock, from
\* its first step to its last.
Locked(p) == InDatabase(p) /\ migration.at # "idle"

\* A process reads what the place holds.  For a write-once place that is
\* the last word when something is there: the same content is accepted as
\* it is and any other refused.
Look(w) ==
  /\ process[w].at = "rest" /\ begun.writes < MaxWrites
  /\ \E p \in Places \ TradeIds, e \in {"whole"} \X Versions \cup Labels \X Versions :
       /\ e \in Entries(p)
       /\ process' = [process EXCEPT ![w] =
            IF Locked(p)
            THEN [Resting EXCEPT !.outcome = "locked"]
            ELSE IF p \in WriteOnce /\ Holding(p) # {}
            THEN [Resting EXCEPT !.outcome = IF Holding(p) = {e} THEN "kept"
                                             ELSE "conflict"]
            ELSE [at |-> "looked", place |-> p, entry |-> e, seen |-> Holding(p),
                  outcome |-> None]]
  /\ begun' = [begun EXCEPT !.writes = @ + 1]
  /\ UNCHANGED <<backend, held, table, shape, parquet, migration, report, raced>>

\* A table the script made has a column more than the store fills, and the
\* column takes no NULL: the row is refused.
Fits(p) == shape[TableOf(p)] # "migrated"

Put(w) ==
  LET p == process[w].place
      content == After(process[w].seen, process[w].entry)
      outcome == IF Locked(p) THEN "locked"
                 ELSE IF InDatabase(p) /\ ~Fits(p) THEN "refused" ELSE "written"
  IN  /\ process[w].at = "looked"
      /\ process' = [process EXCEPT ![w] = [Resting EXCEPT !.outcome = outcome]]
      /\ IF outcome # "written" THEN UNCHANGED <<held, table, shape, raced>>
         ELSE /\ raced' = IF Holding(p) # process[w].seen THEN raced \cup {p} ELSE raced
              /\ IF InDatabase(p)
                 THEN /\ table' = [table EXCEPT ![p] = content]
                      /\ shape' = [shape EXCEPT ![TableOf(p)] = "store"]
                      /\ UNCHANGED held
                 ELSE held' = [held EXCEPT ![p] = content] /\ UNCHANGED <<table, shape>>
      /\ UNCHANGED <<backend, parquet, migration, report, begun>>

\* The process dies, or the command is interrupted, between the two.
Abandon(w) ==
  /\ process[w].at = "looked"
  /\ process' = [process EXCEPT ![w] = Resting]
  /\ UNCHANGED <<backend, held, table, shape, parquet, migration, report, begun, raced>>

\* The trade ledger's DuckDB store looks and inserts on one connection.
RecordTrade(w) ==
  /\ process[w].at = "rest" /\ begun.writes < MaxWrites
  /\ \E p \in TradeIds, e \in {"whole"} \X Versions :
       LET outcome == IF Locked(p) THEN "locked"
                      ELSE IF table[p] = {} THEN "written"
                      ELSE IF table[p] = {e} THEN "kept" ELSE "conflict"
       IN  /\ process' = [process EXCEPT ![w] = [Resting EXCEPT !.outcome = outcome]]
           /\ table' = IF outcome = "written" THEN [table EXCEPT ![p] = {e}] ELSE table
           /\ shape' = IF outcome = "locked" THEN shape
                       ELSE [shape EXCEPT !["trade_ledger"] = "store"]
  /\ begun' = [begun EXCEPT !.writes = @ + 1]
  /\ UNCHANGED <<backend, held, parquet, migration, report, raced>>

(***************************************************************************)
(* The migration script                                                    *)
(***************************************************************************)

Running(at) == migration.at = at
Existing(places) == {p \in places : held[p] # {}}

\* normalize_in_memory: what the raw files hold at that moment.
Normalize(mode) ==
  [r \in RawFiles |-> IF mode = "state_only" THEN {} ELSE held[r]]

StartMigration ==
  /\ Running("idle") /\ begun.migrations < MaxMigrations
  /\ \E mode \in {"full", "state_only", "verify_only"} :
       migration' = [Idle EXCEPT
         !.mode = mode, !.memory = Normalize(mode),
         !.at = IF mode = "full" THEN "parquet"
                ELSE IF mode = "state_only" THEN "snapshots" ELSE "count",
         !.todo = IF mode = "full" THEN RawFiles ELSE {},
         !.listed = IF mode = "verify_only" THEN Existing(JobDays) ELSE {}]
  /\ report' = NoReport
  /\ begun' = [begun EXCEPT !.migrations = @ + 1]
  /\ UNCHANGED <<backend, held, table, shape, parquet, process, raced>>

\* Each dataset is exported beside its file and moved into place.
LandParquet ==
  /\ Running("parquet")
  /\ IF migration.todo = {}
     THEN migration' = [migration EXCEPT !.at = "snapshots"] /\ UNCHANGED parquet
     ELSE \E r \in migration.todo :
            /\ parquet' = [parquet EXCEPT ![r] = migration.memory[r]]
            /\ migration' = [migration EXCEPT !.todo = @ \ {r}]
  /\ UNCHANGED <<backend, held, table, shape, process, report, begun, raced>>

\* CREATE OR REPLACE TABLE: whatever the table held is gone, and the files
\* to read are listed.
Recreate(at, name, places, next) ==
  /\ Running(at)
  /\ shape' = [shape EXCEPT ![name] = "migrated"]
  /\ table' = [p \in Rows |-> IF p \in places THEN {} ELSE table[p]]
  /\ migration' = [migration EXCEPT !.at = next, !.todo = Existing(places),
                     !.listed = IF name = "job_runs" THEN Existing(places) ELSE @]
  /\ UNCHANGED <<backend, held, parquet, process, report, begun, raced>>

\* One file after the other is read and inserted; every statement commits
\* by itself.
Insert(at, next) ==
  /\ Running(at)
  /\ IF migration.todo = {}
     THEN migration' = [migration EXCEPT !.at = next] /\ UNCHANGED table
     ELSE \E p \in migration.todo :
            /\ table' = [table EXCEPT ![p] = held[p]]
            /\ migration' = [migration EXCEPT !.todo = @ \ {p}]
  /\ UNCHANGED <<backend, held, shape, parquet, process, report, begun, raced>>

CountFiles ==
  /\ Running("count")
  /\ migration' = [migration EXCEPT !.at = "verify", !.counted = Existing(SnapshotKeys)]
  /\ UNCHANGED <<backend, held, table, shape, parquet, process, report, begun, raced>>

ParquetAgrees ==
  migration.mode = "state_only" \/
    \A r \in RawFiles : parquet[r] # {} /\ parquet[r] = migration.memory[r]

Counted(places) == Cardinality({p \in places : table[p] # {}})

\* The slip: only the job manifests are counted.
StateAgrees_DaysOnly == Cardinality(migration.listed) = Counted(JobDays)

StateAgrees ==
  /\ Cardinality(migration.counted) = Counted(SnapshotKeys)
  /\ Cardinality(migration.listed) = Counted(JobDays)

\* The script's exit: clean when nothing is a P0.  Counting the rows of a
\* table that is not there raises.
Verify ==
  /\ Running("verify")
  /\ report' = IF \E t \in {"snapshots", "job_runs"} : shape[t] = "absent" THEN NoReport
               ELSE [verdict |-> IF ParquetAgrees /\ StateAgrees THEN "clean" ELSE "blocked",
                     counted |-> migration.counted,
                     memory |-> {<<r, migration.memory[r]>> : r \in RawFiles}]
  /\ migration' = [migration EXCEPT !.at = "idle"]
  /\ UNCHANGED <<backend, held, table, shape, parquet, process, begun, raced>>

\* The script dies; the statements it had run stay.
KillMigration ==
  /\ ~Running("idle")
  /\ migration' = Idle
  /\ UNCHANGED <<backend, held, table, shape, parquet, process, report, begun, raced>>

Migrate ==
  \/ StartMigration \/ LandParquet
  \/ Recreate("snapshots", "snapshots", SnapshotKeys, "insert_snapshots")
  \/ Insert("insert_snapshots", "jobs")
  \/ Recreate("jobs", "job_runs", JobDays, "insert_jobs")
  \/ Insert("insert_jobs", "watch")
  \/ Recreate("watch", "watchlist", WatchSymbols, "insert_watch")
  \/ Insert("insert_watch", "count")
  \/ CountFiles \/ Verify \/ KillMigration

Next ==
  \/ \E w \in Processes : Look(w) \/ Put(w) \/ Abandon(w) \/ RecordTrade(w)
  \/ Migrate

Spec == Init /\ [][Next]_svars

-----------------------------------------------------------------------------
TypeOK ==
  /\ backend \in {"json", "duckdb"}
  /\ \A p \in FilePlaces : held[p] \subseteq Entries(p)
  /\ \A p \in Rows : table[p] \subseteq Entries(p)
  /\ \A t \in DOMAIN shape : shape[t] \in {"absent", "store", "migrated"}
  /\ \A r \in RawFiles : parquet[r] \subseteq Entries(r)
  /\ \A w \in Processes : process[w].at \in {"rest", "looked"}
  /\ report.verdict \in {None, "clean", "blocked"}
  /\ raced \subseteq Places

\* "A caller must not be able to tell the two implementations apart": no
\* write is turned down for a reason the JSON store does not know.
CallersCannotTell == \A w \in Processes : process[w].outcome # "refused"
=============================================================================
