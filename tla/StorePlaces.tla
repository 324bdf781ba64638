----------------------------- MODULE StorePlaces -----------------------------
(***************************************************************************)
(* The places the stores keep things in, as files and as rows of the       *)
(* database, the state of the commands and the script that use them (see   *)
(* Stores), and what is asked of both.                                     *)
(***************************************************************************)
EXTENDS FiniteSets

CONSTANTS SnapshotKeys,  \* (kind, day) of a snapshot
          JobDays,       \* days with a job manifest
          WatchSymbols,  \* symbols with a watchlist entry
          RawFiles,      \* merged raw files
          TradeIds,      \* records of the DuckDB trade ledger
          Processes      \* whole commands

ASSUME PlacesAssumption ==
  /\ IsFiniteSet(SnapshotKeys)
  /\ SnapshotKeys \cap (JobDays \cup WatchSymbols \cup RawFiles \cup TradeIds) = {}
  /\ TradeIds \cap (JobDays \cup WatchSymbols \cup RawFiles) = {}

VARIABLES backend,   \* ASTOCK_SNAPSHOT_BACKEND / ASTOCK_WATCHLIST_BACKEND
          held,      \* what each file holds; {} where there is none
          table,     \* what each row of the database holds
          shape,     \* who made each table, if anyone
          parquet,   \* the normalized file of each raw file
          process,   \* what each process is doing
          migration, \* what the script is doing
          report,    \* what its last completed run said of what it had seen
          begun,     \* store operations begun, migrations begun
          raced      \* places replaced by a process that looked too early

svars == <<backend, held, table, shape, parquet, process, migration, report,
           begun, raced>>

FilePlaces == SnapshotKeys \cup JobDays \cup WatchSymbols \cup RawFiles
Rows == SnapshotKeys \cup JobDays \cup WatchSymbols \cup TradeIds
Places == FilePlaces \cup Rows
WriteOnce == SnapshotKeys \cup TradeIds

\* Job manifests and raw files have no DuckDB store, and this trade ledger
\* is the DuckDB one.
InDatabase(p) ==
  p \in TradeIds \/ (backend = "duckdb" /\ p \in SnapshotKeys \cup WatchSymbols)

Holding(p) == IF InDatabase(p) THEN table[p] ELSE held[p]

-----------------------------------------------------------------------------
(* The properties. *)

\* What a store takes out of a place, other than the entry it replaces, it
\* can only take out unseen: a process that writes while nobody else does
\* loses nothing of what was there, and a write-once place it never changes
\* at all.
OnlyARaceLoses ==
  [][\A w \in Processes, p \in Places :
       (/\ process[w].at = "looked" /\ process[w].place = p
        /\ process'[w].outcome = "written" /\ p \notin raced') =>
         \A e \in Holding(p) : \/ e \in Holding(p)'
                               \/ p \notin WriteOnce /\ e[1] = process[w].entry[1]]_svars

\* A clean verdict means that the database is the files: each snapshot that
\* was counted is in the table with the content of its file, no other is,
\* and the parquet files hold the records the verdict was reached on,
\* whatever was written, killed or begun again in between.
CleanMeansCopied ==
  (report.verdict = "clean" /\ shape["snapshots"] = "migrated") =>
    /\ \A p \in SnapshotKeys \ raced :
         table[p] = IF p \in report.counted THEN held[p] ELSE {}
    /\ \A m \in report.memory : m[2] = {} \/ parquet[m[1]] = m[2]
=============================================================================
