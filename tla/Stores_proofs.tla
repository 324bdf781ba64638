---------------------------- MODULE Stores_proofs -----------------------------
(***************************************************************************)
(* Theorems about what is stored and what is read of it. About Stores: for *)
(* any places, commands and runs of the migration script, killed anywhere. *)
(* About Reading (Page): for any days, readers and numbers of requests.    *)
(***************************************************************************)
EXTENDS Stores, PageState, Sequences, SetLemmas

CONSTANTS LastDay, Readers, MaxAsks  \* see Reading

Page == INSTANCE Reading

-----------------------------------------------------------------------------
(***************************************************************************)
(* The stores.                                                             *)
(***************************************************************************)

Entry == (Labels \cup {"whole"}) \X Versions
Table == {"snapshots", "watchlist", "job_runs", "trade_ledger"}
Stage == {"idle", "parquet", "snapshots", "insert_snapshots", "jobs", "insert_jobs",
          "watch", "insert_watch", "count", "verify"}

StoresTyped ==
  /\ backend \in {"json", "duckdb"}
  /\ held \in [FilePlaces -> SUBSET Entry]
  /\ table \in [Rows -> SUBSET Entry]
  /\ \A p \in FilePlaces : held[p] \subseteq Entries(p)
  /\ \A p \in Rows : table[p] \subseteq Entries(p)
  /\ shape \in [Table -> {"absent", "store", "migrated"}]
  /\ parquet \in [RawFiles -> SUBSET Entry]
  /\ \A r \in RawFiles : parquet[r] \subseteq Entries(r)
  /\ raced \subseteq Places

(* Who is about to write a write-once place has seen nothing there.        *)
Doing(d) ==
  /\ d.at \in {"rest", "looked"}
  /\ d.at = "looked" =>
       /\ d.place \in Places \ TradeIds
       /\ d.entry \in Entries(d.place)
       /\ d.seen \subseteq Entries(d.place)
       /\ d.place \in WriteOnce => d.seen = {}
       /\ d.outcome = None

ProcessesTyped ==
  /\ DOMAIN process = Processes
  /\ \A w \in Processes : Doing(process[w])

(* What the script goes by is still there when it uses it; it has not said *)
(* anything before it ends; and what was loaded is among what it counted.  *)
Working(m) ==
  /\ m = [at |-> m.at, mode |-> m.mode, todo |-> m.todo, listed |-> m.listed,
          counted |-> m.counted, memory |-> m.memory]
  /\ m.at \in Stage
  /\ m.todo \subseteq FilePlaces
  /\ m.at \in {"insert_snapshots", "insert_jobs", "insert_watch"} =>
       m.todo \subseteq Rows
  /\ m.counted \subseteq SnapshotKeys
  /\ DOMAIN m.memory = RawFiles
  /\ \A r \in RawFiles : m.memory[r] \subseteq Entries(r)
  /\ m.mode = "state_only" => \A r \in RawFiles : m.memory[r] = {}

Migrated == shape["snapshots"] = "migrated"

ScriptTyped ==
  /\ Working(migration)
  /\ migration.at \in {"insert_snapshots", "insert_jobs", "insert_watch"} =>
       \A p \in migration.todo : held[p] # {}
  /\ migration.at # "idle" => report = NoReport
  /\ report.verdict \in {None, "clean", "blocked"}

(* In a table the script made a row is a copy of its file, but for races.  *)
CopiesOnly ==
  Migrated => \A p \in SnapshotKeys :
    table[p] # {} => held[p] # {} /\ (p \notin raced => table[p] = held[p])

LoadedIsCounted ==
  Migrated /\ migration.at = "verify" =>
    \A p \in SnapshotKeys : table[p] # {} => p \in migration.counted

VerdictStands ==
  report.verdict = "clean" /\ Migrated =>
    /\ report.counted \subseteq SnapshotKeys
    /\ \A p \in SnapshotKeys : p \in report.counted <=> table[p] # {}

MemoryStands ==
  report.verdict = "clean" =>
    \A m \in report.memory : m[2] = {} \/ parquet[m[1]] = m[2]

StoresInv ==
  /\ StoresTyped
  /\ ProcessesTyped
  /\ ScriptTyped
  /\ CopiesOnly
  /\ LoadedIsCounted
  /\ VerdictStands
  /\ MemoryStands

LEMMA AfterIsEntries ==
  ASSUME NEW p, NEW seen \in SUBSET Entries(p), NEW e \in Entries(p)
  PROVE  After(seen, e) \subseteq Entries(p) /\ After(seen, e) # {}
BY DEF After

LEMMA EntriesAreEntry == \A p : Entries(p) \subseteq Entry
BY DEF Entries, Entry

LEMMA InitStores == StoresAssumption /\ Init => StoresInv
<1>. SUFFICES ASSUME StoresAssumption, Init PROVE StoresInv
  OBVIOUS
<1>1. StoresTyped
  BY DEF Init, StoresTyped, Table, Entry
<1>2. ProcessesTyped
  BY DEF Init, ProcessesTyped, Doing, Resting
<1>3. ScriptTyped
  BY DEF Init, ScriptTyped, Working, Stage, Idle, NoReport
<1>4. CopiesOnly
  BY DEF Init, CopiesOnly, Migrated
<1>5. LoadedIsCounted
  BY DEF Init, LoadedIsCounted, Idle
<1>6. report.verdict # "clean"
  BY DEF Init, NoReport, StoresAssumption
<1>. QED BY <1>1, <1>2, <1>3, <1>4, <1>5, <1>6 DEF StoresInv, VerdictStands, MemoryStands

LEMMA LookKeeps ==
  ASSUME StoresInv, NEW w \in Processes, Look(w)
  PROVE  StoresInv'
<1>1. UNCHANGED <<backend, held, table, shape, parquet, migration, report, raced>>
  BY DEF Look
<1>2. StoresTyped' /\ ScriptTyped' /\ CopiesOnly' /\ LoadedIsCounted' /\ VerdictStands' /\ MemoryStands'
  BY <1>1 DEF StoresInv, StoresTyped, ScriptTyped, CopiesOnly, LoadedIsCounted, VerdictStands,
     MemoryStands, Migrated
<1>3. ProcessesTyped'
  <2>1. PICK p \in Places \ TradeIds, e \in {"whole"} \X Versions \cup Labels \X Versions :
          /\ e \in Entries(p)
          /\ process' = [process EXCEPT ![w] =
               IF Locked(p) THEN [Resting EXCEPT !.outcome = "locked"]
               ELSE IF p \in WriteOnce /\ Holding(p) # {}
               THEN [Resting EXCEPT !.outcome = IF Holding(p) = {e} THEN "kept" ELSE "conflict"]
               ELSE [at |-> "looked", place |-> p, entry |-> e, seen |-> Holding(p),
                     outcome |-> None]]
    BY DEF Look
  <2>2. Holding(p) \subseteq Entries(p)
    BY DEF StoresInv, StoresTyped, Holding, InDatabase, Places, FilePlaces, Rows
  <2>3. Doing(process'[w])
    BY <2>1, <2>2 DEF StoresInv, ProcessesTyped, Doing, Resting
  <2>. QED BY <2>1, <2>3 DEF StoresInv, ProcessesTyped
<1>. QED BY <1>2, <1>3 DEF StoresInv

(* What a write does: a place that is no raced one had what was seen.      *)
LEMMA PutShape ==
  ASSUME StoresInv, NEW w \in Processes, Put(w)
  PROVE  LET p == process[w].place
             content == After(process[w].seen, process[w].entry)
         IN  /\ p \in Places \ TradeIds
             /\ content \subseteq Entries(p) /\ content # {}
             /\ \/ UNCHANGED <<held, table, shape, raced>>
                \/ /\ InDatabase(p) /\ p \in Rows /\ ~Locked(p) /\ Fits(p)
                   /\ table' = [table EXCEPT ![p] = content]
                   /\ shape' = [shape EXCEPT ![TableOf(p)] = "store"]
                   /\ UNCHANGED held
                   /\ raced' = IF Holding(p) # process[w].seen THEN raced \cup {p} ELSE raced
                \/ /\ ~InDatabase(p) /\ p \in FilePlaces
                   /\ held' = [held EXCEPT ![p] = content]
                   /\ UNCHANGED <<table, shape>>
                   /\ raced' = IF Holding(p) # process[w].seen THEN raced \cup {p} ELSE raced
<1>. DEFINE p == process[w].place
            content == After(process[w].seen, process[w].entry)
<1>1. Doing(process[w]) /\ process[w].at = "looked"
  BY DEF StoresInv, ProcessesTyped, Put
<1>2. p \in Places \ TradeIds /\ content \subseteq Entries(p) /\ content # {}
  BY <1>1, AfterIsEntries DEF Doing
<1>3. InDatabase(p) => p \in Rows
  BY <1>2 DEF InDatabase, Rows
<1>4. ~InDatabase(p) => p \in FilePlaces
  BY <1>2 DEF Places, Rows, FilePlaces
<1>. QED BY <1>2, <1>3, <1>4 DEF Put

LEMMA PutKeeps ==
  ASSUME StoresInv, NEW w \in Processes, Put(w)
  PROVE  StoresInv'
<1>. DEFINE p == process[w].place
            content == After(process[w].seen, process[w].entry)
<1>1. /\ p \in Places \ TradeIds /\ content \subseteq Entries(p) /\ content # {}
      /\ content \subseteq Entry
  BY PutShape, EntriesAreEntry
<1>2. UNCHANGED <<backend, parquet, migration, report>>
  BY DEF Put
<1>3. ProcessesTyped'
  BY DEF Put, StoresInv, ProcessesTyped, Doing, Resting
<1>4. CASE UNCHANGED <<held, table, shape, raced>>
  BY <1>2, <1>3, <1>4 DEF StoresInv, StoresTyped, ScriptTyped, CopiesOnly, LoadedIsCounted,
     VerdictStands, MemoryStands, Migrated
<1>5. CASE /\ InDatabase(p) /\ p \in Rows /\ ~Locked(p) /\ Fits(p)
           /\ table' = [table EXCEPT ![p] = content]
           /\ shape' = [shape EXCEPT ![TableOf(p)] = "store"]
           /\ UNCHANGED held
           /\ raced' = IF Holding(p) # process[w].seen THEN raced \cup {p} ELSE raced
  <2>1. TableOf(p) \in Table /\ shape \in [Table -> {"absent", "store", "migrated"}]
    BY DEF TableOf, Table, StoresInv, StoresTyped
  <2>2. raced \subseteq raced' /\ raced' \subseteq Places
    BY <1>1, <1>5 DEF StoresInv, StoresTyped
  <2>3. StoresTyped'
    BY <1>1, <1>2, <1>5, <2>1, <2>2 DEF StoresInv, StoresTyped, Entries
  <2>4. ScriptTyped'
    BY <1>2, <1>5 DEF StoresInv, ScriptTyped
  <2>5. Migrated' => Migrated
    BY <1>5, <2>1 DEF Migrated, Table
  <2>6. Migrated' => p \notin SnapshotKeys
    <3>1. p \in SnapshotKeys => TableOf(p) = "snapshots"
      BY PlacesAssumption DEF TableOf
    <3>. QED BY <1>5, <2>5, <3>1 DEF Migrated, Fits
  <2>7. Migrated' => \A q \in SnapshotKeys : table'[q] = table[q]
    BY <1>5, <2>6
  <2>8. CopiesOnly' /\ LoadedIsCounted' /\ VerdictStands'
    BY <1>2, <1>5, <2>2, <2>5, <2>7 DEF StoresInv, CopiesOnly, LoadedIsCounted, VerdictStands
  <2>9. MemoryStands'
    BY <1>2 DEF StoresInv, MemoryStands
  <2>. QED BY <1>3, <2>3, <2>4, <2>8, <2>9 DEF StoresInv
<1>6. CASE /\ ~InDatabase(p) /\ p \in FilePlaces
           /\ held' = [held EXCEPT ![p] = content]
           /\ UNCHANGED <<table, shape>>
           /\ raced' = IF Holding(p) # process[w].seen THEN raced \cup {p} ELSE raced
  <2>1. raced \subseteq raced' /\ raced' \subseteq Places
    BY <1>1, <1>6 DEF StoresInv, StoresTyped
  <2>2. StoresTyped'
    BY <1>1, <1>2, <1>6, <2>1 DEF StoresInv, StoresTyped, Entries
  <2>3. /\ \A q \in FilePlaces : held[q] # {} => held'[q] # {}
        /\ \A q \in FilePlaces : q # p => held'[q] = held[q]
    BY <1>1, <1>6 DEF StoresInv, StoresTyped
  <2>4. ScriptTyped'
    BY <1>2, <2>3 DEF StoresInv, ScriptTyped, Working
  <2>5. Migrated' = Migrated /\ SnapshotKeys \subseteq FilePlaces
    BY <1>6 DEF Migrated, FilePlaces
  <2>6. p \in SnapshotKeys /\ p \notin raced' => held[p] = {}
    BY <1>6 DEF Holding, StoresInv, ProcessesTyped, Doing, WriteOnce, Put
  <2>7. CopiesOnly'
    BY <1>6, <2>1, <2>3, <2>5, <2>6 DEF StoresInv, CopiesOnly
  <2>8. LoadedIsCounted' /\ VerdictStands' /\ MemoryStands'
    BY <1>2, <1>6, <2>5 DEF StoresInv, LoadedIsCounted, VerdictStands, MemoryStands
  <2>. QED BY <1>3, <2>2, <2>4, <2>7, <2>8 DEF StoresInv
<1>. QED BY <1>4, <1>5, <1>6, PutShape

LEMMA AbandonKeeps ==
  ASSUME StoresInv, NEW w \in Processes, Abandon(w)
  PROVE  StoresInv'
<1>1. ProcessesTyped'
  BY DEF Abandon, StoresInv, ProcessesTyped, Doing, Resting
<1>. QED BY <1>1 DEF Abandon, StoresInv, StoresTyped, ScriptTyped, CopiesOnly, LoadedIsCounted,
     VerdictStands, MemoryStands, Migrated

LEMMA RecordTradeKeeps ==
  ASSUME StoresInv, NEW w \in Processes, RecordTrade(w)
  PROVE  StoresInv'
<1>1. UNCHANGED <<backend, held, parquet, migration, report, raced>>
  BY DEF RecordTrade
<1>2. PICK p \in TradeIds, e \in {"whole"} \X Versions :
        LET outcome == IF Locked(p) THEN "locked"
                       ELSE IF table[p] = {} THEN "written"
                       ELSE IF table[p] = {e} THEN "kept" ELSE "conflict"
        IN  /\ process' = [process EXCEPT ![w] = [Resting EXCEPT !.outcome = outcome]]
            /\ table' = IF outcome = "written" THEN [table EXCEPT ![p] = {e}] ELSE table
            /\ shape' = IF outcome = "locked" THEN shape
                        ELSE [shape EXCEPT !["trade_ledger"] = "store"]
  BY DEF RecordTrade
<1>3. p \in Rows /\ p \notin SnapshotKeys
  BY PlacesAssumption DEF Rows
<1>4. ProcessesTyped'
  BY <1>2 DEF StoresInv, ProcessesTyped, Doing, Resting
<1>5. e \in Entry /\ e \in Entries(p)
  BY <1>3, PlacesAssumption DEF Entries, Entry
<1>6. StoresTyped'
  BY <1>1, <1>2, <1>3, <1>5 DEF StoresInv, StoresTyped, Table
<1>7. ScriptTyped' /\ MemoryStands'
  BY <1>1 DEF StoresInv, ScriptTyped, MemoryStands
<1>8. Migrated' = Migrated /\ \A q \in SnapshotKeys : table'[q] = table[q]
  <2>1. Migrated' = Migrated
    BY <1>2 DEF Migrated, StoresInv, StoresTyped, Table
  <2>2. \A q \in SnapshotKeys : table'[q] = table[q]
    BY <1>2, <1>3
  <2>. QED BY <2>1, <2>2
<1>9. CopiesOnly' /\ LoadedIsCounted' /\ VerdictStands'
  BY <1>1, <1>8 DEF StoresInv, CopiesOnly, LoadedIsCounted, VerdictStands
<1>. QED BY <1>4, <1>6, <1>7, <1>9 DEF StoresInv

-----------------------------------------------------------------------------
(* The script. *)

LEMMA StartKeeps ==
  ASSUME StoresAssumption, StoresInv, StartMigration
  PROVE  StoresInv'
<1>1. /\ UNCHANGED <<backend, held, table, shape, parquet, process, raced>>
      /\ report' = NoReport
  BY DEF StartMigration
<1>2. Working(migration') /\ migration'.at \notin {"insert_snapshots", "insert_jobs", "insert_watch", "verify"}
  <2>1. PICK mode \in {"full", "state_only", "verify_only"} :
          migration' = [Idle EXCEPT
            !.mode = mode, !.memory = Normalize(mode),
            !.at = IF mode = "full" THEN "parquet"
                   ELSE IF mode = "state_only" THEN "snapshots" ELSE "count",
            !.todo = IF mode = "full" THEN RawFiles ELSE {},
            !.listed = IF mode = "verify_only" THEN Existing(JobDays) ELSE {}]
    BY DEF StartMigration
  <2>2. /\ DOMAIN Normalize(mode) = RawFiles
        /\ \A r \in RawFiles : Normalize(mode)[r] \subseteq Entries(r)
        /\ mode = "state_only" => \A r \in RawFiles : Normalize(mode)[r] = {}
    BY DEF Normalize, StoresInv, StoresTyped, FilePlaces
  <2>. HIDE DEF Normalize
  <2>. QED BY <2>1, <2>2 DEF Idle, Working, Stage, FilePlaces
<1>3. report'.verdict = None /\ None # "clean"
  BY <1>1 DEF NoReport, StoresAssumption
<1>4. StoresTyped' /\ ProcessesTyped' /\ CopiesOnly'
  BY <1>1 DEF StoresInv, StoresTyped, ProcessesTyped, CopiesOnly, Migrated
<1>5. ScriptTyped'
  BY <1>1, <1>2, <1>3 DEF ScriptTyped
<1>6. LoadedIsCounted' /\ VerdictStands' /\ MemoryStands'
  BY <1>2, <1>3 DEF LoadedIsCounted, VerdictStands, MemoryStands
<1>. QED BY <1>4, <1>5, <1>6 DEF StoresInv

LEMMA LandKeeps ==
  ASSUME StoresAssumption, StoresInv, LandParquet
  PROVE  StoresInv'
<1>1. /\ UNCHANGED <<backend, held, table, shape, process, report, raced>>
      /\ migration.at = "parquet" /\ report = NoReport /\ None # "clean"
  BY DEF LandParquet, Running, StoresInv, ScriptTyped, StoresAssumption
<1>2. Working(migration) /\ migration.todo \subseteq FilePlaces
  BY DEF StoresInv, ScriptTyped, Working
<1>3. CASE migration.todo = {} /\ migration' = [migration EXCEPT !.at = "snapshots"] /\ UNCHANGED parquet
  <2>1. Working(migration') /\ migration'.at = "snapshots"
    BY <1>2, <1>3 DEF Working, Stage
  <2>. QED BY <1>1, <1>3, <2>1 DEF StoresInv, StoresTyped, ProcessesTyped, ScriptTyped, CopiesOnly,
       LoadedIsCounted, VerdictStands, MemoryStands, Migrated, NoReport
<1>4. ASSUME NEW r \in migration.todo,
             parquet' = [parquet EXCEPT ![r] = migration.memory[r]],
             migration' = [migration EXCEPT !.todo = @ \ {r}]
      PROVE  StoresInv'
  <2>1. Working(migration') /\ migration'.at = "parquet"
    BY <1>1, <1>2, <1>4 DEF Working, Stage
  <2>2. /\ parquet' \in [RawFiles -> SUBSET Entry]
        /\ \A q \in RawFiles : parquet'[q] \subseteq Entries(q)
    <3>1. parquet \in [RawFiles -> SUBSET Entry] /\ \A q \in RawFiles : parquet[q] \subseteq Entries(q)
      BY DEF StoresInv, StoresTyped
    <3>2. r \in RawFiles => migration.memory[r] \subseteq Entries(r)
      BY <1>2 DEF Working
    <3>. QED BY <1>4, <3>1, <3>2, EntriesAreEntry
  <2>. QED BY <1>1, <2>1, <2>2 DEF StoresInv, StoresTyped, ProcessesTyped, ScriptTyped, CopiesOnly,
       LoadedIsCounted, VerdictStands, MemoryStands, Migrated, NoReport
<1>. QED BY <1>3, <1>4 DEF LandParquet

LEMMA RecreateKeeps ==
  ASSUME StoresAssumption, StoresInv, NEW at \in Stage \ {"idle"}, NEW name \in Table,
         NEW places \in SUBSET (Rows \cap FilePlaces), NEW next \in Stage \ {"idle", "verify"},
         Recreate(at, name, places, next), name = "snapshots" => places = SnapshotKeys
  PROVE  StoresInv'
<1>1. /\ UNCHANGED <<backend, held, parquet, process, report, raced>>
      /\ report = NoReport /\ None # "clean"
      /\ shape' = [shape EXCEPT ![name] = "migrated"]
      /\ table' = [p \in Rows |-> IF p \in places THEN {} ELSE table[p]]
  BY DEF Recreate, Running, StoresInv, ScriptTyped, StoresAssumption
<1>2. /\ migration'.at = next /\ Working(migration')
      /\ \A p \in migration'.todo : held[p] # {}
  <2>1. Existing(places) \subseteq Rows \cap FilePlaces /\ \A p \in Existing(places) : held[p] # {}
    BY DEF Existing
  <2>2. Working(migration)
    BY DEF StoresInv, ScriptTyped
  <2>. HIDE DEF Existing
  <2>3. /\ migration' = [migration EXCEPT !.at = next, !.todo = Existing(places),
                          !.listed = IF name = "job_runs" THEN Existing(places) ELSE @]
    BY DEF Recreate
  <2>. QED BY <2>1, <2>2, <2>3 DEF Working
<1>3. /\ StoresTyped' /\ ProcessesTyped'
  BY <1>1 DEF StoresInv, StoresTyped, ProcessesTyped
<1>4. ScriptTyped'
  BY <1>1, <1>2 DEF ScriptTyped, NoReport
<1>5. CopiesOnly'
  <2>1. CASE name = "snapshots"
    BY <1>1, <2>1 DEF CopiesOnly, Rows
  <2>2. CASE name # "snapshots"
    <3>1. Migrated' = Migrated
      BY <1>1, <2>2 DEF Migrated, StoresInv, StoresTyped, Table
    <3>. QED BY <1>1, <3>1 DEF StoresInv, CopiesOnly, Rows
  <2>. QED BY <2>1, <2>2
<1>6. LoadedIsCounted' /\ VerdictStands' /\ MemoryStands'
  BY <1>1, <1>2 DEF LoadedIsCounted, VerdictStands, MemoryStands, NoReport
<1>. QED BY <1>3, <1>4, <1>5, <1>6 DEF StoresInv

LEMMA InsertKeeps ==
  ASSUME StoresAssumption, StoresInv, NEW next \in Stage \ {"idle", "verify", "insert_snapshots", "insert_jobs", "insert_watch"},
         NEW at \in {"insert_snapshots", "insert_jobs", "insert_watch"}, Insert(at, next)
  PROVE  StoresInv'
<1>1. /\ UNCHANGED <<backend, held, shape, parquet, process, report, raced>>
      /\ migration.at = at /\ report = NoReport /\ None # "clean"
  BY DEF Insert, Running, StoresInv, ScriptTyped, StoresAssumption
<1>2. Working(migration) /\ migration.todo \subseteq Rows \cap FilePlaces
      /\ \A p \in migration.todo : held[p] # {}
  BY <1>1 DEF StoresInv, ScriptTyped, Working
<1>3. CASE migration.todo = {} /\ migration' = [migration EXCEPT !.at = next] /\ UNCHANGED table
  <2>1. Working(migration') /\ migration'.at = next
    BY <1>2, <1>3 DEF Working, Stage
  <2>. QED BY <1>1, <1>3, <2>1 DEF StoresInv, StoresTyped, ProcessesTyped, ScriptTyped, CopiesOnly,
       LoadedIsCounted, VerdictStands, MemoryStands, Migrated, NoReport
<1>4. ASSUME NEW p \in migration.todo,
             table' = [table EXCEPT ![p] = held[p]],
             migration' = [migration EXCEPT !.todo = @ \ {p}]
      PROVE  StoresInv'
  <2>1. Working(migration') /\ migration'.at = at /\ migration'.todo \subseteq migration.todo
    BY <1>1, <1>2, <1>4 DEF Working, Stage
  <2>2. StoresTyped'
    BY <1>1, <1>2, <1>4 DEF StoresInv, StoresTyped
  <2>3. CopiesOnly'
    BY <1>1, <1>2, <1>4 DEF StoresInv, StoresTyped, CopiesOnly, Migrated, Rows
  <2>. QED BY <1>1, <1>2, <2>1, <2>2, <2>3 DEF StoresInv, ProcessesTyped, ScriptTyped,
       LoadedIsCounted, VerdictStands, MemoryStands, Migrated, NoReport
<1>. QED BY <1>3, <1>4 DEF Insert

LEMMA CountKeeps ==
  ASSUME StoresInv, CountFiles
  PROVE  StoresInv'
<1>1. /\ UNCHANGED <<backend, held, table, shape, parquet, process, report, raced>>
      /\ migration' = [migration EXCEPT !.at = "verify", !.counted = Existing(SnapshotKeys)]
      /\ report = NoReport
  BY DEF CountFiles, Running, StoresInv, ScriptTyped
<1>2. /\ Existing(SnapshotKeys) \subseteq SnapshotKeys
      /\ \A p \in SnapshotKeys : held[p] # {} => p \in Existing(SnapshotKeys)
  BY DEF Existing
<1>. HIDE DEF Existing
<1>3. /\ Working(migration') /\ migration'.at = "verify"
      /\ migration'.counted = Existing(SnapshotKeys)
  BY <1>1, <1>2 DEF StoresInv, ScriptTyped, Working, Stage
<1>4. LoadedIsCounted'
  BY <1>1, <1>2, <1>3 DEF LoadedIsCounted, StoresInv, CopiesOnly, Migrated
<1>. QED BY <1>1, <1>3, <1>4 DEF StoresInv, StoresTyped, ProcessesTyped, ScriptTyped, CopiesOnly,
     VerdictStands, MemoryStands, Migrated

(* Equal numbers mean the same keys, since what is loaded was counted.     *)
LEMMA VerifyKeeps ==
  ASSUME StoresAssumption, StoresInv, Verify
  PROVE  StoresInv'
<1>1. /\ UNCHANGED <<backend, held, table, shape, parquet, process, raced>>
      /\ migration' = [migration EXCEPT !.at = "idle"]
      /\ migration.at = "verify"
      /\ report' = IF \E t \in {"snapshots", "job_runs"} : shape[t] = "absent" THEN NoReport
                   ELSE [verdict |-> IF ParquetAgrees /\ StateAgrees THEN "clean" ELSE "blocked",
                         counted |-> migration.counted,
                         memory |-> {<<r, migration.memory[r]>> : r \in RawFiles}]
  BY DEF Verify, Running
<1>2. Working(migration)
  BY DEF StoresInv, ScriptTyped
<1>3. Working(migration') /\ migration'.at = "idle"
  BY <1>1, <1>2 DEF Working, Stage
<1>4. report'.verdict \in {None, "clean", "blocked"}
  <2>. HIDE DEF ParquetAgrees, StateAgrees
  <2>. QED BY <1>1 DEF NoReport
<1>5. ScriptTyped' /\ LoadedIsCounted'
  BY <1>3, <1>4 DEF ScriptTyped, LoadedIsCounted
<1>6. report'.verdict = "clean" =>
        /\ ParquetAgrees /\ StateAgrees
        /\ report'.counted = migration.counted
        /\ report'.memory = {<<r, migration.memory[r]>> : r \in RawFiles}
  <2>. HIDE DEF ParquetAgrees, StateAgrees
  <2>. QED BY <1>1 DEF NoReport, StoresAssumption
<1>7. VerdictStands'
  <2>. SUFFICES ASSUME report'.verdict = "clean", Migrated
                PROVE  /\ migration.counted \subseteq SnapshotKeys
                       /\ \A p \in SnapshotKeys : p \in migration.counted <=> table[p] # {}
    BY <1>1, <1>6 DEF VerdictStands, Migrated
  <2>. DEFINE Loaded == {p \in SnapshotKeys : table[p] # {}}
  <2>1. migration.counted \subseteq SnapshotKeys
    BY <1>2 DEF Working
  <2>2. Loaded \subseteq migration.counted
    BY <1>1 DEF StoresInv, LoadedIsCounted
  <2>3. IsFiniteSet(migration.counted)
    BY <2>1, PlacesAssumption, FS_Subset
  <2>4. Cardinality(Loaded) = Cardinality(migration.counted)
    BY <1>6 DEF StateAgrees, Counted
  <2>. HIDE DEF Loaded
  <2>5. Loaded = migration.counted
    BY <2>2, <2>3, <2>4, FS_Subset
  <2>. QED BY <2>1, <2>5 DEF Loaded
<1>8. MemoryStands'
  BY <1>1, <1>2, <1>6 DEF MemoryStands, ParquetAgrees, Working
<1>. QED BY <1>1, <1>5, <1>7, <1>8 DEF StoresInv, StoresTyped, ProcessesTyped, CopiesOnly, Migrated

LEMMA KillKeeps ==
  ASSUME StoresInv, KillMigration
  PROVE  StoresInv'
<1>1. Working(Idle) /\ Idle.at = "idle"
  BY DEF Working, Idle, Stage
<1>. QED BY <1>1 DEF KillMigration, StoresInv, StoresTyped, ProcessesTyped, ScriptTyped, CopiesOnly,
     LoadedIsCounted, VerdictStands, MemoryStands, Migrated

LEMMA StoresStep ==
  ASSUME StoresAssumption, StoresInv, [Next]_svars
  PROVE  StoresInv'
<1>1. CASE UNCHANGED svars
  BY <1>1 DEF svars, StoresInv, StoresTyped, ProcessesTyped, ScriptTyped, CopiesOnly,
     LoadedIsCounted, VerdictStands, MemoryStands, Migrated
<1>2. ASSUME NEW w \in Processes, Look(w) \/ Put(w) \/ Abandon(w) \/ RecordTrade(w)
      PROVE  StoresInv'
  BY <1>2, LookKeeps, PutKeeps, AbandonKeeps, RecordTradeKeeps
<1>3. CASE Migrate
  <2>1. /\ SnapshotKeys \in SUBSET (Rows \cap FilePlaces)
        /\ JobDays \in SUBSET (Rows \cap FilePlaces)
        /\ WatchSymbols \in SUBSET (Rows \cap FilePlaces)
    BY DEF Rows, FilePlaces
  <2>2. CASE Recreate("snapshots", "snapshots", SnapshotKeys, "insert_snapshots")
    BY <2>1, <2>2, RecreateKeeps DEF Stage, Table
  <2>3. CASE Recreate("jobs", "job_runs", JobDays, "insert_jobs")
    BY <2>1, <2>3, RecreateKeeps DEF Stage, Table
  <2>4. CASE Recreate("watch", "watchlist", WatchSymbols, "insert_watch")
    BY <2>1, <2>4, RecreateKeeps DEF Stage, Table
  <2>5. CASE Insert("insert_snapshots", "jobs")
    BY <2>5, InsertKeeps DEF Stage
  <2>6. CASE Insert("insert_jobs", "watch")
    BY <2>6, InsertKeeps DEF Stage
  <2>7. CASE Insert("insert_watch", "count")
    BY <2>7, InsertKeeps DEF Stage
  <2>. QED BY <1>3, <2>2, <2>3, <2>4, <2>5, <2>6, <2>7, StartKeeps, LandKeeps, CountKeeps,
       VerifyKeeps, KillKeeps DEF Migrate
<1>. QED BY <1>1, <1>2, <1>3 DEF Next

LEMMA StoresAlways ==
  ASSUME StoresAssumption
  PROVE  Spec => []StoresInv
<1>1. Init => StoresInv
  BY InitStores
<1>2. StoresInv /\ [Next]_svars => StoresInv'
  BY StoresStep
<1>. QED BY <1>1, <1>2, PTL DEF Spec

(* Every place, row and parquet file holds what its kind allows, every     *)
(* command and the script are somewhere in their code, for any places.     *)
THEOREM StoresTypeCorrect ==
  ASSUME StoresAssumption
  PROVE  Spec => []TypeOK
<1>1. StoresInv => TypeOK
  BY DEF StoresInv, StoresTyped, ProcessesTyped, Doing, ScriptTyped, TypeOK
<1>. QED BY <1>1, StoresAlways, PTL

(* However many commands look and put, over files or over the database,    *)
(* beside the script or not: who writes a place nobody else touched since  *)
(* it looked loses nothing but the entry it replaces, and changes no       *)
(* snapshot and no trade record (data/snapshots/store.py, jobs/store.py,   *)
(* data/sync.py, trade_gate/duckdb_store.py).                              *)
THEOREM OnlyRacesLose ==
  ASSUME StoresAssumption
  PROVE  Spec => OnlyARaceLoses
<1>. DEFINE Kept ==
       \A w \in Processes, p \in Places :
         (/\ process[w].at = "looked" /\ process[w].place = p
          /\ process'[w].outcome = "written" /\ p \notin raced') =>
           \A e \in Holding(p) : \/ e \in Holding(p)'
                                 \/ p \notin WriteOnce /\ e[1] = process[w].entry[1]
<1>1. StoresInv /\ [Next]_svars => [Kept]_svars
  <2>. SUFFICES ASSUME StoresInv, Next,
                       NEW w \in Processes, NEW p \in Places,
                       process[w].at = "looked", process[w].place = p,
                       process'[w].outcome = "written", p \notin raced',
                       NEW e \in Holding(p)
                PROVE  e \in Holding(p)' \/ (p \notin WriteOnce /\ e[1] = process[w].entry[1])
    OBVIOUS
  <2>1. Doing(process[w]) /\ process[w].outcome # "written"
    BY DEF StoresInv, ProcessesTyped, Doing, StoresAssumption
  <2>2. ~Migrate
    BY <2>1 DEF Migrate, StartMigration, LandParquet, Recreate, Insert, CountFiles, Verify, KillMigration
  <2>3. \A v \in Processes : v # w => ~(Look(v) \/ Put(v) \/ Abandon(v) \/ RecordTrade(v))
    BY <2>1 DEF Look, Put, Abandon, RecordTrade, StoresInv, ProcessesTyped
  <2>4. ~Look(w) /\ ~RecordTrade(w)
    BY DEF Look, RecordTrade
  <2>5. ~Abandon(w)
    BY DEF Abandon, StoresInv, ProcessesTyped, Resting, StoresAssumption
  <2>6. Put(w)
    BY <2>2, <2>3, <2>4, <2>5 DEF Next
  <2>. DEFINE content == After(process[w].seen, process[w].entry)
  <2>7. /\ UNCHANGED backend
        /\ raced' = IF Holding(p) # process[w].seen THEN raced \cup {p} ELSE raced
        /\ IF InDatabase(p) THEN table' = [table EXCEPT ![p] = content]
                            ELSE held' = [held EXCEPT ![p] = content]
    BY <2>6 DEF Put, StoresInv, ProcessesTyped, Resting
  <2>8. Holding(p) = process[w].seen
    BY <2>7
  <2>9. Holding(p)' = content
    BY <2>1, <2>7 DEF Holding, InDatabase, StoresInv, StoresTyped, Places, Rows, FilePlaces
  <2>. QED BY <2>1, <2>8, <2>9 DEF Doing, After
<1>. QED BY <1>1, StoresAlways, PTL DEF Spec, OnlyARaceLoses

(* Whatever was written, killed or begun again beside the migration: when  *)
(* it says clean, the database is the files it counted and the parquet     *)
(* files are what it had read (scripts/migrate_storage.py).                *)
THEOREM CleanIsACopy ==
  ASSUME StoresAssumption
  PROVE  Spec => []CleanMeansCopied
<1>1. StoresInv => CleanMeansCopied
  BY DEF StoresInv, CopiesOnly, VerdictStands, MemoryStands, CleanMeansCopied, Migrated
<1>. QED BY <1>1, StoresAlways, PTL

-----------------------------------------------------------------------------
(***************************************************************************)
(* The readers. What they keep is that of PageState.                       *)
(***************************************************************************)

LEMMA SamePage ==
  /\ Page!Latest = Latest /\ Page!Latest' = Latest' /\ Page!Guarded = Guarded
  /\ Page!rvars = rvars /\ Page!pageVars = pageVars
BY DEF Page!Cardinality, Cardinality, Page!Latest, Latest, Page!Guarded, Guarded, Page!rvars, rvars, Page!pageVars, pageVars

USE SamePage DEF Page!rvars, Page!pageVars

Value == Page!Content \cup {None, "torn"}
Request == [id : Nat, route : Page!Route, day : Page!Dates, tab : Page!Tab, at : Nat,
            seen : [Page!Kind -> Value],
            outcome : {"open", "ok", "missing", "broken", "lost"}, heard : BOOLEAN]

(* The order of the writes, as far as what is read goes by it.             *)
InOrder(s) ==
  /\ s["CANDIDATE"] # None => s["MARKET_REGIME"] = "rows"
  /\ s["UNIVERSE"] # None => s["FACTOR"] = "rows"
  /\ s["FACTOR"] # "empty" /\ s["MARKET_REGIME"] # "empty"

SnapshotsInv ==
  /\ snapshots \in [Page!Dates -> [Page!Kind -> Value]]
  /\ \A d \in Page!Dates : InOrder(snapshots[d])

PageTyped ==
  /\ reader \in Readers
  /\ dates \subseteq Page!Dates
  /\ dating \in {"loading", "ready", "failed"}
  /\ asOf \in dates \cup {None}
  /\ dating = "loading" => asOf = None
  /\ tab \in Page!Tab
  /\ DOMAIN shown = Page!Tab
  /\ loading \in BOOLEAN /\ error \in BOOLEAN

(* What a request has seen, and what the lines its route has passed imply. *)
SoFar(c) ==
  LET s == snapshots[c.day]
      answered == c.outcome = "ok" /\ ~c.heard
      past(line) == answered \/ (c.outcome = "open" /\ c.at > line)
  IN  /\ c.outcome = "open" => c.at \in 1 .. Len(Page!Script[c.route])
      /\ c.heard => c.outcome # "open"
      /\ c.route \in {"/today", "today"} /\ c.seen["CANDIDATE"] = "rows" =>
           /\ s["MARKET_REGIME"] = "rows"
           /\ answered => c.seen["MARKET_REGIME"] = "rows"
      /\ c.route \in {"/stocks", "stock"} /\ past(1) => s["FACTOR"] = "rows"
      /\ c.route = "/stocks" /\ past(3) => c.seen["FACTOR"] = "rows"
      /\ c.route = "stock" /\ past(2) => c.seen["FACTOR"] = "rows"

CallsInv ==
  /\ IsFiniteSet(calls)
  /\ calls \subseteq Request
  /\ \A c \in calls : c.id \in 1 .. Latest
  /\ \A c, d \in calls : c.id = d.id => c = d

LatestInv ==
  reader \in Guarded =>
    /\ loading => ~error
    /\ \A c \in calls : c.id = Latest =>
         /\ c.day = asOf
         /\ c.tab = tab
         /\ c.heard = ~loading
         /\ c.heard => /\ error = (c.outcome # "ok")
                       /\ c.outcome = "ok" => shown[tab].id = c.id

ReadingInv ==
  /\ SnapshotsInv
  /\ PageTyped
  /\ CallsInv
  /\ LatestInv
  /\ \A c \in calls : SoFar(c)

-----------------------------------------------------------------------------
(* The lines of the routes that read several kinds.                        *)

Line(op, kind) == [op |-> op, kind |-> kind]
Lines == [op : {"need", "demand", "consult", "read"}, kind : Page!Kind]

LEMMA Kinds == Page!Kind = {"FACTOR", "UNIVERSE", "STRATEGY", "MARKET_REGIME", "CANDIDATE"}
BY DEF Page!Kind, Page!PublishOrder

LEMMA Scripts ==
  /\ Page!Script["/today"] = Page!OverviewRoute /\ Page!Script["/candidates"] = Page!CandidatesRoute
  /\ Page!Script["/stocks"] = Page!ProfileRoute /\ Page!Script["/strategies"] = Page!RankingRoute
  /\ Page!Script["/qualifications"] = Page!QualifiedRoute
  /\ Page!Script["today"] = Page!TodayQuery /\ Page!Script["candidates"] = Page!CandidatesQuery
  /\ Page!Script["stock"] = Page!StockQuery /\ Page!Script["screen"] = Page!ScreenQuery
  /\ Page!Script["qualified"] = Page!QualifiedQuery
BY DEF Page!Script, Page!Route

LEMMA OverviewLines ==
  LET s == Page!Script["/today"]
  IN  /\ Len(s) = 4
      /\ s[1] = Line("demand", "CANDIDATE") /\ s[2] = Line("read", "CANDIDATE")
      /\ s[3] = Line("consult", "MARKET_REGIME") /\ s[4] = Line("read", "MARKET_REGIME")
BY Scripts DEF Page!OverviewRoute, Page!Optional, Page!Listed, Line

LEMMA TodayLines ==
  LET s == Page!Script["today"]
  IN  /\ Len(s) = 3
      /\ s[1] = Line("demand", "CANDIDATE") /\ s[2] = Line("read", "CANDIDATE")
      /\ s[3] = Line("read", "MARKET_REGIME")
BY Scripts DEF Page!TodayQuery, Page!Plain, Page!Listed, Line

LEMMA StockLines ==
  LET s == Page!Script["stock"]
  IN  Len(s) = 4 /\ s[1] = Line("need", "UNIVERSE") /\ s[2] = Line("read", "FACTOR")
BY Scripts DEF Page!StockQuery, Page!Needed, Page!Plain, Line

LEMMA ProfileLines ==
  LET s == Page!Script["/stocks"]
  IN  /\ Len(s) = 7
      /\ s[1] = Line("need", "UNIVERSE")
      /\ s[2] = Line("consult", "FACTOR") /\ s[3] = Line("read", "FACTOR")
BY Scripts DEF Page!ProfileRoute, Page!Needed, Page!Optional, Line

LEMMA RoutesTyped ==
  \A r \in Page!Route : Page!Script[r] \in Seq(Lines) /\ Page!Script[r] # <<>>
<1>. USE Kinds DEF Page!Optional, Page!Listed, Page!Needed, Page!Plain, Lines
<1>1. Page!OverviewRoute \in Seq(Lines) /\ Page!OverviewRoute # <<>>
  BY DEF Page!OverviewRoute
<1>2. Page!CandidatesRoute \in Seq(Lines) /\ Page!CandidatesRoute # <<>>
  BY DEF Page!CandidatesRoute
<1>3. Page!ProfileRoute \in Seq(Lines) /\ Page!ProfileRoute # <<>>
  BY DEF Page!ProfileRoute
<1>4. Page!RankingRoute \in Seq(Lines) /\ Page!RankingRoute # <<>>
  BY DEF Page!RankingRoute
<1>5. Page!QualifiedRoute \in Seq(Lines) /\ Page!QualifiedRoute # <<>>
  BY DEF Page!QualifiedRoute
<1>6. Page!TodayQuery \in Seq(Lines) /\ Page!TodayQuery # <<>>
  BY DEF Page!TodayQuery
<1>7. Page!CandidatesQuery \in Seq(Lines) /\ Page!CandidatesQuery # <<>>
  BY DEF Page!CandidatesQuery
<1>8. Page!StockQuery \in Seq(Lines) /\ Page!StockQuery # <<>>
  BY DEF Page!StockQuery
<1>9. Page!ScreenQuery \in Seq(Lines) /\ Page!ScreenQuery # <<>>
  BY DEF Page!ScreenQuery
<1>10. Page!QualifiedQuery \in Seq(Lines) /\ Page!QualifiedQuery # <<>>
  BY DEF Page!QualifiedQuery
<1>. HIDE DEF Lines
<1>. QED BY <1>1, <1>2, <1>3, <1>4, <1>5, <1>6, <1>7, <1>8, <1>9, <1>10, Scripts, Zenon DEF Page!Route

-----------------------------------------------------------------------------
(* One line of a route.                                                    *)

(* What is at a line: what it asks for, and what there is.                 *)
Op(c) == Page!Script[c.route][c.at].op
Asked(c) == Page!Script[c.route][c.at].kind
Found(c) == snapshots[c.day][Asked(c)]
Noted(c) == [c.seen EXCEPT ![Asked(c)] = Found(c)]

LEMMA ServedShape ==
  ASSUME NEW c
  PROVE  \/ Page!Served(c) \in {Page!EndWith(c, "missing"), Page!EndWith(c, "broken")}
         \/ Op(c) = "demand" /\ Found(c) # None /\ Page!Served(c) = Page!Advance(c, 1, c.seen)
         \/ Op(c) = "consult" /\ Found(c) = None /\ Page!Served(c) = Page!Advance(c, 2, c.seen)
         \/ Op(c) = "consult" /\ Found(c) # None /\ Page!Served(c) = Page!Advance(c, 1, c.seen)
         \/ Op(c) = "need" /\ Found(c) \notin {None, "empty", "torn"} /\ Page!Served(c) = Page!Advance(c, 1, Noted(c))
         \/ Op(c) \notin {"demand", "consult", "need"} /\ Page!Served(c) = Page!Advance(c, 1, Noted(c))
<1>1. CASE Op(c) = "demand"
  BY <1>1 DEF Page!Served, Op, Asked, Found, Noted
<1>2. CASE Op(c) = "consult"
  BY <1>2 DEF Page!Served, Op, Asked, Found, Noted
<1>3. CASE Op(c) = "need"
  BY <1>3 DEF Page!Served, Op, Asked, Found, Noted
<1>4. CASE Op(c) \notin {"demand", "consult", "need"}
  BY <1>4 DEF Page!Served, Op, Asked, Found, Noted
<1>. QED BY <1>1, <1>2, <1>3, <1>4

LEMMA Advanced ==
  ASSUME NEW c \in Request, c.outcome = "open", NEW lines \in {1, 2},
         NEW seen \in [Page!Kind -> Value], c.at \in 1 .. Len(Page!Script[c.route])
  PROVE  LET d == Page!Advance(c, lines, seen)
         IN  /\ d \in Request
             /\ d.id = c.id /\ d.day = c.day /\ d.tab = c.tab /\ d.route = c.route
             /\ d.heard = c.heard /\ d.seen = seen /\ d.at = c.at + lines
             /\ d.outcome = IF c.at + lines > Len(Page!Script[c.route]) THEN "ok" ELSE "open"
<1>. DEFINE next == c.at + lines
            result == IF next > Len(Page!Script[c.route]) THEN "ok" ELSE "open"
<1>1. next \in Nat /\ result \in {"ok", "open"}
  BY DEF Request
<1>2. Page!Advance(c, lines, seen) = [c EXCEPT !.at = next, !.seen = seen, !.outcome = result]
  BY DEF Page!Advance
<1>. HIDE DEF next, result
<1>3. LET d == Page!Advance(c, lines, seen)
      IN  /\ d \in Request
          /\ d.id = c.id /\ d.day = c.day /\ d.tab = c.tab /\ d.route = c.route
          /\ d.heard = c.heard /\ d.seen = seen /\ d.at = next
          /\ d.outcome = result
  BY <1>1, <1>2 DEF Request
<1>. QED BY <1>3 DEF next, result

LEMMA Ended ==
  ASSUME NEW c \in Request, NEW outcome \in {"ok", "missing", "broken", "lost"}
  PROVE  LET d == Page!EndWith(c, outcome)
         IN  /\ d \in Request
             /\ d.id = c.id /\ d.day = c.day /\ d.tab = c.tab /\ d.route = c.route
             /\ d.heard = c.heard /\ d.seen = Page!Nothing /\ d.outcome = outcome
BY DEF Page!EndWith, Request, Page!Nothing, Value

LEMMA EndedSoFar ==
  ASSUME Page!ReadingAssumption, NEW c \in Request, NEW outcome \in {"missing", "broken", "lost"}
  PROVE  SoFar(Page!EndWith(c, outcome))
<1>. DEFINE d == Page!EndWith(c, outcome)
<1>1. d.outcome = outcome /\ d.seen = Page!Nothing
  BY Ended
<1>2. Page!Nothing["CANDIDATE"] # "rows"
  BY Kinds DEF Page!Nothing, Page!ReadingAssumption, Page!Content
<1>. HIDE DEF d
<1>3. SoFar(d)
  BY <1>1, <1>2 DEF SoFar
<1>. QED BY <1>3 DEF d

LEMMA FoundIsValue ==
  ASSUME SnapshotsInv, NEW c \in Request, c.at \in 1 .. Len(Page!Script[c.route])
  PROVE  Asked(c) \in Page!Kind /\ Found(c) \in Value /\ Noted(c) \in [Page!Kind -> Value]
<1>1. Page!Script[c.route] \in Seq(Lines) /\ c.day \in Page!Dates /\ c.seen \in [Page!Kind -> Value]
  BY RoutesTyped DEF Request
<1>2. Asked(c) \in Page!Kind
  <2>1. Page!Script[c.route][c.at] \in Lines
    BY <1>1
  <2>. QED BY <2>1 DEF Asked, Lines
<1>3. Found(c) \in Value
  BY <1>1, <1>2 DEF Found, SnapshotsInv
<1>. QED BY <1>1, <1>2, <1>3 DEF Noted

LEMMA ServedKeeps ==
  ASSUME SnapshotsInv, NEW c \in Request, c.outcome = "open", SoFar(c)
  PROVE  LET d == Page!Served(c)
         IN  /\ d \in Request
             /\ d.id = c.id /\ d.day = c.day /\ d.tab = c.tab /\ d.route = c.route
             /\ d.heard = c.heard
<1>1. c.at \in 1 .. Len(Page!Script[c.route]) /\ c.seen \in [Page!Kind -> Value]
  BY DEF SoFar, Request
<1>2. Noted(c) \in [Page!Kind -> Value]
  BY <1>1, FoundIsValue
<1>3. /\ \A outcome \in {"missing", "broken"} :
           LET d == Page!EndWith(c, outcome)
           IN  /\ d \in Request
               /\ d.id = c.id /\ d.day = c.day /\ d.tab = c.tab /\ d.route = c.route
               /\ d.heard = c.heard
      /\ \A lines \in {1, 2}, seen \in {c.seen, Noted(c)} :
           LET d == Page!Advance(c, lines, seen)
           IN  /\ d \in Request
               /\ d.id = c.id /\ d.day = c.day /\ d.tab = c.tab /\ d.route = c.route
               /\ d.heard = c.heard
  BY <1>1, <1>2, Ended, Advanced
<1>. QED BY <1>3, ServedShape

(* The line a route is at tells what it has seen so far.                   *)
LEMMA ServedSoFar ==
  ASSUME Page!ReadingAssumption, SnapshotsInv, NEW c \in Request, c.outcome = "open", SoFar(c)
  PROVE  SoFar(Page!Served(c))
<1>. DEFINE d == Page!Served(c)
            s == snapshots[c.day]
            n == Len(Page!Script[c.route])
<1>1. /\ c.at \in 1 .. n /\ c.seen \in [Page!Kind -> Value] /\ ~c.heard /\ c.at \in Nat /\ n \in Nat
      /\ s \in [Page!Kind -> Value] /\ InOrder(s) /\ c.route \in Page!Route
  BY RoutesTyped DEF SoFar, Request, SnapshotsInv
<1>2. Asked(c) \in Page!Kind /\ Found(c) \in Value /\ Noted(c) \in [Page!Kind -> Value]
  BY <1>1, FoundIsValue
<1>3. CASE Page!Served(c) \in {Page!EndWith(c, "missing"), Page!EndWith(c, "broken")}
  BY <1>3, EndedSoFar
<1>4. ASSUME NEW lines \in {1, 2}, NEW seen \in {c.seen, Noted(c)},
             d = Page!Advance(c, lines, seen),
             \/ Op(c) = "demand" /\ Found(c) # None /\ lines = 1 /\ seen = c.seen
             \/ Op(c) = "consult" /\ Found(c) = None /\ lines = 2 /\ seen = c.seen
             \/ Op(c) = "consult" /\ Found(c) # None /\ lines = 1 /\ seen = c.seen
             \/ Op(c) = "need" /\ Found(c) \notin {None, "empty", "torn"} /\ lines = 1 /\ seen = Noted(c)
             \/ Op(c) \notin {"demand", "consult", "need"} /\ lines = 1 /\ seen = Noted(c)
      PROVE  SoFar(d)
  <2>1. /\ d.day = c.day /\ d.route = c.route /\ ~d.heard /\ d.seen = seen /\ d.at = c.at + lines
        /\ d.outcome = IF c.at + lines > n THEN "ok" ELSE "open"
    BY <1>1, <1>2, <1>4, Advanced
  <2>. HIDE DEF d
  <2>2. d.outcome = "open" => d.at \in 1 .. n
    <3>. HIDE DEF n
    <3>1. d.outcome = "open" => ~(c.at + lines > n)
      BY <2>1
    <3>. QED BY <1>1, <2>1, <3>1
  <2>3. "CANDIDATE" \in Page!Kind /\ "MARKET_REGIME" \in Page!Kind /\ "FACTOR" \in Page!Kind /\ "UNIVERSE" \in Page!Kind
    BY Kinds
  <2>4. None # "rows"
    BY DEF Page!ReadingAssumption, Page!Content
  <2>5. CASE c.route \notin {"/today", "today", "/stocks", "stock"}
    BY <2>1, <2>2, <2>5 DEF SoFar
  <2>6. CASE c.route = "/today"
    <3>0. n = 4
      BY <2>6, OverviewLines
    <3>1. CASE c.at = 1
      <4>1. Op(c) = "demand" /\ Asked(c) = "CANDIDATE"
        BY <2>6, <3>1, OverviewLines DEF Op, Asked, Line
      <4>2. Found(c) = s["CANDIDATE"] /\ Noted(c) = [c.seen EXCEPT !["CANDIDATE"] = s["CANDIDATE"]]
        BY <4>1 DEF Found, Noted
      <4>. QED BY <1>1, <1>2, <1>4, <2>1, <2>2, <2>3, <2>4, <2>6, <3>1, <3>0, <4>1, <4>2, OverviewLines
           DEF SoFar, InOrder
    <3>2. CASE c.at = 2
      <4>1. Op(c) = "read" /\ Asked(c) = "CANDIDATE"
        BY <2>6, <3>2, OverviewLines DEF Op, Asked, Line
      <4>2. Found(c) = s["CANDIDATE"] /\ Noted(c) = [c.seen EXCEPT !["CANDIDATE"] = s["CANDIDATE"]]
        BY <4>1 DEF Found, Noted
      <4>. QED BY <1>1, <1>2, <1>4, <2>1, <2>2, <2>3, <2>4, <2>6, <3>2, <3>0, <4>1, <4>2, OverviewLines
           DEF SoFar, InOrder
    <3>3. CASE c.at = 3
      <4>1. Op(c) = "consult" /\ Asked(c) = "MARKET_REGIME"
        BY <2>6, <3>3, OverviewLines DEF Op, Asked, Line
      <4>2. Found(c) = s["MARKET_REGIME"] /\ Noted(c) = [c.seen EXCEPT !["MARKET_REGIME"] = s["MARKET_REGIME"]]
        BY <4>1 DEF Found, Noted
      <4>. QED BY <1>1, <1>2, <1>4, <2>1, <2>2, <2>3, <2>4, <2>6, <3>3, <3>0, <4>1, <4>2, OverviewLines
           DEF SoFar, InOrder
    <3>4. CASE c.at = 4
      <4>1. Op(c) = "read" /\ Asked(c) = "MARKET_REGIME"
        BY <2>6, <3>4, OverviewLines DEF Op, Asked, Line
      <4>2. Found(c) = s["MARKET_REGIME"] /\ Noted(c) = [c.seen EXCEPT !["MARKET_REGIME"] = s["MARKET_REGIME"]]
        BY <4>1 DEF Found, Noted
      <4>. QED BY <1>1, <1>2, <1>4, <2>1, <2>2, <2>3, <2>4, <2>6, <3>4, <3>0, <4>1, <4>2, OverviewLines
           DEF SoFar, InOrder
    <3>. QED BY <1>1, <3>0, <3>1, <3>2, <3>3, <3>4
  <2>7. CASE c.route = "today"
    <3>0. n = 3
      BY <2>7, TodayLines
    <3>1. CASE c.at = 1
      <4>1. Op(c) = "demand" /\ Asked(c) = "CANDIDATE"
        BY <2>7, <3>1, TodayLines DEF Op, Asked, Line
      <4>2. Found(c) = s["CANDIDATE"] /\ Noted(c) = [c.seen EXCEPT !["CANDIDATE"] = s["CANDIDATE"]]
        BY <4>1 DEF Found, Noted
      <4>. QED BY <1>1, <1>2, <1>4, <2>1, <2>2, <2>3, <2>4, <2>7, <3>1, <3>0, <4>1, <4>2, TodayLines
           DEF SoFar, InOrder
    <3>2. CASE c.at = 2
      <4>1. Op(c) = "read" /\ Asked(c) = "CANDIDATE"
        BY <2>7, <3>2, TodayLines DEF Op, Asked, Line
      <4>2. Found(c) = s["CANDIDATE"] /\ Noted(c) = [c.seen EXCEPT !["CANDIDATE"] = s["CANDIDATE"]]
        BY <4>1 DEF Found, Noted
      <4>. QED BY <1>1, <1>2, <1>4, <2>1, <2>2, <2>3, <2>4, <2>7, <3>2, <3>0, <4>1, <4>2, TodayLines
           DEF SoFar, InOrder
    <3>3. CASE c.at = 3
      <4>1. Op(c) = "read" /\ Asked(c) = "MARKET_REGIME"
        BY <2>7, <3>3, TodayLines DEF Op, Asked, Line
      <4>2. Found(c) = s["MARKET_REGIME"] /\ Noted(c) = [c.seen EXCEPT !["MARKET_REGIME"] = s["MARKET_REGIME"]]
        BY <4>1 DEF Found, Noted
      <4>. QED BY <1>1, <1>2, <1>4, <2>1, <2>2, <2>3, <2>4, <2>7, <3>3, <3>0, <4>1, <4>2, TodayLines
           DEF SoFar, InOrder
    <3>. QED BY <1>1, <3>0, <3>1, <3>2, <3>3
  <2>8. CASE c.route = "/stocks"
    <3>0. n = 7
      BY <2>8, ProfileLines
    <3>1. CASE c.at = 1
      <4>1. Op(c) = "need" /\ Asked(c) = "UNIVERSE"
        BY <2>8, <3>1, ProfileLines DEF Op, Asked, Line
      <4>2. Found(c) = s["UNIVERSE"] /\ Noted(c) = [c.seen EXCEPT !["UNIVERSE"] = s["UNIVERSE"]]
        BY <4>1 DEF Found, Noted
      <4>. QED BY <1>1, <1>2, <1>4, <2>1, <2>2, <2>3, <2>4, <2>8, <3>1, <3>0, <4>1, <4>2, ProfileLines
           DEF SoFar, InOrder
    <3>2. CASE c.at = 2
      <4>1. Op(c) = "consult" /\ Asked(c) = "FACTOR"
        BY <2>8, <3>2, ProfileLines DEF Op, Asked, Line
      <4>2. Found(c) = s["FACTOR"] /\ Noted(c) = [c.seen EXCEPT !["FACTOR"] = s["FACTOR"]]
        BY <4>1 DEF Found, Noted
      <4>. QED BY <1>1, <1>2, <1>4, <2>1, <2>2, <2>3, <2>4, <2>8, <3>2, <3>0, <4>1, <4>2, ProfileLines
           DEF SoFar, InOrder
    <3>3. CASE c.at = 3
      <4>1. Op(c) = "read" /\ Asked(c) = "FACTOR"
        BY <2>8, <3>3, ProfileLines DEF Op, Asked, Line
      <4>2. Found(c) = s["FACTOR"] /\ Noted(c) = [c.seen EXCEPT !["FACTOR"] = s["FACTOR"]]
        BY <4>1 DEF Found, Noted
      <4>. QED BY <1>1, <1>2, <1>4, <2>1, <2>2, <2>3, <2>4, <2>8, <3>3, <3>0, <4>1, <4>2, ProfileLines
           DEF SoFar, InOrder
    <3>4. CASE c.at > 3
      <4>1. c.seen["FACTOR"] = "rows" /\ s["FACTOR"] = "rows"
        BY <1>1, <2>8, <3>4 DEF SoFar
      <4>2. Noted(c)["FACTOR"] = "rows"
        BY <1>1, <2>3, <4>1 DEF Noted, Found
      <4>. QED BY <1>4, <2>1, <2>2, <2>8, <4>1, <4>2 DEF SoFar
    <3>. QED BY <1>1, <3>1, <3>2, <3>3, <3>4
  <2>9. CASE c.route = "stock"
    <3>0. n = 4
      BY <2>9, StockLines
    <3>1. CASE c.at = 1
      <4>1. Op(c) = "need" /\ Asked(c) = "UNIVERSE"
        BY <2>9, <3>1, StockLines DEF Op, Asked, Line
      <4>2. Found(c) = s["UNIVERSE"] /\ Noted(c) = [c.seen EXCEPT !["UNIVERSE"] = s["UNIVERSE"]]
        BY <4>1 DEF Found, Noted
      <4>. QED BY <1>1, <1>2, <1>4, <2>1, <2>2, <2>3, <2>4, <2>9, <3>1, <3>0, <4>1, <4>2, StockLines
           DEF SoFar, InOrder
    <3>2. CASE c.at = 2
      <4>1. Op(c) = "read" /\ Asked(c) = "FACTOR"
        BY <2>9, <3>2, StockLines DEF Op, Asked, Line
      <4>2. Found(c) = s["FACTOR"] /\ Noted(c) = [c.seen EXCEPT !["FACTOR"] = s["FACTOR"]]
        BY <4>1 DEF Found, Noted
      <4>. QED BY <1>1, <1>2, <1>4, <2>1, <2>2, <2>3, <2>4, <2>9, <3>2, <3>0, <4>1, <4>2, StockLines
           DEF SoFar, InOrder
    <3>3. CASE c.at > 2
      <4>1. c.seen["FACTOR"] = "rows" /\ s["FACTOR"] = "rows"
        BY <1>1, <2>9, <3>3 DEF SoFar
      <4>2. Noted(c)["FACTOR"] = "rows"
        BY <1>1, <2>3, <4>1 DEF Noted, Found
      <4>. QED BY <1>4, <2>1, <2>2, <2>9, <4>1, <4>2 DEF SoFar
    <3>. QED BY <1>1, <3>1, <3>2, <3>3
  <2>. QED BY <2>5, <2>6, <2>7, <2>8, <2>9
<1>. QED BY <1>2, <1>3, <1>4, ServedShape

-----------------------------------------------------------------------------
(* The run that publishes only adds to what a route has relied on.         *)

Grown == \A d \in Page!Dates, k \in Page!Kind : snapshots[d][k] = "rows" => snapshots'[d][k] = "rows"

LEMMA SoFarStays ==
  ASSUME Grown, NEW c \in Request, SoFar(c)
  PROVE  SoFar(c)'
<1>1. /\ snapshots[c.day]["FACTOR"] = "rows" => snapshots'[c.day]["FACTOR"] = "rows"
      /\ snapshots[c.day]["MARKET_REGIME"] = "rows" => snapshots'[c.day]["MARKET_REGIME"] = "rows"
  BY Kinds DEF Grown, Request
<1>. QED BY <1>1 DEF SoFar

LEMMA LastIsDate == Page!ReadingAssumption => LastDay \in Page!Dates
BY DEF Page!ReadingAssumption, Page!Dates

LEMMA CreateGrows ==
  ASSUME Page!ReadingAssumption, SnapshotsInv, NEW i \in 1 .. 5, Page!CreateFile(i)
  PROVE  SnapshotsInv' /\ Grown
<1>. DEFINE kind == Page!PublishOrder[i]
            s == snapshots[LastDay]
            t == [s EXCEPT ![kind] = "torn"]
<1>1. /\ Page!PublishOrder[1] = "FACTOR" /\ Page!PublishOrder[2] = "UNIVERSE" /\ Page!PublishOrder[3] = "STRATEGY"
      /\ Page!PublishOrder[4] = "MARKET_REGIME" /\ Page!PublishOrder[5] = "CANDIDATE"
  BY DEF Page!PublishOrder
<1>2. kind \in Page!Kind /\ s[kind] = None /\ "torn" \in Value
  BY DEF Page!Kind, Page!CreateFile, Value
<1>3. /\ kind = "CANDIDATE" => s["MARKET_REGIME"] \in Page!Content
      /\ kind = "UNIVERSE" => s["FACTOR"] \in Page!Content
  <2>1. \A j \in 1 .. (i - 1) : s[Page!PublishOrder[j]] \in Page!Content
    BY DEF Page!CreateFile, Page!Filled
  <2>2. CASE i = 2
    BY <1>1, <2>1, <2>2
  <2>3. CASE i = 5
    BY <1>1, <2>1, <2>3
  <2>4. CASE i \in {1, 3, 4}
    BY <1>1, <2>4
  <2>. QED BY <2>2, <2>3, <2>4
<1>4. LastDay \in Page!Dates /\ snapshots' = [snapshots EXCEPT ![LastDay] = t]
  BY LastIsDate DEF Page!CreateFile
<1>5. s \in [Page!Kind -> Value] /\ InOrder(s) /\ None \notin {"rows", "empty", "torn"}
  BY <1>4 DEF SnapshotsInv, Page!ReadingAssumption, Page!Content
<1>. HIDE DEF kind, s
<1>6. t \in [Page!Kind -> Value]
  BY <1>2, <1>5
<1>7. InOrder(t)
  BY <1>2, <1>3, <1>5, Kinds DEF InOrder, Page!Content
<1>8. \A k \in Page!Kind : s[k] = "rows" => t[k] = "rows"
  BY <1>2, <1>5
<1>. HIDE DEF t
<1>. QED BY <1>4, <1>6, <1>7, <1>8 DEF SnapshotsInv, Grown, s

LEMMA FillGrows ==
  ASSUME Page!ReadingAssumption, SnapshotsInv, NEW kind \in Page!Kind, Page!FillFile(kind)
  PROVE  SnapshotsInv' /\ Grown
<1>1. PICK content \in Page!Content :
        /\ content = "empty" => kind \in {"STRATEGY", "CANDIDATE"}
        /\ snapshots' = [snapshots EXCEPT ![LastDay][kind] = content]
  BY DEF Page!FillFile
<1>. DEFINE s == snapshots[LastDay]
            t == [s EXCEPT ![kind] = content]
<1>2. LastDay \in Page!Dates /\ snapshots' = [snapshots EXCEPT ![LastDay] = t] /\ s[kind] = "torn"
  BY <1>1, LastIsDate DEF Page!FillFile
<1>3. s \in [Page!Kind -> Value] /\ InOrder(s) /\ None \notin {"rows", "empty", "torn"}
  BY <1>2 DEF SnapshotsInv, Page!ReadingAssumption, Page!Content
<1>. HIDE DEF s
<1>4. t \in [Page!Kind -> Value]
  BY <1>3 DEF Value
<1>5. InOrder(t)
  BY <1>1, <1>2, <1>3, Kinds DEF InOrder, Page!Content
<1>6. \A k \in Page!Kind : s[k] = "rows" => t[k] = "rows"
  BY <1>2, <1>3
<1>. HIDE DEF t
<1>. QED BY <1>2, <1>4, <1>5, <1>6 DEF SnapshotsInv, Grown, s

-----------------------------------------------------------------------------
(* The requests of a page keep their numbers.                              *)

LEMMA LatestIsNumber ==
  ASSUME CallsInv PROVE Latest \in Nat
BY FS_CardinalityType DEF CallsInv, Latest

LEMMA Replaced ==
  ASSUME CallsInv, NEW c \in calls, NEW d \in Request, d.id = c.id,
         calls' = (calls \ {c}) \cup {d}
  PROVE  CallsInv' /\ Latest' = Latest
<1>1. d \notin calls \ {c}
  BY DEF CallsInv
<1>2. IsFiniteSet(calls \ {c}) /\ Cardinality(calls \ {c}) = Cardinality(calls) - 1
  BY FS_RemoveElement DEF CallsInv
<1>3. IsFiniteSet(calls') /\ Cardinality(calls') = Cardinality(calls \ {c}) + 1
  BY <1>1, <1>2, FS_AddElement
<1>4. Latest' = Latest
  BY <1>2, <1>3, LatestIsNumber DEF Latest
<1>. QED BY <1>3, <1>4 DEF CallsInv

LEMMA Asks ==
  ASSUME CallsInv, NEW d \in Request, d.id = Latest + 1, calls' = calls \cup {d}
  PROVE  /\ CallsInv' /\ Latest' = Latest + 1
         /\ \A c \in calls : c.id # Latest'
<1>1. Latest \in Nat
  BY LatestIsNumber
<1>2. d \notin calls
  BY <1>1 DEF CallsInv
<1>3. IsFiniteSet(calls') /\ Latest' = Latest + 1
  BY <1>2, FS_AddElement DEF CallsInv, Latest
<1>. QED BY <1>1, <1>3 DEF CallsInv

LEMMA CallFits ==
  ASSUME Page!ReadingAssumption, ReadingInv, NEW day \in Page!Dates, NEW which \in Page!Tab
  PROVE  LET d == Page!Call(day, which)
         IN  /\ d \in Request /\ SoFar(d)
             /\ d.id = Latest + 1 /\ d.day = day /\ d.tab = which /\ d.heard = FALSE
<1>. DEFINE d == Page!Call(day, which)
            route == Page!RouteOf(reader, which)
<1>1. Latest \in Nat /\ reader \in Page!Pages \cup Page!Route
  BY LatestIsNumber DEF ReadingInv, PageTyped, Page!ReadingAssumption
<1>2. route \in Page!Route
  BY <1>1 DEF Page!RouteOf, Page!Pages, Guarded, Page!Unguarded, Page!Route
<1>. HIDE DEF route
<1>3. d = [id |-> Latest + 1, route |-> route, day |-> day, tab |-> which, at |-> 1,
           seen |-> Page!Nothing, outcome |-> "open", heard |-> FALSE]
  BY DEF Page!Call, route
<1>4. d \in Request
  BY <1>1, <1>2, <1>3 DEF Request, Page!Nothing, Value
<1>5. Page!Nothing["CANDIDATE"] # "rows"
  BY Kinds DEF Page!Nothing, Page!ReadingAssumption, Page!Content
<1>6. Len(Page!Script[route]) \in Nat /\ Len(Page!Script[route]) >= 1
  BY <1>2, RoutesTyped
<1>. HIDE DEF d
<1>7. SoFar(d)
  BY <1>3, <1>5, <1>6 DEF SoFar
<1>. QED BY <1>3, <1>4, <1>7 DEF d

LEMMA NewestIsThere ==
  ASSUME Page!ReadingAssumption, NEW S \in SUBSET Page!Dates, S # {}
  PROVE  Page!Newest(S) \in S
<1>1. \A x \in S : x \in Int
  BY DEF Page!Dates
<1>2. IsFiniteSet(S)
  <2>1. IsFiniteSet(Page!Dates)
    BY FS_Interval DEF Page!Dates, Page!ReadingAssumption
  <2>. QED BY <2>1, FS_Subset
<1>3. \E d \in S : \A e \in S : e <= d
  BY <1>1, <1>2, MaxIsMember
<1>. QED BY <1>3 DEF Page!Newest

(* Whoever changes the selection asks anew.                                *)
LEMMA FetchKeeps ==
  ASSUME Page!ReadingAssumption, ReadingInv, PageTyped',
         NEW day \in Page!Dates, NEW which \in Page!Tab, Page!Fetch(day, which),
         asOf' = day, tab' = which, UNCHANGED <<snapshots, reader, shown>>
  PROVE  ReadingInv'
<1>. DEFINE d == Page!Call(day, which)
<1>1. /\ d \in Request /\ SoFar(d)
      /\ d.id = Latest + 1 /\ d.day = day /\ d.tab = which /\ d.heard = FALSE
  BY CallFits
<1>2. calls' = calls \cup {d} /\ loading' = TRUE /\ error' = FALSE
  BY DEF Page!Fetch
<1>. HIDE DEF d
<1>3. /\ CallsInv' /\ Latest' = Latest + 1
      /\ \A c \in calls : c.id # Latest'
  BY <1>1, <1>2, Asks DEF ReadingInv
<1>4. SnapshotsInv'
  BY DEF ReadingInv, SnapshotsInv
<1>5. \A c \in calls' : SoFar(c)'
  BY <1>1, <1>2 DEF ReadingInv, SoFar
<1>6. LatestInv'
  BY <1>1, <1>2, <1>3 DEF LatestInv
<1>. QED BY <1>3, <1>4, <1>5, <1>6 DEF ReadingInv

LEMMA QueryKeeps ==
  ASSUME Page!ReadingAssumption, ReadingInv, NEW day \in Page!Dates, Page!Query(day)
  PROVE  ReadingInv'
<1>. DEFINE d == Page!Call(day, tab)
<1>1. /\ d \in Request /\ SoFar(d) /\ d.id = Latest + 1
  BY CallFits DEF ReadingInv, PageTyped
<1>2. /\ calls' = calls \cup {d} /\ reader \notin Guarded
      /\ UNCHANGED <<snapshots, publishing, reader, dates, dating, asOf, tab, shown, loading, error>>
  BY DEF Page!Query, Page!Pages, pageVars
<1>. HIDE DEF d
<1>3. CallsInv'
  BY <1>1, <1>2, Asks DEF ReadingInv
<1>4. SnapshotsInv' /\ PageTyped'
  BY <1>2 DEF ReadingInv, SnapshotsInv, PageTyped
<1>5. \A c \in calls' : SoFar(c)'
  BY <1>1, <1>2 DEF ReadingInv, SoFar
<1>. QED BY <1>2, <1>3, <1>4, <1>5 DEF ReadingInv, LatestInv

(* A request goes on or ends: nobody has heard of it yet.                  *)
LEMMA AnswerKeeps ==
  ASSUME Page!ReadingAssumption, ReadingInv, NEW c \in calls, Page!Serve(c) \/ Page!Lose(c)
  PROVE  ReadingInv'
<1>. DEFINE d == IF Page!Serve(c) THEN Page!Served(c) ELSE Page!EndWith(c, "lost")
<1>1. c \in Request /\ SoFar(c) /\ c.outcome = "open" /\ ~c.heard
  BY DEF ReadingInv, CallsInv, Page!Serve, Page!Lose, SoFar
<1>2. /\ calls' = (calls \ {c}) \cup {d}
      /\ UNCHANGED <<snapshots, publishing, reader, dates, dating, asOf, tab, shown, loading, error>>
  BY DEF Page!Serve, Page!Lose, pageVars
<1>3. d \in Request /\ d.id = c.id /\ d.day = c.day /\ d.tab = c.tab /\ d.heard = c.heard /\ SoFar(d)
  BY <1>1, ServedKeeps, ServedSoFar, Ended, EndedSoFar DEF ReadingInv
<1>. HIDE DEF d
<1>4. CallsInv' /\ Latest' = Latest
  BY <1>2, <1>3, Replaced DEF ReadingInv
<1>5. SnapshotsInv' /\ PageTyped'
  BY <1>2 DEF ReadingInv, SnapshotsInv, PageTyped
<1>6. \A e \in calls' : SoFar(e)'
  BY <1>2, <1>3 DEF ReadingInv, SoFar
<1>7. LatestInv'
  BY <1>1, <1>2, <1>3, <1>4 DEF ReadingInv, LatestInv
<1>. QED BY <1>4, <1>5, <1>6, <1>7 DEF ReadingInv

LEMMA HearKeeps ==
  ASSUME Page!ReadingAssumption, ReadingInv, NEW c \in calls, Page!Hear(c)
  PROVE  ReadingInv'
<1>. DEFINE d == [Page!EndWith(c, c.outcome) EXCEPT !.heard = TRUE]
<1>1. c \in Request /\ SoFar(c) /\ c.outcome \in {"ok", "missing", "broken", "lost"} /\ ~c.heard
  BY DEF ReadingInv, CallsInv, Page!Hear, Request
<1>2. /\ calls' = (calls \ {c}) \cup {d}
      /\ UNCHANGED <<snapshots, publishing, reader, dates, dating, asOf, tab>>
      /\ IF Page!Heeds(c) THEN Page!Settle(c) ELSE UNCHANGED <<shown, loading, error>>
  BY DEF Page!Hear
<1>3. /\ d \in Request /\ d.id = c.id /\ d.day = c.day /\ d.tab = c.tab /\ d.route = c.route
      /\ d.heard = TRUE /\ d.outcome = c.outcome /\ d.seen = Page!Nothing
  <2>. DEFINE e == Page!EndWith(c, c.outcome)
  <2>1. /\ e \in Request /\ e.id = c.id /\ e.day = c.day /\ e.tab = c.tab /\ e.route = c.route
        /\ e.outcome = c.outcome /\ e.seen = Page!Nothing
    BY <1>1, Ended
  <2>. HIDE DEF e
  <2>2. /\ [e EXCEPT !.heard = TRUE] \in Request
        /\ LET g == [e EXCEPT !.heard = TRUE]
           IN  /\ g.id = e.id /\ g.day = e.day /\ g.tab = e.tab /\ g.route = e.route
               /\ g.heard = TRUE /\ g.outcome = e.outcome /\ g.seen = e.seen
    BY <2>1 DEF Request
  <2>. QED BY <2>1, <2>2 DEF e
<1>. HIDE DEF d
<1>4. CallsInv' /\ Latest' = Latest
  BY <1>2, <1>3, Replaced DEF ReadingInv
<1>5. SnapshotsInv'
  BY <1>2 DEF ReadingInv, SnapshotsInv
<1>6. PageTyped'
  BY <1>2 DEF ReadingInv, PageTyped, Page!Settle
<1>7. SoFar(d)
  <2>1. Page!Nothing["CANDIDATE"] # "rows"
    BY Kinds DEF Page!Nothing, Page!ReadingAssumption, Page!Content
  <2>. QED BY <1>1, <1>3, <2>1 DEF SoFar
<1>8. \A e \in calls' : SoFar(e)'
  BY <1>2, <1>7 DEF ReadingInv, SoFar
<1>9. LatestInv'
  <2>. SUFFICES ASSUME reader \in Guarded PROVE LatestInv'
    BY <1>2 DEF LatestInv
  <2>1. CASE c.id = Latest
    <3>1. Page!Settle(c) /\ loading /\ ~error /\ c.tab = tab /\ c.day = asOf
      BY <1>1, <1>2, <2>1 DEF Page!Heeds, ReadingInv, LatestInv, PageTyped
    <3>2. /\ loading' = FALSE /\ error' = (c.outcome # "ok")
          /\ c.outcome = "ok" => shown'[tab].id = c.id
      BY <1>1, <3>1 DEF Page!Settle, Page!Held, ReadingInv, PageTyped
    <3>3. \A e \in calls' : e.id = Latest' => e = d
      BY <1>2, <1>3, <1>4, <2>1 DEF CallsInv
    <3>. QED BY <1>2, <1>3, <3>1, <3>2, <3>3 DEF LatestInv
  <2>2. CASE c.id # Latest
    <3>1. UNCHANGED <<shown, loading, error>>
      BY <1>2, <2>2 DEF Page!Heeds
    <3>. QED BY <1>2, <1>3, <1>4, <2>2, <3>1 DEF ReadingInv, LatestInv
  <2>. QED BY <2>1, <2>2
<1>. QED BY <1>4, <1>5, <1>6, <1>8, <1>9 DEF ReadingInv

LEMMA InitReading == Page!ReadingAssumption /\ Page!Init => ReadingInv
<1>. SUFFICES ASSUME Page!ReadingAssumption, Page!Init PROVE ReadingInv
  OBVIOUS
<1>1. SnapshotsInv
  <2>1. PICK first \in Page!Content, last \in Page!Content :
          snapshots = [d \in Page!Dates |-> IF d = LastDay THEN [k \in Page!Kind |-> None]
                                       ELSE Page!Whole(first, last)]
    BY DEF Page!Init
  <2>2. None \notin {"rows", "empty", "torn"}
    BY DEF Page!ReadingAssumption, Page!Content
  <2>3. /\ Page!Whole(first, last) \in [Page!Kind -> Value] /\ [k \in Page!Kind |-> None] \in [Page!Kind -> Value]
    BY DEF Page!Whole, Value, Page!Content
  <2>4. InOrder(Page!Whole(first, last)) /\ InOrder([k \in Page!Kind |-> None])
    BY <2>2, Kinds DEF InOrder, Page!Whole
  <2>. QED BY <2>1, <2>3, <2>4 DEF SnapshotsInv
<1>2. PageTyped
  BY DEF Page!Init, PageTyped, Page!Tab
<1>3. CallsInv /\ LatestInv /\ \A c \in calls : SoFar(c)
  BY FS_EmptySet DEF Page!Init, CallsInv, LatestInv
<1>. QED BY <1>1, <1>2, <1>3 DEF ReadingInv

LEMMA PublishKeeps ==
  ASSUME Page!ReadingAssumption, ReadingInv,
         UNCHANGED <<reader, dates, dating, asOf, tab, shown, loading, error, calls>>,
         SnapshotsInv', Grown
  PROVE  ReadingInv'
<1>1. PageTyped' /\ CallsInv' /\ LatestInv'
  BY DEF ReadingInv, PageTyped, CallsInv, LatestInv, Latest
<1>2. \A c \in calls : SoFar(c)'
  BY SoFarStays DEF ReadingInv, CallsInv
<1>. QED BY <1>1, <1>2 DEF ReadingInv

LEMMA ReadingStep ==
  ASSUME Page!ReadingAssumption, ReadingInv, [Page!Next]_rvars
  PROVE  ReadingInv'
<1>1. CASE UNCHANGED rvars
  BY <1>1 DEF rvars, ReadingInv, SnapshotsInv, PageTyped, CallsInv, LatestInv, SoFar, Latest
<1>2. ASSUME NEW i \in 1 .. 5, Page!CreateFile(i) PROVE ReadingInv'
  <2>1. SnapshotsInv' /\ Grown
    BY <1>2, CreateGrows DEF ReadingInv
  <2>. QED BY <1>2, <2>1, PublishKeeps DEF Page!CreateFile, pageVars
<1>3. ASSUME NEW kind \in Page!Kind, Page!FillFile(kind) PROVE ReadingInv'
  <2>1. SnapshotsInv' /\ Grown
    BY <1>3, FillGrows DEF ReadingInv
  <2>. QED BY <1>3, <2>1, PublishKeeps DEF Page!FillFile, pageVars
<1>4. CASE Page!KillRun
  BY <1>4 DEF Page!KillRun, pageVars, ReadingInv, SnapshotsInv, PageTyped, CallsInv, LatestInv, SoFar, Latest
<1>5. CASE Page!Answer
  BY <1>5, AnswerKeeps, HearKeeps DEF Page!Answer
<1>6. ASSUME NEW day \in Page!Dates, Page!Query(day) PROVE ReadingInv'
  BY <1>6, QueryKeeps
<1>7. CASE Page!HearDates
  <2>1. Page!Published \subseteq Page!Dates
    BY DEF Page!Published
  <2>2. CASE Page!Published = {}
    BY <1>7, <2>1, <2>2 DEF Page!HearDates, ReadingInv, SnapshotsInv, PageTyped, CallsInv, LatestInv, SoFar, Latest
  <2>3. CASE Page!Published # {}
    <3>1. Page!Newest(Page!Published) \in Page!Published /\ tab \in Page!Tab
      BY <2>1, <2>3, NewestIsThere DEF ReadingInv, PageTyped
    <3>2. /\ asOf' = Page!Newest(Page!Published) /\ dates' = Page!Published /\ dating' = "ready"
          /\ Page!Fetch(Page!Newest(Page!Published), tab) /\ UNCHANGED <<snapshots, reader, tab, shown>>
      BY <1>7, <2>3 DEF Page!HearDates
    <3>3. PageTyped'
      BY <2>1, <3>1, <3>2 DEF ReadingInv, PageTyped, Page!Fetch
    <3>. QED BY <2>1, <3>1, <3>2, <3>3, FetchKeeps
  <2>. QED BY <2>2, <2>3
<1>8. CASE Page!LoseDates
  BY <1>8 DEF Page!LoseDates, ReadingInv, SnapshotsInv, PageTyped, CallsInv, LatestInv, SoFar, Latest
<1>9. ASSUME NEW day \in Page!Dates, Page!SelectDay(day) PROVE ReadingInv'
  <2>1. PageTyped' /\ tab \in Page!Tab
    BY <1>9 DEF Page!SelectDay, ReadingInv, PageTyped, Page!Fetch
  <2>. QED BY <1>9, <2>1, FetchKeeps DEF Page!SelectDay
<1>10. ASSUME NEW which \in Page!Tab, Page!SelectTab(which) PROVE ReadingInv'
  <2>1. PageTyped' /\ asOf \in Page!Dates
    BY <1>10 DEF Page!SelectTab, ReadingInv, PageTyped, Page!Fetch
  <2>. QED BY <1>10, <2>1, FetchKeeps DEF Page!SelectTab
<1>11. CASE Page!Retry
  <2>1. PageTyped' /\ asOf \in Page!Dates /\ tab \in Page!Tab
    BY <1>11 DEF Page!Retry, ReadingInv, PageTyped, Page!Fetch
  <2>. QED BY <1>11, <2>1, FetchKeeps DEF Page!Retry
<1>. QED BY <1>1, <1>2, <1>3, <1>4, <1>5, <1>6, <1>7, <1>8, <1>9, <1>10, <1>11 DEF Page!Next

LEMMA ReadingAlways ==
  ASSUME Page!ReadingAssumption
  PROVE  Page!Spec => []ReadingInv
<1>1. Page!Init => ReadingInv
  BY InitReading
<1>2. ReadingInv /\ [Page!Next]_Page!rvars => ReadingInv'
  BY ReadingStep DEF rvars
<1>. QED BY <1>1, <1>2, PTL DEF Page!Spec

(* Every reachable state of a page, a query and the run they read beside   *)
(* is well typed, for any days and readers.                                *)
THEOREM ReadingTypeCorrect ==
  ASSUME Page!ReadingAssumption
  PROVE  Page!Spec => []Page!TypeOK
<1>1. ReadingInv => Page!TypeOK
  BY DEF ReadingInv, SnapshotsInv, PageTyped, CallsInv, Request, Value, Page!TypeOK
<1>. QED BY <1>1, ReadingAlways, PTL

(* However often a page that numbers its requests asks, in whatever order  *)
(* the answers arrive, and whichever get lost: once it has stopped waiting *)
(* it tells what the latest request brought, about the day and the tab     *)
(* that are selected (StockProfilePage.tsx, StrategyPage.tsx).             *)
THEOREM GuardedPagesTell ==
  ASSUME Page!ReadingAssumption
  PROVE  Page!Spec => []GuardedTellSelection
<1>1. ReadingInv => GuardedTellSelection
  BY DEF ReadingInv, LatestInv, GuardedTellSelection, PageTyped
<1>. QED BY <1>1, ReadingAlways, PTL

(* Whatever the run writes between two reads of a route, and wherever it   *)
(* is killed: an overview with candidates has the regime of its day, and a *)
(* profile the factors of its day (api/app.py, cli/discovery_commands.py). *)
THEOREM NoAnswerIsPartial ==
  ASSUME Page!ReadingAssumption
  PROVE  Page!Spec => []AnswersAreWhole
<1>1. ReadingInv => AnswersAreWhole
  BY DEF ReadingInv, SoFar, AnswersAreWhole
<1>. QED BY <1>1, ReadingAlways, PTL
=============================================================================
