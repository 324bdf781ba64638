---------------------------- MODULE DailyPipeline ----------------------------
(***************************************************************************)
(* run_daily (pipelines/daily.py) over the JSON snapshot store             *)
(* (data/snapshots/store.py) and the JSON job store (jobs/store.py), for   *)
(* one date: runs that follow one another or race, crashes at any point,   *)
(* and raw inputs that are landed again at any moment.                     *)
(*                                                                         *)
(* A snapshot is what it was computed from: a function from the inputs its *)
(* stage reads to their versions. Two snapshots have the same content when *)
(* they are the same function. A handler that raises does so because of    *)
(* the bars it was given (Unfit).                                          *)
(*                                                                         *)
(* Both stores look before they write and write in place: the file is      *)
(* truncated first and filled after that, so a crash between the two       *)
(* leaves a torn file, which the next reader cannot parse.                 *)
(*                                                                         *)
(* Left out: the counts, notes and times of a job run, what a run returns  *)
(* to its caller, and runs of other dates, which share no file with this   *)
(* one. Two runs that fill one file at once leave the later content.       *)
(*                                                                         *)
(* A definition whose name ends in an underscore and a word is a plausible *)
(* slip in the definition after it. No action uses one; each shows that a  *)
(* property would notice it.                                               *)
(***************************************************************************)
EXTENDS Naturals, Sequences

CONSTANTS
  Run,                  \* the processes that may run the pipeline
  Version,              \* the versions an input may have
  SyncGiven,            \* may a run be given a sync (--sync), or not?
  QualifiersConfigured, \* qualification rules and a candidate policy exist
  Unfit,                \* <<stage, version of the bars>>: the handler raises
  MaxStarts,            \* bound: how often a process is started
  None,                 \* no file, nothing read
  Torn                  \* a file that was truncated and not filled

Order == <<"SYNC_DATA", "NORMALIZE", "COMPUTE_FACTORS", "BUILD_UNIVERSE",
           "RUN_STRATEGIES", "DETECT_REGIME", "MARKET_VALIDATE",
           "RUN_SIGNALS", "BUILD_CANDIDATES", "UPDATE_WATCHLIST",
           "GENERATE_DAILY_SNAPSHOT">>

Positions == 1 .. 11
Stage     == {Order[i] : i \in Positions}
Status    == {"SUCCEEDED", "FAILED", "BLOCKED", "SKIPPED"}
Input     == {"bars", "securities", "market"}
Kind      == {"FACTOR", "UNIVERSE", "STRATEGY", "MARKET_REGIME", "CANDIDATE"}

(* The stage that writes a kind, and the inputs its content depends on:    *)
(* the benchmark and the industry map are the input "market".              *)
Writer == [FACTOR |-> 3, UNIVERSE |-> 4, STRATEGY |-> 5,
           MARKET_REGIME |-> 6, CANDIDATE |-> 9]

Reads == [FACTOR        |-> {"bars"},
          UNIVERSE      |-> {"bars", "securities"},
          STRATEGY      |-> {"bars", "securities"},
          MARKET_REGIME |-> {"bars", "market"},
          CANDIDATE     |-> {"bars", "securities", "market"}]

Content == UNION {[Reads[k] -> Version] : k \in Kind}
Entry   == [stage : Stage, status : Status]

ASSUME UnfitTyped == Unfit \subseteq Stage \X Version
ASSUME SwitchesTyped == /\ SyncGiven \subseteq BOOLEAN
                        /\ QualifiersConfigured \in BOOLEAN
                        /\ MaxStarts \in Nat
ASSUME NoneAndTornAreNoContent ==
  /\ None # Torn
  /\ None \notin Content \cup Version \cup Status
  /\ Torn \notin Content

VARIABLES
  raw,        \* the inputs on disk
  snapshots,  \* data/snapshots/<kind>/<date>.json
  manifest,   \* var/jobs/<date>.json: the entries, or Torn
  at,         \* which stage a run is at
  step,       \* where in that stage it is
  read,       \* the inputs the run has read
  verdict,    \* the stage's status, once it has one
  seen,       \* the entries the job store read
  starts      \* how often a process was started

files == <<raw, snapshots, manifest>>
vars  == <<files, at, step, read, verdict, seen, starts>>

Steps == {"down", "stage", "check", "open", "fill",
          "look", "truncate", "record"}

TypeOK ==
  /\ raw \in [Input -> Version]
  /\ snapshots \in [Kind -> Content \cup {None, Torn}]
  /\ manifest \in Seq(Entry) \cup {Torn}
  /\ at \in [Run -> Positions]
  /\ step \in [Run -> Steps]
  /\ read \in [Run -> [Input -> Version \cup {None}]]
  /\ verdict \in [Run -> Status \cup {None}]
  /\ seen \in [Run -> Seq(Entry)]
  /\ starts \in Nat

Init ==
  /\ raw \in [Input -> Version]
  /\ snapshots = [k \in Kind |-> None]
  /\ manifest = <<>>
  /\ at = [r \in Run |-> 1]
  /\ step = [r \in Run |-> "down"]
  /\ read = [r \in Run |-> [i \in Input |-> None]]
  /\ verdict = [r \in Run |-> None]
  /\ seen = [r \in Run |-> <<>>]
  /\ starts = 0

-----------------------------------------------------------------------------
(* A run begins. The benchmark and the industry map are read here, before  *)
(* the first stage.                                                        *)

Begin(r) ==
  /\ step[r] = "down"
  /\ starts < MaxStarts
  /\ starts' = starts + 1
  /\ step' = [step EXCEPT ![r] = "stage"]
  /\ at' = [at EXCEPT ![r] = 1]
  /\ read' = [read EXCEPT ![r] =
                [i \in Input |-> IF i = "market" THEN raw[i] ELSE None]]
  /\ verdict' = [verdict EXCEPT ![r] = None]
  /\ seen' = [seen EXCEPT ![r] = <<>>]
  /\ UNCHANGED files

-----------------------------------------------------------------------------
(* _execute: one stage up to its verdict. *)

stageOf(r) == Order[at[r]]

Blocked(stage) ==
  \/ stage = "UPDATE_WATCHLIST"
  \/ /\ stage \in {"MARKET_VALIDATE", "RUN_SIGNALS", "BUILD_CANDIDATES"}
     /\ ~QualifiersConfigured

Raises(r, stage, input) == <<stage, input["bars"]>> \in Unfit

Conclude(r, status) ==
  /\ verdict' = [verdict EXCEPT ![r] = status]
  /\ step' = [step EXCEPT ![r] = "look"]

SkipSync(r) ==
  /\ step[r] = "stage" /\ stageOf(r) = "SYNC_DATA"
  /\ FALSE \in SyncGiven
  /\ Conclude(r, "SKIPPED")
  /\ UNCHANGED <<files, at, read, seen, starts>>

(* The sync lands bars and securities, each or neither, or raises.         *)
Sync(r) ==
  /\ step[r] = "stage" /\ stageOf(r) = "SYNC_DATA"
  /\ TRUE \in SyncGiven
  /\ \/ /\ Conclude(r, "SUCCEEDED")
        /\ \E b, s \in Version :
             raw' = [raw EXCEPT !["bars"] = b, !["securities"] = s]
     \/ Conclude(r, "FAILED") /\ UNCHANGED raw
  /\ UNCHANGED <<snapshots, manifest, at, read, seen, starts>>

Block(r) ==
  /\ step[r] = "stage" /\ Blocked(stageOf(r))
  /\ Conclude(r, "BLOCKED")
  /\ UNCHANGED <<files, at, read, seen, starts>>

Normalize(r) ==
  /\ step[r] = "stage" /\ stageOf(r) = "NORMALIZE"
  /\ \/ /\ Raises(r, "NORMALIZE", raw)
        /\ Conclude(r, "FAILED")
        /\ UNCHANGED read
     \/ /\ ~Raises(r, "NORMALIZE", raw)
        /\ Conclude(r, "SUCCEEDED")
        /\ read' = [read EXCEPT ![r] =
                      [raw EXCEPT !["market"] = read[r]["market"]]]
  /\ UNCHANGED <<files, at, seen, starts>>

(* The stages that write no snapshot. *)
Silent(stage) ==
  stage \in {"MARKET_VALIDATE", "RUN_SIGNALS", "GENERATE_DAILY_SNAPSHOT"}

Judge(r) ==
  /\ step[r] = "stage" /\ Silent(stageOf(r)) /\ ~Blocked(stageOf(r))
  /\ Conclude(r, IF Raises(r, stageOf(r), read[r])
                 THEN "FAILED" ELSE "SUCCEEDED")
  /\ UNCHANGED <<files, at, read, seen, starts>>

(* The stages that do: the content is computed, then the store is asked.   *)
Kinds(r) == {k \in Kind : Writer[k] = at[r]}

Compute(r) ==
  /\ step[r] = "stage" /\ Kinds(r) # {} /\ ~Blocked(stageOf(r))
  /\ \/ /\ Raises(r, stageOf(r), read[r])
        /\ Conclude(r, "FAILED")
     \/ /\ ~Raises(r, stageOf(r), read[r])
        /\ step' = [step EXCEPT ![r] = "check"]
        /\ UNCHANGED verdict
  /\ UNCHANGED <<files, at, read, seen, starts>>

-----------------------------------------------------------------------------
(* JsonSnapshotStore.write. *)

Computed(r, k) == [i \in Reads[k] |-> read[r][i]]

Absent(r, k) == snapshots[k] = None

Answer_FirstWins(r, k) ==  \* what differs is left alone and taken for written
  IF snapshots[k] # Torn THEN "SUCCEEDED" ELSE "FAILED"
Answer_TornPasses(r, k) ==  \* a file that does not parse passes for written
  IF snapshots[k] \in {Torn, Computed(r, k)} THEN "SUCCEEDED" ELSE "FAILED"

(* A file with the same content is left alone; another content is a        *)
(* conflict and a torn file does not parse: both raise.                    *)
Answer(r, k) ==
  IF snapshots[k] = Computed(r, k) THEN "SUCCEEDED" ELSE "FAILED"

CheckSnapshot(r, k) ==
  /\ step[r] = "check" /\ k \in Kinds(r)
  /\ \/ /\ Absent(r, k)
        /\ step' = [step EXCEPT ![r] = "open"]
        /\ UNCHANGED verdict
     \/ /\ ~Absent(r, k)
        /\ Conclude(r, Answer(r, k))
  /\ UNCHANGED <<files, at, read, seen, starts>>

OpenSnapshot(r, k) ==
  /\ step[r] = "open" /\ k \in Kinds(r)
  /\ snapshots' = [snapshots EXCEPT ![k] = Torn]
  /\ step' = [step EXCEPT ![r] = "fill"]
  /\ UNCHANGED <<raw, manifest, at, read, verdict, seen, starts>>

FillSnapshot(r, k) ==
  /\ step[r] = "fill" /\ k \in Kinds(r)
  /\ snapshots' = [snapshots EXCEPT ![k] = Computed(r, k)]
  /\ Conclude(r, "SUCCEEDED")
  /\ UNCHANGED <<raw, manifest, at, read, seen, starts>>

-----------------------------------------------------------------------------
(* JsonJobStore.record, and the pipeline's decision after it.              *)

Replaced_Never(entries, entry) == Append(entries, entry)

(* An entry of the same stage is replaced where it stands. *)
Replaced(entries, entry) ==
  IF \E i \in DOMAIN entries : entries[i].stage = entry.stage
  THEN [i \in DOMAIN entries |->
          IF entries[i].stage = entry.stage THEN entry ELSE entries[i]]
  ELSE Append(entries, entry)

LookAtManifest(r) ==
  /\ step[r] = "look" /\ manifest # Torn
  /\ seen' = [seen EXCEPT ![r] = manifest]
  /\ step' = [step EXCEPT ![r] = "truncate"]
  /\ UNCHANGED <<files, at, read, verdict, starts>>

(* A manifest that does not parse raises out of run_daily. *)
AbandonRun(r) ==
  /\ step[r] = "look" /\ manifest = Torn
  /\ step' = [step EXCEPT ![r] = "down"]
  /\ UNCHANGED <<files, at, read, verdict, seen, starts>>

TruncateManifest(r) ==
  /\ step[r] = "truncate"
  /\ manifest' = Torn
  /\ step' = [step EXCEPT ![r] = "record"]
  /\ UNCHANGED <<raw, snapshots, at, read, verdict, seen, starts>>

NextPosition(r) == at[r] + 1

Over_KeepsGoing(r) == at[r] = Len(Order)

(* A failed stage stops the run; a blocked or skipped one does not.        *)
Over(r) == verdict[r] = "FAILED" \/ at[r] = Len(Order)

RecordVerdict(r) ==
  /\ step[r] = "record"
  /\ manifest' = Replaced(seen[r],
                          [stage |-> stageOf(r), status |-> verdict[r]])
  /\ \/ /\ Over(r)
        /\ step' = [step EXCEPT ![r] = "down"]
        /\ UNCHANGED <<at, verdict>>
     \/ /\ ~Over(r)
        /\ step' = [step EXCEPT ![r] = "stage"]
        /\ at' = [at EXCEPT ![r] = NextPosition(r)]
        /\ verdict' = [verdict EXCEPT ![r] = None]
  /\ UNCHANGED <<raw, snapshots, read, seen, starts>>

-----------------------------------------------------------------------------
(* Another command lands one input; the process dies.                      *)

Land(i, v) ==
  /\ raw[i] # v
  /\ raw' = [raw EXCEPT ![i] = v]
  /\ UNCHANGED <<snapshots, manifest, at, step, read, verdict, seen, starts>>

Crash(r) ==
  /\ step[r] # "down"
  /\ step' = [step EXCEPT ![r] = "down"]
  /\ UNCHANGED <<files, at, read, verdict, seen, starts>>

Pipeline(r) ==
  \/ SkipSync(r) \/ Sync(r) \/ Block(r) \/ Normalize(r) \/ Judge(r) \/ Compute(r)
  \/ \E k \in Kind : CheckSnapshot(r, k) \/ OpenSnapshot(r, k) \/ FillSnapshot(r, k)
  \/ LookAtManifest(r) \/ AbandonRun(r) \/ TruncateManifest(r) \/ RecordVerdict(r)

Next ==
  \/ \E r \in Run : Begin(r) \/ Pipeline(r) \/ Crash(r)
  \/ \E i \in Input, v \in Version : Land(i, v)

Spec == Init /\ [][Next]_vars

-----------------------------------------------------------------------------
(* The properties. *)

Written(k) == snapshots[k] \notin {None, Torn}

(* Everything the day's snapshots say was computed from the same bars, the *)
(* same securities and the same market data, however many runs contributed *)
(* and whatever was landed between and during them.                        *)
DayAgrees ==
  \A j, k \in Kind : Written(j) /\ Written(k) =>
    \A i \in Reads[j] \cap Reads[k] : snapshots[j][i] = snapshots[k][i]

(* A stage the manifest calls a success has its snapshot, complete, in the *)
(* store: also after later runs that failed, crashed or were abandoned.    *)
SuccessHasSnapshot ==
  manifest # Torn =>
    \A i \in DOMAIN manifest, k \in Kind :
      /\ manifest[i].stage = Order[Writer[k]]
      /\ manifest[i].status = "SUCCEEDED"
      => Written(k)

(* The manifest reads as an execution order: one verdict per stage, and    *)
(* the stages in the order of the pipeline with none left out.             *)
ManifestReadable ==
  manifest # Torn =>
    /\ Len(manifest) <= Len(Order)
    /\ \A i \in DOMAIN manifest : manifest[i].stage = Order[i]

(* "Rerunning the same day with the same data still succeeds": while no    *)
(* input is ever unfit or changed, no stage fails.                         *)
SameDataSucceeds == \A r \in Run : verdict[r] # "FAILED"

(* A snapshot that is complete is never changed: identical content leaves  *)
(* the file alone and different content is refused.                        *)
NoSilentOverwrite ==
  [][\A k \in Kind : Written(k) => snapshots'[k] = snapshots[k]]_vars

(* The pipeline keeps the promise of DayRecord.                            *)
KindsBefore == [k \in Kind |-> {j \in Kind : Writer[j] < Writer[k]}]

Promise == INSTANCE DayRecord WITH
             Before <- KindsBefore,
             record <- [k \in Kind |-> IF Written(k) THEN snapshots[k] ELSE None]

ImplementsDayRecord == Promise!Spec
=============================================================================
