-------------------------- MODULE BootstrapHistory --------------------------
(***************************************************************************)
(* The cold start of price history: _extend_history and land_bar_chunks    *)
(* (data/bootstrap.py) over the run's checkpoint directory                 *)
(* (data/bootstrap_checkpoint.py), with crashes and reruns.                *)
(*                                                                         *)
(* On disk a run keeps one part file per symbol that answered, a manifest  *)
(* that is rewritten once per FlushEvery records, and the market-wide      *)
(* daily_bars.csv the parts are merged into.  In memory it keeps the       *)
(* manifest's entries and what it is doing.  A crash loses the memory.     *)
(*                                                                         *)
(* A bar is its day, counted back from the end date (0 is the end date);   *)
(* files are sets of days per symbol.  Every file write goes through a     *)
(* temporary file and os.replace, so it is one step.  The scheduler is     *)
(* used through its promise, FetchRound.  Left out: what an entry says     *)
(* besides its status, and rows of the file later than the end date.       *)
(*                                                                         *)
(* A definition whose name ends in an underscore and a word is a plausible *)
(* slip in the definition after it. No action uses one; each shows that a  *)
(* property would notice it.                                               *)
(***************************************************************************)
EXTENDS Integers, FiniteSets

CONSTANTS
  Symbol,         \* the symbols of the run
  Width,          \* max_inflight of the scheduler
  NoSymbol,       \* "no symbol"
  Day,            \* the days, as calendar days before the end date
  BarsRequired,   \* requirement.required_valid_bars
  DaysPerBar,     \* CALENDAR_DAYS_PER_REQUIRED_BAR
  FlushEvery,     \* MANIFEST_FLUSH_EVERY
  Sources,        \* what the source may hold: Symbol -> Day -> Cell
  Troubles,       \* may calls fail and answers be partial? what is possible
  Failures,       \* how a call may fail then, a subset of FailedState
  UseBatch,       \* is there a batch source?
  MaxStarts       \* bound: how often the process is started

Cell == {"none", "blank", "bar"}  \* no row, a row without value, a usable bar
FailedState == {"EMPTY", "TIMEOUT", "SOURCE_ERROR"}
EntryState == FailedState \cup {"SUCCESS", "ABSENT"}

ASSUME WidthPositive == Width \in Nat \ {0}
ASSUME SymbolsFinite == IsFiniteSet(Symbol)
ASSUME NoSymbolIsNone == NoSymbol \notin Symbol
ASSUME DaysAreNat == Day \subseteq Nat /\ IsFiniteSet(Day)
ASSUME SizesPositive ==
  /\ BarsRequired \in Nat \ {0}
  /\ DaysPerBar \in Nat \ {0}
  /\ FlushEvery \in Nat \ {0}
  /\ MaxStarts \in Nat
ASSUME SourcesTyped == Sources \subseteq [Symbol -> [Day -> Cell]]
ASSUME SwitchesTyped ==
  /\ Troubles \subseteq BOOLEAN
  /\ UseBatch \in BOOLEAN
  /\ Failures \subseteq FailedState

VARIABLES
  source,     \* what the source holds
  troubled,   \* may its calls fail, and its answers hold some of the bars only?
  parts,      \* bootstrap/<as-of>/parts/<symbol>.csv ({}: no such file)
  manifest,   \* bootstrap/<as-of>/manifest.json
  canonical,  \* daily_bars.csv
  entries,    \* BootstrapCheckpoint._entries
  unflushed,  \* BootstrapCheckpoint._unflushed
  stage,      \* where the process is
  window,     \* start_date of the round, in days before the end date
  short,      \* symbols the loop still works on
  gaps,       \* symbols of the round the source was not heard of
  silent,     \* timeouts since the source's last answer
  staged,     \* symbol whose part is written and not recorded, or NoSymbol
  counts,     \* the last measured bar counts
  failed,     \* the run's failed symbols
  starts      \* how often the process was started

outside == <<source, troubled>>
disk   == <<parts, manifest, canonical>>
memory == <<entries, unflushed, stage, window, short, gaps, silent, staged,
            counts, failed>>
vars   == <<outside, disk, memory, starts>>

Stages == {"down", "open", "adopt", "measure0", "land", "batch", "fallback",
           "flush", "compact", "measure", "finish", "done"}

TypeOK ==
  /\ source \in Sources
  /\ troubled \in Troubles
  /\ parts \in [Symbol -> SUBSET Day]
  /\ manifest \in [Symbol -> EntryState]
  /\ canonical \in [Symbol -> SUBSET Day]
  /\ entries \in [Symbol -> EntryState]
  /\ unflushed \in 0 .. FlushEvery - 1
  /\ stage \in Stages
  /\ window \in Nat
  /\ short \subseteq Symbol
  /\ gaps \subseteq Symbol
  /\ silent \in Nat
  /\ staged \in Symbol \cup {NoSymbol}
  /\ counts \in [Symbol -> Nat]
  /\ failed \subseteq Symbol
  /\ starts \in Nat

-----------------------------------------------------------------------------
(* The source and the files. *)

Rows(s)   == {d \in Day : source[s][d] # "none"}
Valued(s) == {d \in Day : source[s][d] = "bar"}

(* The rows a fetch of the window may bring; an empty answer is no answer. *)
Full(s) == {d \in Rows(s) : d <= window}
Answers_EvenEmpty(s) ==  \* an empty answer passes for a success
  IF troubled THEN SUBSET Full(s) ELSE {Full(s)}

Answers(s) ==
  (IF troubled THEN SUBSET Full(s) ELSE {Full(s)}) \ {{}}

(* The rows reach from the window's start to the end date. *)
Covers(rows) == (\E d \in rows : d >= window) /\ 0 \in rows

BarCounts_AnyRow(file) == [s \in Symbol |-> Cardinality(file[s])]
BarCounts(file) == [s \in Symbol |-> Cardinality(file[s] \cap Valued(s))]

IsLandedEvidence_NeedsEntry(s) == entries[s] = "SUCCESS"

(* compact_bootstrap_run merges the parts with no entry or a success. *)
IsLandedEvidence(s) == entries[s] \in {"SUCCESS", "ABSENT"}
Compacted_PartOnly ==  \* the part replaces the symbol's rows
  [s \in Symbol |->
     IF IsLandedEvidence(s) /\ parts[s] # {} THEN parts[s] ELSE canonical[s]]

Compacted ==
  [s \in Symbol |->
     IF IsLandedEvidence(s) THEN canonical[s] \cup parts[s] ELSE canonical[s]]

(* A symbol is skipped when the market file, or a part that counts as      *)
(* landed, already covers the window.                                      *)
Skipped(s) ==
  \/ Covers(canonical[s])
  \/ IsLandedEvidence(s) /\ Covers(parts[s])

Step == BarsRequired * DaysPerBar

ShortIn(S, c) == {s \in S : c[s] < BarsRequired}

Round == INSTANCE FetchRound WITH
           MaxInflight <- Width, waiting <- gaps, open <- stage = "fallback"

-----------------------------------------------------------------------------
(* The checkpoint. *)

FlushDue_Late == unflushed >= FlushEvery
FlushDue == unflushed + 1 >= FlushEvery

(* _record: the manifest is rewritten when enough entries have gathered.   *)
Record(s, state) ==
  /\ entries' = [entries EXCEPT ![s] = state]
  /\ \/ /\ ~FlushDue
        /\ unflushed' = unflushed + 1
        /\ UNCHANGED manifest
     \/ /\ FlushDue
        /\ unflushed' = 0
        /\ manifest' = entries'

Flush ==
  /\ unflushed' = 0
  /\ manifest' = IF unflushed = 0 THEN manifest ELSE entries
  /\ UNCHANGED entries

Init ==
  /\ source \in Sources
  /\ troubled \in Troubles
  /\ parts = [s \in Symbol |-> {}]
  /\ manifest = [s \in Symbol |-> "ABSENT"]
  /\ canonical = [s \in Symbol |-> {}]
  /\ entries = [s \in Symbol |-> "ABSENT"]
  /\ unflushed = 0
  /\ stage = "down"
  /\ window = 0
  /\ short = {} /\ gaps = {} /\ silent = 0 /\ staged = NoSymbol
  /\ counts = [s \in Symbol |-> 0]
  /\ failed = {}
  /\ starts = 0

-----------------------------------------------------------------------------
(* _extend_history up to its loop. *)

ResetMemory(known, start) ==
  /\ entries' = known
  /\ unflushed' = 0
  /\ window' = start
  /\ short' = {} /\ gaps' = {} /\ silent' = 0 /\ staged' = NoSymbol
  /\ counts' = [s \in Symbol |-> 0]
  /\ failed' = {}

Start ==
  /\ stage \in {"down", "done"}
  /\ starts < MaxStarts
  /\ starts' = starts + 1
  /\ stage' = "open"
  /\ ResetMemory(manifest, Step)
  /\ UNCHANGED <<outside, disk>>

CompactOnOpen ==
  /\ stage = "open"
  /\ stage' = "adopt"
  /\ canonical' = Compacted
  /\ UNCHANGED <<outside, parts, manifest, entries, unflushed, window, short,
                 gaps, silent, staged, counts, failed, starts>>

(* adopt_staged_parts: a part with no entry is entered as a success.       *)
Orphans == {s \in Symbol : parts[s] # {} /\ entries[s] = "ABSENT"}

AdoptPart(s) ==
  /\ stage = "adopt"
  /\ s \in Orphans
  /\ Record(s, "SUCCESS")
  /\ UNCHANGED <<outside, parts, canonical, stage, window, short, gaps,
                 silent, staged, counts, failed, starts>>

EndAdoption ==
  /\ stage = "adopt"
  /\ Orphans = {}
  /\ Flush
  /\ stage' = "measure0"
  /\ UNCHANGED <<outside, parts, canonical, window, short, gaps, silent,
                 staged, counts, failed, starts>>

MeasureFirst ==
  /\ stage = "measure0"
  /\ counts' = BarCounts(canonical)
  /\ short' = ShortIn(Symbol, counts')
  /\ stage' = IF short' = {} THEN "finish" ELSE "land"
  /\ UNCHANGED <<outside, disk, entries, unflushed, window, gaps, silent,
                 staged, failed, starts>>

-----------------------------------------------------------------------------
(* land_bar_chunks, one call per round of the loop. Its own adoption of    *)
(* parts without an entry finds none, EndAdoption having left none.        *)

BeginLanding ==
  /\ stage = "land"
  /\ gaps' = {s \in short : ~Skipped(s)}
  /\ silent' = 0
  /\ stage' = IF UseBatch THEN "batch" ELSE "fallback"
  /\ UNCHANGED <<outside, disk, entries, unflushed, window, short, staged,
                 counts, failed, starts>>

(* record_success writes the part first and the entry after it. *)
StagePart(s) ==
  /\ stage \in {"batch", "fallback"}
  /\ staged = NoSymbol
  /\ s \in gaps
  /\ \E rows \in Answers(s) : parts' = [parts EXCEPT ![s] = rows]
  /\ staged' = s
  /\ UNCHANGED <<outside, manifest, canonical, entries, unflushed, stage,
                 window, short, gaps, silent, counts, failed, starts>>

RecordBatchPart(s) ==
  /\ stage = "batch" /\ staged = s
  /\ Record(s, "SUCCESS")
  /\ gaps' = gaps \ {s}
  /\ staged' = NoSymbol
  /\ UNCHANGED <<outside, parts, canonical, stage, window, short, silent,
                 counts, failed, starts>>

EndBatchChunk ==  \* the manifest is flushed after each chunk
  /\ stage = "batch" /\ staged = NoSymbol
  /\ Flush
  /\ stage' \in {"batch", "fallback"}
  /\ UNCHANGED <<outside, parts, canonical, window, short, gaps, silent,
                 staged, counts, failed, starts>>

RecordFetchedPart(s) ==
  /\ stage = "fallback" /\ staged = s
  /\ Record(s, "SUCCESS")
  /\ staged' = NoSymbol
  /\ UNCHANGED <<outside, parts, canonical, stage, window, short, counts,
                 failed, starts>>
  /\ Round!Answered(s)

(* What the round learns of a failure: the symbol is done with for now.    *)
FailureHeard_Retried(s, state) == UNCHANGED <<gaps, silent>>
FailureHeard(s, state) ==
  IF state = "TIMEOUT" THEN Round!TimedOut(s) ELSE Round!Answered(s)

RecordFailure(s, state) ==
  /\ stage = "fallback" /\ staged = NoSymbol /\ s \in gaps
  /\ (troubled /\ state \in Failures) \/ (state = "EMPTY" /\ Full(s) = {})
  /\ Record(s, state)
  /\ failed' = failed \cup {s}
  /\ UNCHANGED <<outside, parts, canonical, stage, window, short, staged,
                 counts, starts>>
  /\ FailureHeard(s, state)

EndFallback ==
  /\ stage = "fallback" /\ staged = NoSymbol
  /\ stage' = "flush"
  /\ Round!Close
  /\ UNCHANGED <<outside, disk, entries, unflushed, window, short, staged,
                 counts, failed, starts>>

FlushLanding ==
  /\ stage = "flush"
  /\ Flush
  /\ stage' = "compact"
  /\ UNCHANGED <<outside, parts, canonical, window, short, gaps, silent,
                 staged, counts, failed, starts>>

CompactLanding ==
  /\ stage = "compact"
  /\ canonical' = Compacted
  /\ stage' = "measure"
  /\ UNCHANGED <<outside, parts, manifest, entries, unflushed, window, short,
                 gaps, silent, staged, counts, failed, starts>>

-----------------------------------------------------------------------------
(* The loop's decision, and the end of the run. *)

AddedNothing == \A s \in short : counts'[s] = counts[s]

Measure ==
  /\ stage = "measure"
  /\ counts' = BarCounts(canonical)
  /\ LET stillShort == ShortIn(short, counts') IN
     \/ /\ stillShort = {} \/ AddedNothing
        /\ stage' = "finish"
        /\ UNCHANGED <<short, window>>
     \/ /\ stillShort # {} /\ ~AddedNothing
        /\ stage' = "land"
        /\ short' = stillShort
        /\ window' = window + Step
  /\ UNCHANGED <<outside, disk, entries, unflushed, gaps, silent, staged,
                 failed, starts>>

Finish ==
  /\ stage = "finish"
  /\ canonical' = Compacted
  /\ stage' = "done"
  /\ UNCHANGED <<outside, parts, manifest, entries, unflushed, window, short,
                 gaps, silent, staged, counts, failed, starts>>

(* The process dies (or an exception leaves the run): memory is gone.      *)
Crash ==
  /\ stage \notin {"down", "done"}
  /\ stage' = "down"
  /\ ResetMemory([s \in Symbol |-> "ABSENT"], 0)
  /\ UNCHANGED <<outside, disk, starts>>

Run ==
  \/ CompactOnOpen \/ EndAdoption \/ MeasureFirst
  \/ BeginLanding \/ EndBatchChunk \/ EndFallback
  \/ FlushLanding \/ CompactLanding \/ Measure \/ Finish
  \/ \E s \in Symbol :
       \/ AdoptPart(s) \/ StagePart(s)
       \/ RecordBatchPart(s) \/ RecordFetchedPart(s)
       \/ \E state \in FailedState : RecordFailure(s, state)

Next == Start \/ Run \/ Crash

(* A process that runs and does not crash keeps taking steps: FetchRound   *)
(* always returns (BootstrapScheduler!AlwaysReturns), and each other step   *)
(* is a bounded piece of local work.                                       *)
Fairness == WF_vars(Run)

Spec == Init /\ [][Next]_vars
FairSpec == Spec /\ Fairness

-----------------------------------------------------------------------------
(* The properties. *)

(* A success in the manifest on disk always has its part on disk: the part *)
(* is written before the entry, whatever the flushes and crashes between.  *)
SuccessHasPart ==
  \A s \in Symbol : manifest[s] = "SUCCESS" => parts[s] # {}

(* Parts and market file only ever hold rows the source delivered; a       *)
(* failure never turns into data.                                          *)
NothingInvented ==
  \A s \in Symbol : parts[s] \cup canonical[s] \subseteq Rows(s)

(* When a run ends, the coverage it returns (counts measured before the    *)
(* last compaction) is the usable bars the market file then holds.         *)
ReportHonest ==
  stage = "done" =>
    \A s \in Symbol : counts[s] = Cardinality(canonical[s] \cap Valued(s))

(* When a run ends, the manifest on disk knows every symbol that has a     *)
(* part or failed, and says so of each in the way the run saw it.          *)
ManifestComplete ==
  stage = "done" =>
    /\ manifest = entries
    /\ \A s \in Symbol : parts[s] # {} \/ s \in failed
                           => manifest[s] # "ABSENT"

(* No call fails, and the source has a usable bar in every step back for   *)
(* as long as it has any further back, and a row in the first step if it   *)
(* has one at all.                                                         *)
Steady ==
  /\ ~troubled
  /\ \A s \in Symbol :
       /\ Rows(s) # {} => \E d \in Rows(s) : d <= Step
       /\ \A v \in Valued(s) : \A back \in 0 .. v :
            v > back * Step =>
              \E d \in Valued(s) : /\ back = 0 \/ d > back * Step
                                   /\ d <= (back + 1) * Step

(* Whatever a run staged is in the market file before the next decision    *)
(* about what to fetch, crashes included.                                  *)
StagedIsMerged ==
  stage = "land" => \A s \in Symbol : parts[s] \subseteq canonical[s]

(* The market file never loses a row, though parts are overwritten by      *)
(* answers that may hold fewer rows.                                       *)
CanonicalOnlyGrows ==
  [][\A s \in Symbol : canonical[s] \subseteq canonical'[s]]_vars

(* "The loop stops when a widening round adds nothing: the source has no   *)
(* more history to give": a run in which nothing failed leaves a symbol    *)
(* short only if every usable bar of the source has landed.                *)
ShortMeansExhausted ==
  stage = "done" /\ failed = {} =>
    \A s \in ShortIn(Symbol, counts) : Valued(s) \subseteq canonical[s]

(* The same of a first run that was not interrupted. *)
FirstShortMeansExhausted == starts = 1 => ShortMeansExhausted

(* A part that reaches back far enough is not fetched again.               *)
NothingTwice == \A s \in Symbol : StagePart(s) => ~Covers(parts[s])

(* Nothing that is staged is forgotten: it is merged before the next       *)
(* decision, it is not fetched again, and a first run reports a symbol     *)
(* short only when the source has no more (_extend_history).               *)
RunResumes ==
  /\ [](Steady => StagedIsMerged /\ FirstShortMeansExhausted)
  /\ [][Steady => NothingTwice]_vars

(* What is on disk is true, at every moment.                               *)
DiskTellsTruth == SuccessHasPart /\ NothingInvented

(* What a run leaves behind is true when it ends: the coverage it returns  *)
(* and the manifest it leaves.                                             *)
RunTellsTruth == ReportHonest /\ ManifestComplete

(* Every run that is not interrupted comes to its end: the widening loop   *)
(* terminates.                                                             *)
RunEnds == (stage # "down") ~> (stage \in {"down", "done"})
=============================================================================
