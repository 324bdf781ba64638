----------------------- MODULE BootstrapHistory_proofs -----------------------
(***************************************************************************)
(* Theorems about BootstrapHistory for any symbols, days, source, flush    *)
(* interval and any number of crashes and reruns.                          *)
(***************************************************************************)
EXTENDS BootstrapHistory, FiniteSetTheorems, TLAPS

USE DEF outside

-----------------------------------------------------------------------------
(* The pieces every step is built from. *)

(* Counting the usable bars of any file of days gives a number per symbol. *)
LEMMA BarCountsType ==
  ASSUME NEW file \in [Symbol -> SUBSET Day]
  PROVE  BarCounts(file) \in [Symbol -> Nat]
<1>1. ASSUME NEW s \in Symbol
      PROVE  Cardinality(file[s] \cap Valued(s)) \in Nat
  <2>1. file[s] \cap Valued(s) \in SUBSET Day
    OBVIOUS
  <2>2. IsFiniteSet(file[s] \cap Valued(s))
    BY <2>1, DaysAreNat, FS_Subset
  <2> QED BY <2>2, FS_CardinalityType
<1> QED BY <1>1 DEF BarCounts

(* A compaction gives a file that contains the one it replaces.            *)
LEMMA CompactedGrows ==
  ASSUME TypeOK
  PROVE  /\ Compacted \in [Symbol -> SUBSET Day]
         /\ \A s \in Symbol :
              /\ canonical[s] \subseteq Compacted[s]
              /\ Compacted[s] \subseteq canonical[s] \cup parts[s]
              /\ IsLandedEvidence(s) => parts[s] \subseteq Compacted[s]
              /\ IsLandedEvidence(s) /\ parts[s] \subseteq canonical[s]
                   => Compacted[s] = canonical[s]
              /\ ~IsLandedEvidence(s) => Compacted[s] = canonical[s]
BY DEF TypeOK, Compacted

(* An answer is a non-empty set of rows the source holds. *)
LEMMA AnswersAreRows ==
  ASSUME NEW s \in Symbol, NEW rows \in Answers(s)
  PROVE  rows # {} /\ rows \subseteq Rows(s) /\ rows \subseteq Day
BY DEF Answers, Full, Rows

(* Recording an entry keeps the checkpoint well typed; the manifest on     *)
(* disk either stays or becomes the new entries.                           *)
LEMMA RecordKeepsType ==
  ASSUME TypeOK, NEW s \in Symbol, NEW state \in EntryState, Record(s, state)
  PROVE  /\ entries' = [entries EXCEPT ![s] = state]
         /\ entries' \in [Symbol -> EntryState]
         /\ unflushed' \in 0 .. FlushEvery - 1
         /\ manifest' = manifest \/ manifest' = entries'
         /\ manifest' \in [Symbol -> EntryState]
<1>1. /\ entries' = [entries EXCEPT ![s] = state]
      /\ entries' \in [Symbol -> EntryState]
  BY DEF Record, TypeOK
<1>2. manifest' = manifest \/ manifest' = entries'
  BY DEF Record
<1>3. unflushed' \in 0 .. FlushEvery - 1
  BY SizesPositive DEF Record, FlushDue, TypeOK
<1> QED BY <1>1, <1>2, <1>3 DEF TypeOK

(* The same for an explicit flush, which leaves the entries alone. *)
LEMMA FlushKeepsType ==
  ASSUME TypeOK, Flush
  PROVE  /\ entries' = entries
         /\ unflushed' \in 0 .. FlushEvery - 1
         /\ manifest' = manifest \/ manifest' = entries'
         /\ manifest' \in [Symbol -> EntryState]
BY SizesPositive DEF Flush, TypeOK

(* What the round learns keeps its bookkeeping well typed. *)
LEMMA RoundKeepsType ==
  ASSUME TypeOK, NEW s \in Symbol, Round!Answered(s) \/ Round!TimedOut(s)
  PROVE  gaps' \subseteq Symbol /\ silent' \in Nat
BY DEF TypeOK, Round!Answered, Round!TimedOut, Round!Report

-----------------------------------------------------------------------------
(* Every reachable state is well typed; in particular the manifest never   *)
(* lags FlushEvery entries or more behind the memory.                      *)
THEOREM TypeCorrect == Spec => []TypeOK
<1>1. Init => TypeOK
  <2> SUFFICES ASSUME Init PROVE TypeOK
    OBVIOUS
  <2>1. parts \in [Symbol -> SUBSET Day] /\ canonical \in [Symbol -> SUBSET Day]
    BY DEF Init
  <2>2. manifest \in [Symbol -> EntryState] /\ entries \in [Symbol -> EntryState]
    BY DEF Init, EntryState
  <2>3. counts \in [Symbol -> Nat]
    BY DEF Init
  <2>4. unflushed \in 0 .. FlushEvery - 1
    BY SizesPositive DEF Init
  <2> QED BY <2>1, <2>2, <2>3, <2>4 DEF Init, TypeOK, Stages
<1>2. TypeOK /\ [Next]_vars => TypeOK'
  <2> SUFFICES ASSUME TypeOK, [Next]_vars PROVE TypeOK'
    OBVIOUS
  <2>0. Step \in Nat
    BY SizesPositive DEF Step
  <2>1. CASE Start
    <3>1. counts' \in [Symbol -> Nat] /\ unflushed' \in 0 .. FlushEvery - 1
      BY <2>1, SizesPositive DEF Start, ResetMemory
    <3> QED BY <2>0, <2>1, <3>1 DEF Start, ResetMemory, TypeOK, Stages, disk
  <2>2. CASE Crash
    <3>1. counts' \in [Symbol -> Nat] /\ unflushed' \in 0 .. FlushEvery - 1
      BY <2>2, SizesPositive DEF Crash, ResetMemory
    <3>2. entries' \in [Symbol -> EntryState]
      BY <2>2 DEF Crash, ResetMemory, EntryState
    <3> QED BY <2>2, <3>1, <3>2 DEF Crash, ResetMemory, TypeOK, Stages, disk
  <2>3. CASE CompactOnOpen
    BY <2>3, CompactedGrows DEF CompactOnOpen, TypeOK, Stages
  <2>4. CASE CompactLanding
    BY <2>4, CompactedGrows DEF CompactLanding, TypeOK, Stages
  <2>5. CASE Finish
    BY <2>5, CompactedGrows DEF Finish, TypeOK, Stages
  <2>6. CASE EndAdoption
    BY <2>6, FlushKeepsType DEF EndAdoption, TypeOK, Stages
  <2>7. CASE EndBatchChunk
    <3>1. stage' \in Stages
      BY <2>7 DEF EndBatchChunk, Stages
    <3> QED BY <2>7, <3>1, FlushKeepsType DEF EndBatchChunk, TypeOK
  <2>8. CASE FlushLanding
    BY <2>8, FlushKeepsType DEF FlushLanding, TypeOK, Stages
  <2>9. CASE MeasureFirst
    <3>1. counts' \in [Symbol -> Nat]
      BY <2>9, BarCountsType DEF MeasureFirst, TypeOK
    <3> QED BY <2>9, <3>1 DEF MeasureFirst, ShortIn, TypeOK, Stages, disk
  <2>10. CASE Measure
    <3>1. counts' \in [Symbol -> Nat]
      BY <2>10, BarCountsType DEF Measure, TypeOK
    <3>2. short' \subseteq Symbol /\ window' \in Nat /\ stage' \in Stages
      BY <2>0, <2>10 DEF Measure, ShortIn, TypeOK, Stages
    <3> QED BY <2>10, <3>1, <3>2 DEF Measure, TypeOK, disk
  <2>11. CASE BeginLanding
    BY <2>11 DEF BeginLanding, TypeOK, Stages, disk
  <2>12. CASE EndFallback
    BY <2>12 DEF EndFallback, Round!Close, TypeOK, Stages, disk
  <2>13. ASSUME NEW s \in Symbol, AdoptPart(s) PROVE TypeOK'
    <3>1. Record(s, "SUCCESS") /\ "SUCCESS" \in EntryState
      BY <2>13 DEF AdoptPart, EntryState
    <3> QED BY <2>13, <3>1, RecordKeepsType DEF AdoptPart, TypeOK
  <2>14. ASSUME NEW s \in Symbol, StagePart(s) PROVE TypeOK'
    <3>1. PICK rows \in Answers(s) : parts' = [parts EXCEPT ![s] = rows]
      BY <2>14 DEF StagePart
    <3>2. rows \subseteq Day
      BY AnswersAreRows
    <3> QED BY <2>14, <3>1, <3>2 DEF StagePart, TypeOK
  <2>15. ASSUME NEW s \in Symbol, RecordBatchPart(s) PROVE TypeOK'
    <3>1. Record(s, "SUCCESS") /\ "SUCCESS" \in EntryState
      BY <2>15 DEF RecordBatchPart, EntryState
    <3> QED BY <2>15, <3>1, RecordKeepsType DEF RecordBatchPart, TypeOK
  <2>16. ASSUME NEW s \in Symbol, RecordFetchedPart(s) PROVE TypeOK'
    <3>1. Record(s, "SUCCESS") /\ "SUCCESS" \in EntryState
      BY <2>16 DEF RecordFetchedPart, EntryState
    <3>2. gaps' \subseteq Symbol /\ silent' \in Nat
      BY <2>16, RoundKeepsType DEF RecordFetchedPart
    <3> QED BY <2>16, <3>1, <3>2, RecordKeepsType DEF RecordFetchedPart, TypeOK
  <2>17. ASSUME NEW s \in Symbol, NEW state \in FailedState,
                RecordFailure(s, state)
         PROVE  TypeOK'
    <3>1. Record(s, state) /\ state \in EntryState
      BY <2>17 DEF RecordFailure, EntryState
    <3>2. gaps' \subseteq Symbol /\ silent' \in Nat
      BY <2>17, RoundKeepsType DEF RecordFailure, FailureHeard
    <3> QED BY <2>17, <3>1, <3>2, RecordKeepsType DEF RecordFailure, TypeOK
  <2>18. CASE UNCHANGED vars
    BY <2>18 DEF vars, disk, memory, TypeOK
  <2> QED BY <2>1, <2>2, <2>3, <2>4, <2>5, <2>6, <2>7, <2>8, <2>9, <2>10,
             <2>11, <2>12, <2>13, <2>14, <2>15, <2>16, <2>17, <2>18
          DEF Next, Run
<1> QED BY <1>1, <1>2, PTL DEF Spec
-----------------------------------------------------------------------------
(* The inductive invariant. SuccessHasPart speaks of the manifest on disk; *)
(* it is kept because the entries in memory, which the next flush writes,  *)
(* obey it too, and because the part of the symbol being recorded is       *)
(* already there.                                                          *)

EntryHasPart == \A s \in Symbol : entries[s] = "SUCCESS" => parts[s] # {}

StagedHasPart == staged # NoSymbol => parts[staged] # {}

DiskInv == SuccessHasPart /\ EntryHasPart /\ StagedHasPart /\ NothingInvented

(* From a compaction until the next fetch, every part that counts as       *)
(* landed is in the market file; a run that is about to finish has         *)
(* measured that file.                                                     *)
Settled ==
  stage \in {"adopt", "measure0", "measure", "finish"} =>
    \A s \in Symbol : IsLandedEvidence(s) => parts[s] \subseteq canonical[s]

Measured == stage \in {"finish", "done"} => counts = BarCounts(canonical)

(* A recorded success has its part, and a record of anything else takes no *)
(* claim on one: the manifest and the entries stay truthful.               *)
LEMMA RecordKeepsClaims ==
  ASSUME TypeOK, DiskInv, NEW s \in Symbol, NEW state \in EntryState,
         Record(s, state), state = "SUCCESS" => parts[s] # {}, parts' = parts
  PROVE  SuccessHasPart' /\ EntryHasPart'
<1>1. entries' = [entries EXCEPT ![s] = state]
      /\ (manifest' = manifest \/ manifest' = entries')
  BY RecordKeepsType
<1>2. EntryHasPart'
  BY <1>1 DEF DiskInv, EntryHasPart, TypeOK
<1> QED BY <1>1, <1>2 DEF DiskInv, EntryHasPart, SuccessHasPart

(* The three claims about the disk, with the type invariant, are inductive. *)
LEMMA DiskInvInductive ==
  /\ Init => DiskInv
  /\ TypeOK /\ DiskInv /\ [Next]_vars => DiskInv'
<1>1. ASSUME Init PROVE DiskInv
  BY <1>1 DEF Init, DiskInv, SuccessHasPart, EntryHasPart, StagedHasPart,
              NothingInvented
<1>2. ASSUME TypeOK, DiskInv, [Next]_vars PROVE DiskInv'
  <2> USE <1>2
  <2> USE DEF DiskInv
  <2>1. ASSUME UNCHANGED <<source, parts, canonical>> PROVE NothingInvented'
    BY <2>1 DEF NothingInvented, Rows
  <2>2. ASSUME UNCHANGED <<source, parts>>, canonical' = Compacted
        PROVE  NothingInvented'
    BY <2>2, CompactedGrows DEF NothingInvented, Rows
  <2>3. ASSUME UNCHANGED <<parts, manifest, entries, staged>>
        PROVE  SuccessHasPart' /\ EntryHasPart' /\ StagedHasPart'
    BY <2>3 DEF SuccessHasPart, EntryHasPart, StagedHasPart
  <2>4. ASSUME Flush, parts' = parts, staged' = staged
        PROVE  SuccessHasPart' /\ EntryHasPart' /\ StagedHasPart'
    BY <2>4, FlushKeepsType DEF SuccessHasPart, EntryHasPart, StagedHasPart
  <2>5. CASE Start
    BY <2>1, <2>5 DEF Start, ResetMemory, disk, SuccessHasPart, EntryHasPart,
                      StagedHasPart
  <2>6. CASE Crash
    BY <2>1, <2>6 DEF Crash, ResetMemory, disk, SuccessHasPart, EntryHasPart,
                      StagedHasPart
  <2>7. CASE CompactOnOpen \/ CompactLanding \/ Finish
    BY <2>2, <2>3, <2>7 DEF CompactOnOpen, CompactLanding, Finish
  <2>8. CASE EndAdoption \/ EndBatchChunk \/ FlushLanding
    BY <2>1, <2>4, <2>8 DEF EndAdoption, EndBatchChunk, FlushLanding
  <2>9. CASE MeasureFirst \/ BeginLanding \/ EndFallback \/ Measure
    BY <2>1, <2>3, <2>9 DEF MeasureFirst, BeginLanding, EndFallback, Measure, disk
  <2>10. ASSUME NEW s \in Symbol, StagePart(s) PROVE DiskInv'
    <3>1. PICK rows \in Answers(s) : parts' = [parts EXCEPT ![s] = rows]
      BY <2>10 DEF StagePart
    <3>2. rows # {} /\ rows \subseteq Rows(s)
      BY AnswersAreRows
    <3>3. parts' = [t \in Symbol |-> IF t = s THEN rows ELSE parts[t]]
      BY <3>1 DEF TypeOK
    <3>4. SuccessHasPart' /\ EntryHasPart'
      BY <2>10, <3>2, <3>3 DEF StagePart, SuccessHasPart, EntryHasPart
    <3>5. StagedHasPart'
      BY <2>10, <3>2, <3>3 DEF StagePart, StagedHasPart
    <3>6. NothingInvented'
      BY <2>10, <3>2, <3>3 DEF StagePart, NothingInvented, Rows
    <3> QED BY <3>4, <3>5, <3>6
  <2>11. ASSUME NEW s \in Symbol,
                AdoptPart(s) \/ RecordBatchPart(s) \/ RecordFetchedPart(s)
         PROVE  DiskInv'
    <3>1. Record(s, "SUCCESS") /\ "SUCCESS" \in EntryState
          /\ UNCHANGED <<source, parts, canonical>>
      BY <2>11 DEF AdoptPart, RecordBatchPart, RecordFetchedPart, EntryState
    <3>2. parts[s] # {}
      BY <2>11, NoSymbolIsNone DEF AdoptPart, Orphans, RecordBatchPart,
            RecordFetchedPart, StagedHasPart
    <3>3. staged' = staged \/ staged' = NoSymbol
      BY <2>11 DEF AdoptPart, RecordBatchPart, RecordFetchedPart
    <3> QED BY <2>1, <3>1, <3>2, <3>3, RecordKeepsClaims DEF StagedHasPart
  <2>12. ASSUME NEW s \in Symbol, NEW state \in FailedState,
                RecordFailure(s, state)
         PROVE  DiskInv'
    <3>1. Record(s, state) /\ state \in EntryState /\ state # "SUCCESS"
          /\ UNCHANGED <<source, parts, canonical, staged>>
      BY <2>12 DEF RecordFailure, EntryState, FailedState
    <3> QED BY <2>1, <3>1, RecordKeepsClaims DEF StagedHasPart
  <2>13. CASE UNCHANGED vars
    BY <2>1, <2>3, <2>13 DEF vars, disk, memory
  <2> QED BY <2>5, <2>6, <2>7, <2>8, <2>9, <2>10, <2>11, <2>12, <2>13
          DEF Next, Run
<1> QED BY <1>1, <1>2

(* A success on disk always has its part on disk, whatever flushes and     *)
(* crashes come between the two writes.                                    *)
THEOREM SuccessIsBacked == Spec => []SuccessHasPart
<1>1. DiskInv => SuccessHasPart
  BY DEF DiskInv
<1> QED BY <1>1, TypeCorrect, DiskInvInductive, PTL DEF Spec

(* No failure, retry or merge ever puts a row on disk the source did not   *)
(* deliver.                                                                *)
THEOREM NothingIsInvented == Spec => []NothingInvented
<1>1. DiskInv => NothingInvented
  BY DEF DiskInv
<1> QED BY <1>1, TypeCorrect, DiskInvInductive, PTL DEF Spec

(* The market file never loses a row, by any step of any run.              *)
THEOREM MarketFileGrows == Spec => CanonicalOnlyGrows
<1>1. TypeOK /\ [Next]_vars
        => [\A s \in Symbol : canonical[s] \subseteq canonical'[s]]_vars
  <2> SUFFICES ASSUME TypeOK, Next
               PROVE  canonical' = canonical \/ canonical' = Compacted
    BY CompactedGrows
  <2> QED BY DEF Next, Run, Start, Crash, CompactOnOpen, EndAdoption,
        MeasureFirst, BeginLanding, EndBatchChunk, EndFallback, FlushLanding,
        CompactLanding, Measure, Finish, AdoptPart, StagePart,
        RecordBatchPart, RecordFetchedPart, RecordFailure, disk
<1> QED BY <1>1, TypeCorrect, PTL DEF Spec, CanonicalOnlyGrows
-----------------------------------------------------------------------------
(* The report is measured before the last compaction; it is still true     *)
(* after it because nothing was staged since the compaction before.        *)

ReportInv == Settled /\ Measured

(* Recording a success or adopting a part makes no other part count as     *)
(* landed, so a settled state stays settled.                               *)
LEMMA ReportInvInductive ==
  /\ Init => ReportInv
  /\ TypeOK /\ ReportInv /\ [Next]_vars => ReportInv'
<1>1. ASSUME Init PROVE ReportInv
  BY <1>1 DEF Init, ReportInv, Settled, Measured
<1>2. ASSUME TypeOK, ReportInv, [Next]_vars PROVE ReportInv'
  <2> USE <1>2
  <2> USE DEF ReportInv
  <2>1. ASSUME UNCHANGED <<source, parts, canonical, entries, counts>>,
               stage' = stage \/ (stage' = "measure0" /\ stage = "adopt")
                 \/ stage' \notin {"adopt", "measure0", "measure", "finish", "done"}
        PROVE  ReportInv'
    BY <2>1 DEF Settled, Measured, IsLandedEvidence, BarCounts, Valued
  <2>2. ASSUME stage' \notin {"adopt", "measure0", "measure", "finish", "done"}
        PROVE  ReportInv'
    BY <2>2 DEF Settled, Measured
  <2>3. CASE Start \/ Crash
    BY <2>2, <2>3 DEF Start, Crash
  <2>4. CASE CompactOnOpen \/ CompactLanding
    <3>1. /\ canonical' = Compacted /\ UNCHANGED <<source, parts, entries>>
          /\ stage' \notin {"finish", "done"}
      BY <2>4 DEF CompactOnOpen, CompactLanding
    <3> QED BY <3>1, CompactedGrows DEF Settled, Measured, IsLandedEvidence
  <2>5. CASE Finish
    <3>1. \A s \in Symbol : Compacted[s] = canonical[s]
      BY <2>5, CompactedGrows DEF Finish, Settled
    <3>2. canonical' = canonical
      <4>1. Compacted \in [Symbol -> SUBSET Day]
            /\ canonical \in [Symbol -> SUBSET Day]
        BY CompactedGrows DEF TypeOK
      <4> QED BY <2>5, <3>1, <4>1 DEF Finish
    <3> QED BY <2>5, <3>2 DEF Finish, Settled, Measured, BarCounts, Valued
  <2>6. CASE EndAdoption
    BY <2>1, <2>6, FlushKeepsType DEF EndAdoption
  <2>7. CASE EndBatchChunk \/ FlushLanding \/ BeginLanding \/ EndFallback
    BY <2>2, <2>7 DEF EndBatchChunk, FlushLanding, BeginLanding, EndFallback
  <2>8. CASE MeasureFirst
    BY <2>8 DEF MeasureFirst, Settled, Measured, IsLandedEvidence, BarCounts,
                Valued, disk
  <2>9. CASE Measure
    BY <2>9 DEF Measure, Settled, Measured, IsLandedEvidence, BarCounts,
                Valued, disk
  <2>10. ASSUME NEW s \in Symbol, AdoptPart(s) PROVE ReportInv'
    <3>1. "SUCCESS" \in EntryState /\ entries[s] = "ABSENT" /\ Record(s, "SUCCESS")
          /\ UNCHANGED <<source, parts, canonical, stage>> /\ stage = "adopt"
      BY <2>10 DEF AdoptPart, Orphans, EntryState
    <3>2. entries' = [entries EXCEPT ![s] = "SUCCESS"]
      BY <3>1, RecordKeepsType
    <3>3. \A t \in Symbol : IsLandedEvidence(t)' => IsLandedEvidence(t)
      BY <3>1, <3>2 DEF IsLandedEvidence, TypeOK
    <3> QED BY <3>1, <3>3 DEF Settled, Measured
  <2>11. ASSUME NEW s \in Symbol,
                StagePart(s) \/ RecordBatchPart(s) \/ RecordFetchedPart(s)
                  \/ \E state \in FailedState : RecordFailure(s, state)
         PROVE  ReportInv'
    BY <2>2, <2>11 DEF StagePart, RecordBatchPart, RecordFetchedPart, RecordFailure
  <2>12. CASE UNCHANGED vars
    BY <2>1, <2>12 DEF vars, disk, memory
  <2> QED BY <2>3, <2>4, <2>5, <2>6, <2>7, <2>8, <2>9, <2>10, <2>11, <2>12
          DEF Next, Run
<1> QED BY <1>1, <1>2

(* When a run ends, the coverage it reports is what the market file holds. *)
THEOREM ReportIsHonest == Spec => []ReportHonest
<1>1. ReportInv => ReportHonest
  BY DEF ReportInv, Measured, ReportHonest, BarCounts
<1> QED BY <1>1, TypeCorrect, ReportInvInductive, PTL DEF Spec

(* What is on disk is true at every moment: no success without its part,   *)
(* and no row the source did not deliver.                                  *)
THEOREM DiskIsTrue == Spec => []DiskTellsTruth
<1>1. DiskInv => DiskTellsTruth
  BY DEF DiskInv, DiskTellsTruth
<1> QED BY <1>1, TypeCorrect, DiskInvInductive, PTL DEF Spec
-----------------------------------------------------------------------------
(* The manifest on disk lags behind the entries in memory, and the entry   *)
(* of the symbol being staged behind its part; a run ends only where       *)
(* neither does.                                                           *)

FlushedIsWritten == unflushed = 0 /\ stage # "down" => manifest = entries

RestIsFlushed ==
  stage \in {"measure0", "compact", "measure", "finish", "done"} => unflushed = 0

StagedWhileLanding == staged # NoSymbol => stage \in {"batch", "fallback"}

PartsEntered ==
  stage \notin {"down", "open", "adopt"} =>
    \A s \in Symbol : parts[s] # {} /\ s # staged => entries[s] # "ABSENT"

FailuresEntered == \A s \in failed : entries[s] # "ABSENT"

LedgerInv ==
  FlushedIsWritten /\ RestIsFlushed /\ StagedWhileLanding /\ PartsEntered
    /\ FailuresEntered

(* A record either reaches the disk or leaves something to flush.          *)
LEMMA RecordIsCounted ==
  ASSUME TypeOK, NEW s \in Symbol, NEW state \in EntryState, Record(s, state)
  PROVE  unflushed' = 0 => manifest' = entries'
<1>1. unflushed + 1 # 0
  BY DEF TypeOK
<1> QED BY <1>1 DEF Record

(* After a flush the disk knows what the memory knows.                     *)
LEMMA FlushWrites ==
  ASSUME TypeOK, FlushedIsWritten, stage # "down", Flush
  PROVE  unflushed' = 0 /\ entries' = entries /\ manifest' = entries'
BY DEF Flush, FlushedIsWritten

(* LedgerInv holds initially and is kept by every step. *)
LEMMA LedgerInvInductive ==
  /\ Init => LedgerInv
  /\ TypeOK /\ LedgerInv /\ [Next]_vars => LedgerInv'
<1>1. ASSUME Init PROVE LedgerInv
  BY <1>1 DEF Init, LedgerInv, FlushedIsWritten, RestIsFlushed, StagedWhileLanding,
              PartsEntered, FailuresEntered
<1>2. ASSUME TypeOK, LedgerInv, [Next]_vars PROVE LedgerInv'
  <2> USE <1>2
  <2> USE DEF LedgerInv
  <2>1. CASE Start
    BY <2>1 DEF Start, ResetMemory, disk, FlushedIsWritten, RestIsFlushed,
                StagedWhileLanding, PartsEntered, FailuresEntered
  <2>2. CASE Crash
    BY <2>2 DEF Crash, ResetMemory, disk, FlushedIsWritten, RestIsFlushed,
                StagedWhileLanding, PartsEntered, FailuresEntered
  <2>3. ASSUME UNCHANGED <<parts, manifest, entries, unflushed, staged, failed>>,
               stage # "down", stage' # "down", staged = NoSymbol,
               stage' \in {"measure0", "compact", "measure", "finish", "done"}
                 => unflushed = 0,
               stage' \notin {"open", "adopt"} => stage \notin {"open", "adopt"}
        PROVE  LedgerInv'
    BY <2>3 DEF FlushedIsWritten, RestIsFlushed, StagedWhileLanding, PartsEntered,
                FailuresEntered
  <2>4. CASE CompactOnOpen
    BY <2>3, <2>4 DEF CompactOnOpen, StagedWhileLanding
  <2>5. CASE CompactLanding \/ Finish
    BY <2>3, <2>5 DEF CompactLanding, Finish, StagedWhileLanding, RestIsFlushed
  <2>6. CASE MeasureFirst \/ Measure
    BY <2>3, <2>6 DEF MeasureFirst, Measure, StagedWhileLanding, RestIsFlushed, disk
  <2>7. CASE BeginLanding \/ EndFallback
    BY <2>3, <2>7 DEF BeginLanding, EndFallback, StagedWhileLanding, disk
  <2>8. CASE EndAdoption
    <3>1. unflushed' = 0 /\ entries' = entries /\ manifest' = entries'
      BY <2>8, FlushWrites DEF EndAdoption
    <3>2. \A s \in Symbol : parts[s] # {} => entries[s] # "ABSENT"
      BY <2>8 DEF EndAdoption, Orphans
    <3> QED BY <2>8, <3>1, <3>2 DEF EndAdoption, FlushedIsWritten, RestIsFlushed,
               StagedWhileLanding, PartsEntered, FailuresEntered
  <2>9. CASE EndBatchChunk \/ FlushLanding
    <3>1. unflushed' = 0 /\ entries' = entries /\ manifest' = entries'
      BY <2>9, FlushWrites DEF EndBatchChunk, FlushLanding
    <3> QED BY <2>9, <3>1 DEF EndBatchChunk, FlushLanding, FlushedIsWritten,
               RestIsFlushed, StagedWhileLanding, PartsEntered, FailuresEntered
  <2>10. ASSUME NEW s \in Symbol, StagePart(s) PROVE LedgerInv'
    <3>1. PICK rows \in Answers(s) : parts' = [parts EXCEPT ![s] = rows]
      BY <2>10 DEF StagePart
    <3>2. \A t \in Symbol : t # s => parts'[t] = parts[t]
      BY <3>1 DEF TypeOK
    <3> QED BY <2>10, <3>2, NoSymbolIsNone DEF StagePart, FlushedIsWritten, RestIsFlushed,
               StagedWhileLanding, PartsEntered, FailuresEntered, TypeOK
  <2>11. ASSUME NEW s \in Symbol, NEW state \in EntryState, Record(s, state),
                state # "ABSENT", parts' = parts, stage' = stage,
                stage \in {"adopt", "batch", "fallback"},
                failed' \subseteq failed \cup {s},
                staged' = NoSymbol, staged \in {s, NoSymbol}
         PROVE  LedgerInv'
    <3>1. entries' = [entries EXCEPT ![s] = state]
      BY <2>11, RecordKeepsType
    <3>2. unflushed' = 0 => manifest' = entries'
      BY <2>11, RecordIsCounted
    <3>3. \A t \in Symbol : entries'[t] = IF t = s THEN state ELSE entries[t]
      BY <3>1 DEF TypeOK
    <3> QED BY <2>11, <3>2, <3>3 DEF FlushedIsWritten, RestIsFlushed,
               StagedWhileLanding, PartsEntered, FailuresEntered, TypeOK
  <2>12. ASSUME NEW s \in Symbol,
                AdoptPart(s) \/ RecordBatchPart(s) \/ RecordFetchedPart(s)
         PROVE  LedgerInv'
    <3>1. "SUCCESS" \in EntryState
      BY DEF EntryState
    <3> QED BY <2>11, <2>12, <3>1 DEF AdoptPart, RecordBatchPart, RecordFetchedPart,
               StagedWhileLanding
  <2>13. ASSUME NEW s \in Symbol, NEW state \in FailedState, RecordFailure(s, state)
         PROVE  LedgerInv'
    <3>1. state \in EntryState /\ state # "ABSENT"
      BY DEF EntryState, FailedState
    <3> QED BY <2>11, <2>13, <3>1 DEF RecordFailure
  <2>14. CASE UNCHANGED vars
    BY <2>14 DEF vars, disk, memory, FlushedIsWritten, RestIsFlushed,
                 StagedWhileLanding, PartsEntered, FailuresEntered
  <2> QED BY <2>1, <2>2, <2>4, <2>5, <2>6, <2>7, <2>8, <2>9, <2>10, <2>12, <2>13, <2>14
          DEF Next, Run
<1> QED BY <1>1, <1>2

(* What a run leaves behind is true when it ends: the coverage it returns  *)
(* is that of the market file, and the manifest knows every symbol that    *)
(* has a part or failed.                                                   *)
THEOREM RunIsTrue == Spec => []RunTellsTruth
<1>1. ASSUME TypeOK, ReportInv, LedgerInv PROVE RunTellsTruth
  <2>1. ReportHonest
    BY <1>1 DEF ReportInv, Measured, ReportHonest, BarCounts
  <2>2. ManifestComplete
    BY <1>1, NoSymbolIsNone DEF LedgerInv, FlushedIsWritten, RestIsFlushed,
       StagedWhileLanding, PartsEntered, FailuresEntered, ManifestComplete, TypeOK
  <2> QED BY <2>1, <2>2 DEF RunTellsTruth
<1> QED BY <1>1, TypeCorrect, ReportInvInductive, LedgerInvInductive, PTL DEF Spec
-----------------------------------------------------------------------------
(***************************************************************************)
(* What a run forgets nothing of, when no call fails and the source is     *)
(* steady.                                                                 *)
(***************************************************************************)

(* An entry can only name a failure of a symbol the source knows nothing   *)
(* of, so every part there is counts as landed.                            *)
FailuresAreEmpty ==
  \A s \in Symbol : manifest[s] \in FailedState \/ entries[s] \in FailedState => Rows(s) = {}

WindowReaches == stage # "down" => window >= Step

(* Nobody the round still asks for has a part that reaches far enough.     *)
GapsAreGaps ==
  stage \in {"batch", "fallback"} =>
    \A s \in gaps : s # staged => ~Covers(parts[s])

ResumeInv == FailuresAreEmpty /\ WindowReaches /\ StagedIsMerged /\ GapsAreGaps

(* The rows `back` steps back hold. *)
Within(s, back) == {d \in Rows(s) : back > 0 /\ d <= back * Step}

(* The first run's round after `back` others: what the symbols it works on *)
(* have, row by row, and that nobody else needs more.                      *)
Worked(back) ==
  \A s \in short : /\ canonical[s] = Within(s, back)
                   /\ counts[s] = Cardinality(Within(s, back) \cap Valued(s))

RestHasEnough ==
  \A s \in Symbol \ short : Cardinality(canonical[s] \cap Valued(s)) >= BarsRequired

(* While a round runs: who it is done with has a part that reaches a step  *)
(* further than the parts of the others.                                   *)
Fetched(back) ==
  \A s \in short :
    parts[s] = IF s \in gaps \ {staged} THEN Within(s, back) ELSE Within(s, back + 1)

FirstRound(back) ==
  /\ window = (back + 1) * Step
  /\ stage \in {"open", "adopt", "measure0"} =>
       back = 0 /\ \A s \in Symbol : parts[s] = {} /\ canonical[s] = {}
  /\ stage \in {"land", "batch", "fallback", "flush", "compact"} =>
       Worked(back) /\ RestHasEnough
  /\ stage = "land" => \A s \in short : parts[s] = Within(s, back)
  /\ stage \in {"batch", "fallback"} =>
       /\ silent = 0
       /\ gaps \subseteq short
       /\ Fetched(back)
  /\ stage \in {"flush", "compact"} => \A s \in short : parts[s] = Within(s, back + 1)
  /\ stage = "measure" =>
       /\ RestHasEnough
       /\ \A s \in short : /\ canonical[s] = Within(s, back + 1)
                           /\ parts[s] = Within(s, back + 1)
                           /\ counts[s] = Cardinality(Within(s, back) \cap Valued(s))

(* Before the first start nothing is on disk. *)
Pristine ==
  /\ stage = "down" /\ \A s \in Symbol : parts[s] = {} /\ canonical[s] = {}

FirstRun ==
  /\ stage \notin {"down", "finish", "done"} => \E back \in 0 .. window : FirstRound(back)
  /\ stage \in {"finish", "done"} =>
       \A s \in ShortIn(Symbol, counts) : Valued(s) \subseteq canonical[s]

FirstInv ==
  /\ starts = 0 => Pristine
  /\ starts = 1 /\ failed = {} => FirstRun

(* The days of a number of steps back. *)
LEMMA StepFacts ==
  /\ Step \in Nat /\ Step > 0
  /\ \A k \in Nat : /\ k * Step \in Nat /\ k * Step >= k
                    /\ (k + 1) * Step = k * Step + Step
<1>1. Step \in Nat /\ Step > 0
  BY SizesPositive DEF Step
<1>. QED BY <1>1

(* No step changes the source, nor what may go wrong with it.              *)
LEMMA OutsideStays ==
  ASSUME [Next]_vars
  PROVE  /\ source' = source /\ troubled' = troubled
         /\ Steady' <=> Steady
         /\ \A s \in Symbol : Rows(s)' = Rows(s) /\ Valued(s)' = Valued(s)
<1>1. source' = source /\ troubled' = troubled
  BY DEF Next, Run, Start, Crash, CompactOnOpen, EndAdoption,
        MeasureFirst, BeginLanding, EndBatchChunk, EndFallback, FlushLanding,
        CompactLanding, Measure, Finish, AdoptPart, StagePart,
        RecordBatchPart, RecordFetchedPart, RecordFailure, vars
<1>2. \A s \in Symbol : Rows(s)' = Rows(s) /\ Valued(s)' = Valued(s)
  BY <1>1 DEF Rows, Valued
<1>3. Steady' <=> Steady
  BY <1>1, <1>2 DEF Steady, Rows, Valued
<1>. QED BY <1>1, <1>2, <1>3

(* A call that finds nothing was for a symbol the source does not know.    *)
LEMMA NothingFound ==
  ASSUME Steady, WindowReaches, stage # "down", TypeOK, NEW s \in Symbol, Full(s) = {}
  PROVE  Rows(s) = {}
BY StepFacts, DaysAreNat DEF Steady, WindowReaches, Full, Rows, TypeOK

(* A part counts as landed, whatever the entries say of its symbol.        *)
LEMMA PartsCount ==
  ASSUME TypeOK, DiskInv, FailuresAreEmpty, NEW s \in Symbol, parts[s] # {}
  PROVE  IsLandedEvidence(s)
BY DEF TypeOK, EntryState, DiskInv, NothingInvented, FailuresAreEmpty, IsLandedEvidence

(* Nothing is recorded, staged or asked for before the first start.        *)
LEMMA ResumeInit == Init => ResumeInv
BY DEF Init, ResumeInv, FailuresAreEmpty, WindowReaches, StagedIsMerged, GapsAreGaps, FailedState

(* What entries name failures of stays what it was, or is empty.           *)
LEMMA EntriesStay ==
  ASSUME TypeOK, Steady, ResumeInv, [Next]_vars
  PROVE  FailuresAreEmpty'
<1>. USE DEF ResumeInv
<1>0. \A s \in Symbol : Rows(s)' = Rows(s)
  BY OutsideStays
<1>1. ASSUME entries' = entries \/ entries' = manifest \/ \A s \in Symbol : entries'[s] = "ABSENT",
             manifest' \in {manifest, entries}
      PROVE  FailuresAreEmpty'
  BY <1>0, <1>1 DEF FailuresAreEmpty, FailedState
<1>2. ASSUME NEW s \in Symbol, NEW state \in EntryState, Record(s, state),
             state \in FailedState => Rows(s) = {}
      PROVE  FailuresAreEmpty'
  <2>1. entries' = [entries EXCEPT ![s] = state] /\ manifest' \in {manifest, entries'}
    BY <1>2, RecordKeepsType
  <2>2. \A t \in Symbol : entries'[t] = IF t = s THEN state ELSE entries[t]
    BY <2>1 DEF TypeOK
  <2>. QED BY <1>0, <1>2, <2>1, <2>2 DEF FailuresAreEmpty
<1>3. CASE Start \/ Crash
  BY <1>1, <1>3 DEF Start, Crash, ResetMemory, disk
<1>4. CASE CompactOnOpen \/ CompactLanding \/ Finish \/ MeasureFirst \/ BeginLanding
             \/ EndFallback \/ Measure \/ UNCHANGED vars
  BY <1>1, <1>4 DEF CompactOnOpen, CompactLanding, Finish, MeasureFirst, BeginLanding,
     EndFallback, Measure, vars, disk, memory
<1>5. CASE EndAdoption \/ EndBatchChunk \/ FlushLanding
  BY <1>1, <1>5, FlushKeepsType DEF EndAdoption, EndBatchChunk, FlushLanding
<1>6. ASSUME NEW s \in Symbol, StagePart(s) PROVE FailuresAreEmpty'
  BY <1>1, <1>6 DEF StagePart
<1>7. ASSUME NEW s \in Symbol, AdoptPart(s) \/ RecordBatchPart(s) \/ RecordFetchedPart(s)
      PROVE  FailuresAreEmpty'
  BY <1>2, <1>7 DEF AdoptPart, RecordBatchPart, RecordFetchedPart, EntryState, FailedState
<1>8. ASSUME NEW s \in Symbol, NEW state \in FailedState, RecordFailure(s, state)
      PROVE  FailuresAreEmpty'
  <2>1. Full(s) = {} /\ stage # "down" /\ Record(s, state) /\ state \in EntryState
    BY <1>8 DEF RecordFailure, Steady, EntryState
  <2>. QED BY <1>2, <2>1, NothingFound
<1>. QED BY <1>3, <1>4, <1>5, <1>6, <1>7, <1>8 DEF Next, Run

(* The window opens at a start and only widens.                            *)
LEMMA WindowStays ==
  ASSUME TypeOK, ResumeInv, [Next]_vars
  PROVE  WindowReaches'
<1>1. window' = window \/ window' = window + Step \/ window' = Step \/ stage' = "down"
  BY DEF Next, Run, Start, Crash, CompactOnOpen, EndAdoption, ResetMemory,
        MeasureFirst, BeginLanding, EndBatchChunk, EndFallback, FlushLanding,
        CompactLanding, Measure, Finish, AdoptPart, StagePart,
        RecordBatchPart, RecordFetchedPart, RecordFailure, vars, memory
<1>2. stage = "down" => stage' = "down" \/ window' = Step
  BY DEF Next, Run, Start, Crash, CompactOnOpen, EndAdoption, ResetMemory,
        MeasureFirst, BeginLanding, EndBatchChunk, EndFallback, FlushLanding,
        CompactLanding, Measure, Finish, AdoptPart, StagePart,
        RecordBatchPart, RecordFetchedPart, RecordFailure, vars, memory
<1>. QED BY <1>1, <1>2, StepFacts DEF ResumeInv, WindowReaches, TypeOK

(* What is landed is in the market file before the next decision.          *)
LEMMA MergedStays ==
  ASSUME TypeOK, DiskInv, ReportInv, ResumeInv, [Next]_vars
  PROVE  StagedIsMerged'
<1>. USE DEF ResumeInv
<1>1. stage' # "land" \/ MeasureFirst \/ Measure \/ UNCHANGED vars
  BY DEF Next, Run, Start, Crash, CompactOnOpen, EndAdoption, ResetMemory,
        BeginLanding, EndBatchChunk, EndFallback, FlushLanding,
        CompactLanding, Finish, AdoptPart, StagePart,
        RecordBatchPart, RecordFetchedPart, RecordFailure
<1>2. CASE MeasureFirst \/ Measure
  <2>1. stage \in {"measure0", "measure"} /\ parts' = parts /\ canonical' = canonical
    BY <1>2 DEF MeasureFirst, Measure, disk
  <2>2. \A s \in Symbol : parts[s] \subseteq canonical[s]
    BY <2>1, PartsCount DEF ReportInv, Settled
  <2>. QED BY <2>1, <2>2 DEF StagedIsMerged
<1>3. CASE UNCHANGED vars
  BY <1>3 DEF vars, disk, memory, StagedIsMerged
<1>. QED BY <1>1, <1>2, <1>3 DEF StagedIsMerged

(* A round leaves out who has a part that reaches far enough, and while it *)
(* lasts a symbol it is done with is none of its gaps.                     *)
LEMMA GapsStay ==
  ASSUME TypeOK, DiskInv, LedgerInv, ResumeInv, [Next]_vars
  PROVE  GapsAreGaps'
<1>. USE DEF ResumeInv
<1>1. ASSUME stage' \in {"batch", "fallback"} => /\ stage \in {"batch", "fallback"}
                                                 /\ window' = window /\ gaps' \subseteq gaps
                                                 /\ parts' = parts /\ staged' = staged
      PROVE  GapsAreGaps'
  BY <1>1 DEF GapsAreGaps, Covers
<1>2. CASE BeginLanding
  <2>1. /\ gaps' = {s \in short : ~Skipped(s)} /\ parts' = parts /\ window' = window
    BY <1>2 DEF BeginLanding, disk
  <2>2. ASSUME NEW s \in Symbol, ~Skipped(s) PROVE ~Covers(parts[s])
    BY <2>2, PartsCount DEF Skipped, Covers
  <2>3. short \subseteq Symbol
    BY DEF TypeOK
  <2>. QED BY <2>1, <2>2, <2>3 DEF GapsAreGaps, Covers
<1>3. ASSUME NEW s \in Symbol, StagePart(s) PROVE GapsAreGaps'
  <2>1. /\ \A t \in Symbol : t # s => parts'[t] = parts[t]
        /\ staged' = s /\ gaps' = gaps /\ gaps \subseteq Symbol /\ window' = window /\ stage' = stage
        /\ s # NoSymbol /\ staged = NoSymbol
    BY <1>3, NoSymbolIsNone DEF StagePart, TypeOK
  <2>. QED BY <2>1, NoSymbolIsNone DEF GapsAreGaps, Covers
<1>4. ASSUME NEW s \in Symbol, RecordBatchPart(s) \/ RecordFetchedPart(s) PROVE GapsAreGaps'
  <2>1. gaps' = gaps \ {s} /\ staged = s /\ parts' = parts /\ window' = window
        /\ stage \in {"batch", "fallback"}
    BY <1>4 DEF RecordBatchPart, RecordFetchedPart, Round!Answered, Round!Report
  <2>. QED BY <2>1 DEF GapsAreGaps, Covers
<1>5. ASSUME NEW s \in Symbol, NEW state \in FailedState, RecordFailure(s, state)
      PROVE  GapsAreGaps'
  <2>1. gaps' = gaps \ {s} /\ staged' = staged /\ parts' = parts /\ window' = window
        /\ stage = "fallback"
    BY <1>5 DEF RecordFailure, FailureHeard, Round!Answered, Round!TimedOut, Round!Report
  <2>. QED BY <2>1 DEF GapsAreGaps, Covers
<1>6. CASE UNCHANGED vars \/ EndBatchChunk
  BY <1>1, <1>6 DEF vars, disk, memory, EndBatchChunk
<1>7. CASE Start \/ Crash \/ CompactOnOpen \/ EndAdoption \/ MeasureFirst \/ EndFallback
             \/ FlushLanding \/ CompactLanding \/ Measure \/ Finish \/ \E s \in Symbol : AdoptPart(s)
  BY <1>1, <1>7 DEF Start, Crash, CompactOnOpen, EndAdoption, MeasureFirst, EndFallback,
     FlushLanding, CompactLanding, Measure, Finish, AdoptPart
<1>. QED BY <1>2, <1>3, <1>4, <1>5, <1>6, <1>7 DEF Next, Run

(* What lies within the steps back: nothing in none, more in more of them, *)
(* never as far as the next window's start, and what that window asks for. *)
LEMMA WithinFacts ==
  ASSUME NEW s \in Symbol, NEW k \in Nat
  PROVE  /\ Within(s, 0) = {}
         /\ Within(s, k) \subseteq Within(s, k + 1)
         /\ Within(s, k) \subseteq Day
         /\ \A d \in Within(s, k) : d \in Nat /\ d < (k + 1) * Step
         /\ Within(s, k + 1) = {d \in Rows(s) : d <= (k + 1) * Step}
<1>. DEFINE low == k * Step
            high == (k + 1) * Step
<1>1. low \in Nat /\ high \in Nat /\ low < high
  BY StepFacts
<1>2. Rows(s) \subseteq Day /\ Day \subseteq Nat
  BY DaysAreNat DEF Rows
<1>3. /\ Within(s, k) = {d \in Rows(s) : k > 0 /\ d <= low}
      /\ Within(s, k + 1) = {d \in Rows(s) : k + 1 > 0 /\ d <= high}
      /\ Within(s, 0) = {}
  BY DEF Within
<1>. HIDE DEF low, high
<1>4. ASSUME NEW d \in Within(s, k)
      PROVE  d \in Rows(s) /\ d \in Nat /\ d < high
  <2>1. d \in Rows(s) /\ d <= low
    BY <1>3
  <2>2. d \in Nat
    BY <1>2, <2>1
  <2>. QED BY <1>1, <2>1, <2>2
<1>5. Within(s, k + 1) = {d \in Rows(s) : d <= high}
  BY <1>3
<1>6. Within(s, k) \subseteq Within(s, k + 1)
  BY <1>1, <1>4, <1>5
<1>. QED BY <1>2, <1>3, <1>4, <1>5, <1>6 DEF high

(* A steady source has no usable bar left when a whole step back brought   *)
(* none: the counts before and after the step can only agree then.         *)
LEMMA NoMoreHistory ==
  ASSUME Steady, NEW s \in Symbol, NEW k \in Nat,
         Cardinality(Within(s, k + 1) \cap Valued(s)) = Cardinality(Within(s, k) \cap Valued(s))
  PROVE  Valued(s) \subseteq Within(s, k + 1)
<1>1. Within(s, k + 1) \cap Valued(s) = Within(s, k) \cap Valued(s)
  <2>1. /\ Within(s, k) \cap Valued(s) \subseteq Within(s, k + 1) \cap Valued(s)
        /\ Within(s, k + 1) \cap Valued(s) \subseteq Day
    BY WithinFacts DEF Valued
  <2>2. IsFiniteSet(Within(s, k + 1) \cap Valued(s))
    BY <2>1, DaysAreNat, FS_Subset
  <2>. QED BY <2>1, <2>2, FS_Subset
<1>2. SUFFICES ASSUME NEW v \in Valued(s), v \notin Within(s, k + 1) PROVE FALSE
  OBVIOUS
<1>3. v \in Nat /\ Valued(s) \subseteq Rows(s) /\ Rows(s) \subseteq Nat
  BY DaysAreNat DEF Valued, Rows
<1>4. /\ k * Step \in Nat /\ (k + 1) * Step \in Nat /\ k * Step >= k
      /\ k * Step < (k + 1) * Step
  BY StepFacts
<1>5. v > (k + 1) * Step
  BY <1>2, <1>3, <1>4, WithinFacts
<1>6. k \in 0 .. v /\ v > k * Step
  BY <1>3, <1>4, <1>5
<1>7. PICK d \in Valued(s) : (k = 0 \/ d > k * Step) /\ d <= (k + 1) * Step
  BY <1>6 DEF Steady
<1>8. d \in Within(s, k + 1) /\ d \notin Within(s, k)
  BY <1>3, <1>4, <1>7, WithinFacts DEF Within
<1>. QED BY <1>1, <1>8

(* Within a round only the file, the parts, the gaps and the stage move.   *)
LEMMA RoundStays ==
  ASSUME NEW back \in 0 .. window, FirstRound(back)', window' = window,
         stage' \notin {"down", "finish", "done"}
  PROVE  FirstRun'
BY DEF FirstRun

(* Until the market file is measured for the first time nothing is there.  *)
LEMMA FirstOpening ==
  ASSUME TypeOK, FirstRun, [Next]_vars,
         CompactOnOpen \/ EndAdoption \/ \E s \in Symbol : AdoptPart(s)
  PROVE  FirstRun'
<1>1. /\ stage \in {"open", "adopt"} /\ stage' \in {"adopt", "measure0"}
      /\ parts' = parts /\ window' = window
  BY DEF CompactOnOpen, EndAdoption, AdoptPart
<1>2. PICK back \in 0 .. window : FirstRound(back)
  BY <1>1 DEF FirstRun
<1>3. back = 0 /\ window = (back + 1) * Step
      /\ \A s \in Symbol : parts[s] = {} /\ canonical[s] = {}
  BY <1>1, <1>2 DEF FirstRound
<1>4. canonical' = canonical \/ canonical' = Compacted
  BY DEF CompactOnOpen, EndAdoption, AdoptPart
<1>5. \A s \in Symbol : parts'[s] = {} /\ canonical'[s] = {}
  BY <1>1, <1>3, <1>4, CompactedGrows
<1>6. FirstRound(back)'
  BY <1>1, <1>3, <1>5 DEF FirstRound
<1>. QED BY <1>1, <1>6, RoundStays

(* The first measurement finds everybody short, with nothing yet.          *)
LEMMA FirstMeasurement ==
  ASSUME TypeOK, FirstRun, [Next]_vars, MeasureFirst
  PROVE  FirstRun'
<1>1. PICK back \in 0 .. window : FirstRound(back)
  BY DEF FirstRun, MeasureFirst
<1>2. /\ back = 0 /\ window = (back + 1) * Step
      /\ \A s \in Symbol : parts[s] = {} /\ canonical[s] = {}
  BY <1>1 DEF FirstRound, MeasureFirst
<1>3. /\ counts' = BarCounts(canonical) /\ short' = ShortIn(Symbol, counts')
      /\ stage' = IF short' = {} THEN "finish" ELSE "land"
      /\ parts' = parts /\ canonical' = canonical /\ window' = window
  BY DEF MeasureFirst, disk
<1>4. \A s \in Symbol : canonical[s] \cap Valued(s) = {}
  BY <1>2
<1>5. \A s \in Symbol : counts'[s] = 0
  BY <1>3, <1>4, FS_EmptySet DEF BarCounts
<1>6. short' = Symbol
  BY <1>3, <1>5, SizesPositive DEF ShortIn
<1>7. CASE Symbol = {}
  BY <1>3, <1>6, <1>7 DEF FirstRun, ShortIn
<1>8. CASE Symbol # {}
  <2>1. \A s \in Symbol : Within(s, 0)' = {} /\ Cardinality(Within(s, 0)' \cap Valued(s)') = 0
    BY FS_EmptySet DEF Within
  <2>2. Worked(0)' /\ RestHasEnough'
    BY <1>2, <1>3, <1>5, <1>6, <2>1 DEF Worked, RestHasEnough
  <2>3. \A s \in short' : parts'[s] = Within(s, 0)'
    BY <1>2, <1>3, <1>6, <2>1
  <2>4. stage' = "land"
    BY <1>3, <1>6, <1>8
  <2>5. FirstRound(back)'
    BY <1>2, <1>3, <2>2, <2>3, <2>4 DEF FirstRound
  <2>. QED BY <1>3, <2>4, <2>5, RoundStays
<1>. QED BY <1>7, <1>8

(* No symbol of a round is skipped: nobody has a row as far back as the    *)
(* window's start.                                                         *)
LEMMA FirstLanding ==
  ASSUME TypeOK, LedgerInv, FirstRun, [Next]_vars, BeginLanding
  PROVE  FirstRun'
<1>1. PICK back \in 0 .. window : FirstRound(back)
  BY DEF FirstRun, BeginLanding
<1>2. /\ gaps' = {s \in short : ~Skipped(s)} /\ silent' = 0
      /\ stage' \in {"batch", "fallback"} /\ stage = "land"
      /\ UNCHANGED <<source, parts, canonical, window, short, counts, staged>>
  BY DEF BeginLanding, disk
<1>3. /\ window = (back + 1) * Step /\ Worked(back) /\ RestHasEnough
      /\ \A s \in short : parts[s] = Within(s, back)
      /\ short \subseteq Symbol /\ back \in Nat
  BY <1>1, <1>2 DEF FirstRound, TypeOK
<1>4. ASSUME NEW s \in short PROVE ~Skipped(s)
  <2>1. \A d \in Within(s, back) : d \in Nat /\ d < window
    BY <1>3, WithinFacts
  <2>2. (back + 1) * Step \in Nat
    BY <1>3, StepFacts
  <2>3. canonical[s] = Within(s, back) /\ parts[s] = Within(s, back)
    BY <1>3 DEF Worked
  <2>. QED BY <1>3, <2>1, <2>2, <2>3 DEF Skipped, Covers
<1>5. gaps' = short
  BY <1>2, <1>4
<1>6. \A s \in Symbol : \A k : Within(s, k)' = Within(s, k) /\ Valued(s)' = Valued(s)
  BY <1>2 DEF Within, Rows, Valued
<1>7. Worked(back)' /\ RestHasEnough'
  BY <1>2, <1>3, <1>6 DEF Worked, RestHasEnough
<1>8. staged' = NoSymbol
  BY <1>2 DEF LedgerInv, StagedWhileLanding
<1>9. FirstRound(back)'
  BY <1>2, <1>3, <1>5, <1>6, <1>7, <1>8, NoSymbolIsNone DEF FirstRound, Fetched
<1>. QED BY <1>2, <1>9, RoundStays

(* What a call of a steady source brings is what lies within the window.   *)
LEMMA FirstStaging ==
  ASSUME TypeOK, Steady, FirstRun, [Next]_vars, NEW s \in Symbol, StagePart(s)
  PROVE  FirstRun'
<1>1. PICK back \in 0 .. window : FirstRound(back)
  BY DEF FirstRun, StagePart
<1>2. /\ stage \in {"batch", "fallback"} /\ staged = NoSymbol /\ s \in gaps /\ staged' = s
      /\ UNCHANGED <<source, canonical, stage, window, short, gaps, silent, counts>>
  BY DEF StagePart
<1>3. /\ window = (back + 1) * Step /\ Worked(back) /\ RestHasEnough
      /\ silent = 0 /\ gaps \subseteq short
      /\ short \subseteq Symbol /\ back \in Nat
  BY <1>1, <1>2 DEF FirstRound, TypeOK
<1>4. \A t \in short :
        parts[t] = IF t \in gaps THEN Within(t, back) ELSE Within(t, back + 1)
  BY <1>1, <1>2, <1>3, NoSymbolIsNone DEF FirstRound, Fetched
<1>5. parts'[s] = Within(s, back + 1) /\ \A t \in Symbol : t # s => parts'[t] = parts[t]
  <2>1. Answers(s) \subseteq {Full(s)}
    BY DEF Answers, Steady
  <2>2. parts' = [parts EXCEPT ![s] = Full(s)]
    BY <2>1 DEF StagePart
  <2>3. Full(s) = Within(s, back + 1)
    BY <1>3, WithinFacts DEF Full
  <2>. QED BY <2>2, <2>3 DEF TypeOK
<1>6. \A t \in Symbol : \A k : Within(t, k)' = Within(t, k) /\ Valued(t)' = Valued(t)
  BY <1>2 DEF Within, Rows, Valued
<1>7. Worked(back)' /\ RestHasEnough'
  BY <1>2, <1>3, <1>6 DEF Worked, RestHasEnough
<1>8. Fetched(back)'
  BY <1>2, <1>3, <1>4, <1>5, <1>6 DEF Fetched
<1>9. FirstRound(back)'
  BY <1>2, <1>3, <1>7, <1>8 DEF FirstRound
<1>. QED BY <1>2, <1>9, RoundStays

(* A recorded answer takes its symbol off the round; nobody times out.     *)
LEMMA FirstRecording ==
  ASSUME TypeOK, FirstRun, [Next]_vars, NEW s \in Symbol,
         RecordBatchPart(s) \/ RecordFetchedPart(s)
  PROVE  FirstRun'
<1>1. PICK back \in 0 .. window : FirstRound(back)
  BY DEF FirstRun, RecordBatchPart, RecordFetchedPart
<1>2. /\ stage \in {"batch", "fallback"} /\ staged = s /\ staged' = NoSymbol
      /\ gaps' = gaps \ {s} /\ (silent' = 0 \/ silent' = silent)
      /\ UNCHANGED <<source, parts, canonical, stage, window, short, counts>>
  BY DEF RecordBatchPart, RecordFetchedPart, Round!Answered, Round!Report
<1>3. /\ window = (back + 1) * Step /\ Worked(back) /\ RestHasEnough
      /\ silent = 0 /\ gaps \subseteq short
      /\ short \subseteq Symbol /\ back \in Nat
      /\ Fetched(back)
  BY <1>1, <1>2 DEF FirstRound, TypeOK
<1>4. \A t \in Symbol : \A k : Within(t, k)' = Within(t, k) /\ Valued(t)' = Valued(t)
  BY <1>2 DEF Within, Rows, Valued
<1>5. Worked(back)' /\ RestHasEnough'
  BY <1>2, <1>3, <1>4 DEF Worked, RestHasEnough
<1>6. Fetched(back)'
  BY <1>2, <1>3, <1>4, NoSymbolIsNone DEF Fetched
<1>7. FirstRound(back)'
  BY <1>2, <1>3, <1>5, <1>6 DEF FirstRound
<1>. QED BY <1>2, <1>7, RoundStays

(* The round closes with nobody left: the source was never silent.         *)
LEMMA FirstClosing ==
  ASSUME TypeOK, FirstRun, [Next]_vars, EndBatchChunk \/ EndFallback
  PROVE  FirstRun'
<1>1. PICK back \in 0 .. window : FirstRound(back)
  BY DEF FirstRun, EndBatchChunk, EndFallback
<1>2. /\ stage \in {"batch", "fallback"} /\ staged = NoSymbol
      /\ stage' \in {"batch", "fallback", "flush"}
      /\ UNCHANGED <<source, parts, canonical, window, short, counts, gaps, silent, staged>>
  BY DEF EndBatchChunk, EndFallback, disk, Round!Close
<1>3. /\ window = (back + 1) * Step /\ Worked(back) /\ RestHasEnough
      /\ silent = 0 /\ gaps \subseteq short
      /\ short \subseteq Symbol /\ back \in Nat
      /\ Fetched(back)
  BY <1>1, <1>2 DEF FirstRound, TypeOK
<1>4. \A t \in Symbol : \A k : Within(t, k)' = Within(t, k) /\ Valued(t)' = Valued(t)
  BY <1>2 DEF Within, Rows, Valued
<1>5. Worked(back)' /\ RestHasEnough'
  BY <1>2, <1>3, <1>4 DEF Worked, RestHasEnough
<1>6. stage' = "flush" => gaps = {}
  BY <1>2, <1>3, WidthPositive DEF EndBatchChunk, EndFallback, Round!Close, Round!SourceIsSilent
<1>7. Fetched(back)' /\ (stage' = "flush" => \A t \in short' : parts'[t] = Within(t, back + 1)')
  BY <1>2, <1>3, <1>4, <1>6 DEF Fetched
<1>8. FirstRound(back)'
  BY <1>2, <1>3, <1>5, <1>7 DEF FirstRound
<1>. QED BY <1>2, <1>8, RoundStays

(* The parts of the round reach the market file, whatever entries say.     *)
LEMMA FirstMerging ==
  ASSUME TypeOK, DiskInv, ResumeInv, FirstRun, [Next]_vars, FlushLanding \/ CompactLanding
  PROVE  FirstRun'
<1>1. PICK back \in 0 .. window : FirstRound(back)
  BY DEF FirstRun, FlushLanding, CompactLanding
<1>2. /\ stage \in {"flush", "compact"}
      /\ stage = "flush" => stage' = "compact" /\ canonical' = canonical
      /\ stage = "compact" => stage' = "measure" /\ canonical' = Compacted
      /\ UNCHANGED <<source, parts, window, short, counts>>
  BY DEF FlushLanding, CompactLanding
<1>3. /\ window = (back + 1) * Step /\ Worked(back) /\ RestHasEnough
      /\ short \subseteq Symbol /\ back \in Nat
      /\ \A t \in short : parts[t] = Within(t, back + 1)
  BY <1>1, <1>2 DEF FirstRound, TypeOK
<1>4. \A t \in Symbol : \A k : Within(t, k)' = Within(t, k) /\ Valued(t)' = Valued(t)
  BY <1>2 DEF Within, Rows, Valued
<1>5. CASE stage = "flush"
  <2>1. Worked(back)' /\ RestHasEnough'
    BY <1>2, <1>3, <1>4, <1>5 DEF Worked, RestHasEnough
  <2>2. FirstRound(back)'
    BY <1>2, <1>3, <1>4, <1>5, <2>1 DEF FirstRound
  <2>. QED BY <1>2, <1>5, <2>2, RoundStays
<1>6. CASE stage = "compact"
  <2>1. ASSUME NEW s \in short PROVE Compacted[s] = Within(s, back + 1)
    <3>1. Within(s, back) \subseteq Within(s, back + 1)
      BY <1>3, WithinFacts
    <3>2. canonical[s] = Within(s, back) /\ parts[s] = Within(s, back + 1)
      BY <1>3 DEF Worked
    <3>3. parts[s] # {} => IsLandedEvidence(s)
      BY <1>3, PartsCount DEF ResumeInv
    <3>. QED BY <1>3, <3>1, <3>2, <3>3 DEF Compacted
  <2>2. ASSUME NEW s \in Symbol \ short
        PROVE  Cardinality(Compacted[s] \cap Valued(s)) >= BarsRequired
    <3>1. /\ canonical[s] \subseteq Compacted[s]
          /\ Compacted[s] \subseteq Day
      BY CompactedGrows
    <3>2. /\ canonical[s] \cap Valued(s) \subseteq Compacted[s] \cap Valued(s)
          /\ Compacted[s] \cap Valued(s) \subseteq Day
      BY <3>1
    <3>3. /\ IsFiniteSet(Compacted[s] \cap Valued(s))
          /\ IsFiniteSet(canonical[s] \cap Valued(s))
      BY <3>2, DaysAreNat, FS_Subset
    <3>4. /\ Cardinality(canonical[s] \cap Valued(s)) \in Nat
          /\ Cardinality(Compacted[s] \cap Valued(s)) \in Nat
          /\ Cardinality(canonical[s] \cap Valued(s)) <= Cardinality(Compacted[s] \cap Valued(s))
      BY <3>2, <3>3, FS_Subset, FS_CardinalityType
    <3>. QED BY <1>3, <3>4, SizesPositive DEF RestHasEnough
  <2>3. RestHasEnough'
    BY <1>2, <1>4, <1>6, <2>2 DEF RestHasEnough
  <2>4. \A s \in short' : /\ canonical'[s] = Within(s, back + 1)'
                          /\ parts'[s] = Within(s, back + 1)'
                          /\ counts'[s] = Cardinality(Within(s, back)' \cap Valued(s)')
    BY <1>2, <1>3, <1>4, <1>6, <2>1 DEF Worked
  <2>5. FirstRound(back)'
    BY <1>2, <1>3, <1>6, <2>3, <2>4 DEF FirstRound
  <2>. QED BY <1>2, <1>6, <2>5, RoundStays
<1>. QED BY <1>2, <1>5, <1>6

(* The decision: who is still short has no more history, or the window     *)
(* opens a step further.                                                   *)
LEMMA FirstDecision ==
  ASSUME TypeOK, Steady, FirstRun, [Next]_vars, Measure
  PROVE  FirstRun'
<1>1. PICK back \in 0 .. window : FirstRound(back)
  BY DEF FirstRun, Measure
<1>2. /\ stage = "measure" /\ counts' = BarCounts(canonical)
      /\ UNCHANGED <<source, parts, canonical>>
      /\ short' \subseteq short
  BY DEF Measure, disk, ShortIn
<1>3. /\ window = (back + 1) * Step /\ RestHasEnough
      /\ short \subseteq Symbol /\ back \in Nat
      /\ \A s \in short : /\ canonical[s] = Within(s, back + 1)
                         /\ parts[s] = Within(s, back + 1)
                         /\ counts[s] = Cardinality(Within(s, back) \cap Valued(s))
  BY <1>1, <1>2 DEF FirstRound, TypeOK
<1>4. \A t \in Symbol : \A k : Within(t, k)' = Within(t, k) /\ Valued(t)' = Valued(t)
  BY <1>2 DEF Within, Rows, Valued
<1>5. \A s \in Symbol : counts'[s] = Cardinality(canonical[s] \cap Valued(s))
  BY <1>2 DEF BarCounts
<1>6. counts' \in [Symbol -> Nat]
  BY <1>2, BarCountsType DEF TypeOK
<1>7. CASE stage' = "finish"
  <2>1. ASSUME NEW s \in ShortIn(Symbol, counts') PROVE Valued(s) \subseteq canonical[s]
    <3>1. s \in Symbol /\ counts'[s] < BarsRequired
      BY DEF ShortIn
    <3>2. s \in short
      <4>1. BarsRequired \in Nat /\ counts'[s] \in Nat
        BY <1>6, <3>1, SizesPositive
      <4>2. ~(counts'[s] >= BarsRequired)
        BY <3>1, <4>1
      <4>3. ~(Cardinality(canonical[s] \cap Valued(s)) >= BarsRequired)
        BY <1>5, <3>1, <4>2
      <4>. QED BY <1>3, <3>1, <4>3 DEF RestHasEnough
    <3>3. AddedNothing
      BY <1>7, <3>1, <3>2 DEF Measure, ShortIn
    <3>4. Cardinality(Within(s, back + 1) \cap Valued(s))
            = Cardinality(Within(s, back) \cap Valued(s))
      BY <1>3, <1>5, <3>1, <3>2, <3>3 DEF AddedNothing
    <3>. QED BY <1>3, <3>1, <3>2, <3>4, NoMoreHistory
  <2>. QED BY <1>2, <1>4, <1>7, <2>1 DEF FirstRun, ShortIn
<1>8. CASE stage' = "land"
  <2>1. window' = window + Step /\ short' = ShortIn(short, counts')
    BY <1>8 DEF Measure
  <2>2. /\ (back + 1) * Step \in Nat /\ (back + 1) * Step >= back + 1
        /\ ((back + 1) + 1) * Step = (back + 1) * Step + Step
        /\ Step \in Nat
    BY <1>3, StepFacts
  <2>3. back + 1 \in 0 .. window' /\ window' = ((back + 1) + 1) * Step
    BY <1>3, <2>1, <2>2
  <2>4. Worked(back + 1)'
    BY <1>2, <1>3, <1>4, <1>5, <2>1 DEF Worked
  <2>5. RestHasEnough'
    <3>1. SUFFICES ASSUME NEW s \in Symbol, s \notin short'
                   PROVE  Cardinality(canonical[s] \cap Valued(s)) >= BarsRequired
      BY <1>2, <1>4 DEF RestHasEnough
    <3>2. CASE s \in short
      BY <1>5, <1>6, <2>1, <3>1, <3>2, SizesPositive DEF ShortIn
    <3>. QED BY <1>3, <3>1, <3>2 DEF RestHasEnough
  <2>6. \A s \in short' : parts'[s] = Within(s, back + 1)'
    BY <1>2, <1>3, <1>4
  <2>7. FirstRound(back + 1)'
    BY <1>8, <2>3, <2>4, <2>5, <2>6 DEF FirstRound
  <2>. QED BY <1>8, <2>3, <2>7 DEF FirstRun
<1>. QED BY <1>7, <1>8 DEF Measure

(* What a first run without a failure knows is kept by every step.         *)
LEMMA FirstStays ==
  ASSUME TypeOK, DiskInv, LedgerInv, ResumeInv, Steady, FirstInv, [Next]_vars
  PROVE  FirstInv'
<1>1. CASE Start
  <2>1. ASSUME starts' = 1 PROVE FirstRun'
    <3>1. Pristine
      BY <1>1, <2>1 DEF FirstInv, Start, TypeOK
    <3>2. /\ stage' = "open" /\ window' = (0 + 1) * Step /\ window' \in Nat
          /\ \A s \in Symbol : parts'[s] = {} /\ canonical'[s] = {}
      BY <1>1, <3>1, StepFacts DEF Start, ResetMemory, Pristine, disk
    <3>3. FirstRound(0)'
      BY <3>2 DEF FirstRound
    <3>. QED BY <3>2, <3>3 DEF FirstRun
  <2>. QED BY <1>1, <2>1 DEF Start, FirstInv, TypeOK
<1>2. CASE UNCHANGED vars
  <2>1. /\ UNCHANGED <<source, parts, canonical, stage, window, short, gaps, silent, staged,
                      counts, failed, starts>>
        /\ \A s \in Symbol : \A k : Within(s, k)' = Within(s, k) /\ Valued(s)' = Valued(s)
    BY <1>2 DEF vars, disk, memory, Within, Rows, Valued
  <2>2. short \subseteq Symbol
    BY DEF TypeOK
  <2>3. ASSUME NEW back \in Nat, FirstRound(back) PROVE FirstRound(back)'
    <3>1. /\ Worked(back) => Worked(back)'
          /\ RestHasEnough => RestHasEnough'
          /\ Fetched(back) => Fetched(back)'
      BY <2>1, <2>2 DEF Worked, RestHasEnough, Fetched
    <3>. QED BY <2>1, <2>2, <2>3, <3>1 DEF FirstRound
  <2>4. FirstRun => FirstRun'
    BY <2>1, <2>3 DEF FirstRun, ShortIn, TypeOK
  <2>. QED BY <2>1, <2>4 DEF FirstInv, Pristine
<1>3. ASSUME starts' = starts, stage # "down",
             starts = 1 /\ failed' = {} => FirstRun'
      PROVE  FirstInv'
  BY <1>3 DEF FirstInv, Pristine
<1>4. CASE Crash
  BY <1>3, <1>4 DEF Crash, FirstRun
<1>5. ASSUME NEW s \in Symbol, NEW state \in FailedState, RecordFailure(s, state)
      PROVE  FirstInv'
  BY <1>3, <1>5 DEF RecordFailure
<1>6. ASSUME starts' = starts, stage # "down", failed' = failed, FirstRun => FirstRun'
      PROVE  FirstInv'
  BY <1>3, <1>6 DEF FirstInv
<1>7. CASE CompactOnOpen \/ EndAdoption \/ \E s \in Symbol : AdoptPart(s)
  BY <1>6, <1>7, FirstOpening DEF CompactOnOpen, EndAdoption, AdoptPart
<1>8. CASE MeasureFirst
  BY <1>6, <1>8, FirstMeasurement DEF MeasureFirst
<1>9. CASE BeginLanding
  BY <1>6, <1>9, FirstLanding DEF BeginLanding
<1>10. ASSUME NEW s \in Symbol, StagePart(s) PROVE FirstInv'
  BY <1>6, <1>10, FirstStaging DEF StagePart
<1>11. ASSUME NEW s \in Symbol, RecordBatchPart(s) \/ RecordFetchedPart(s) PROVE FirstInv'
  BY <1>6, <1>11, FirstRecording DEF RecordBatchPart, RecordFetchedPart
<1>12. CASE EndBatchChunk \/ EndFallback
  BY <1>6, <1>12, FirstClosing DEF EndBatchChunk, EndFallback
<1>13. CASE FlushLanding \/ CompactLanding
  BY <1>6, <1>13, FirstMerging DEF FlushLanding, CompactLanding
<1>14. CASE Measure
  BY <1>6, <1>14, FirstDecision DEF Measure
<1>15. CASE Finish
  <2>1. /\ stage = "finish" /\ stage' = "done" /\ counts' = counts
        /\ source' = source /\ canonical' = Compacted
    BY <1>15 DEF Finish
  <2>2. FirstRun => FirstRun'
    BY <2>1, CompactedGrows DEF FirstRun, ShortIn, Valued
  <2>. QED BY <1>6, <1>15, <2>2 DEF Finish
<1>. QED BY <1>1, <1>2, <1>4, <1>5, <1>7, <1>8, <1>9, <1>10, <1>11, <1>12, <1>13, <1>14, <1>15
         DEF Next, Run

(* The resumption invariant: all of it under a steady source.              *)
ResumesInv == Steady => ResumeInv /\ FirstInv

LEMMA ResumesInvInductive ==
  /\ Init => ResumesInv
  /\ TypeOK /\ DiskInv /\ ReportInv /\ LedgerInv /\ ResumesInv /\ [Next]_vars => ResumesInv'
<1>1. Init => FirstInv
  BY DEF Init, FirstInv, Pristine
<1>2. ASSUME TypeOK, DiskInv, ReportInv, LedgerInv, ResumesInv, [Next]_vars PROVE ResumesInv'
  <2>1. Steady' => Steady
    BY <1>2, OutsideStays
  <2>2. ASSUME Steady PROVE ResumeInv' /\ FirstInv'
    BY <1>2, <2>2, EntriesStay, WindowStays, MergedStays, GapsStay, FirstStays
       DEF ResumesInv, ResumeInv
  <2>. QED BY <2>1, <2>2 DEF ResumesInv
<1>. QED BY <1>1, <1>2, ResumeInit DEF ResumesInv

(* When no call fails and the source is steady, nothing that is staged is  *)
(* forgotten: a rerun, after any crash, merges it before it decides what   *)
(* to fetch and asks for none of it again, and a first run that ends with  *)
(* a symbol short has landed all the source has of it.                     *)
THEOREM RunsResume == Spec => RunResumes
<1>1. ASSUME TypeOK, ResumesInv
      PROVE  Steady => StagedIsMerged /\ FirstShortMeansExhausted
  BY <1>1 DEF ResumesInv, ResumeInv, FirstInv, FirstRun, FirstShortMeansExhausted,
     ShortMeansExhausted
<1>2. ASSUME TypeOK, ResumesInv, [Next]_vars PROVE [Steady => NothingTwice]_vars
  <2>1. ASSUME Steady, NEW s \in Symbol, StagePart(s) PROVE ~Covers(parts[s])
    BY <1>2, <2>1, NoSymbolIsNone DEF ResumesInv, ResumeInv, GapsAreGaps, StagePart
  <2>. QED BY <2>1 DEF NothingTwice
<1>3. QED BY <1>1, <1>2, TypeCorrect, DiskInvInductive, ReportInvInductive, LedgerInvInductive,
             ResumesInvInductive, PTL DEF Spec, RunResumes

=============================================================================
