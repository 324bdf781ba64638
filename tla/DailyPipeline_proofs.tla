------------------------ MODULE DailyPipeline_proofs ------------------------
(***************************************************************************)
(* Theorems about DailyPipeline for one process at a time: any inputs, any *)
(* versions, any number of starts, crashes and landings. Of two processes  *)
(* at once the second may replace a snapshot of the first.                 *)
(***************************************************************************)
EXTENDS DailyPipeline, TLAPS

-----------------------------------------------------------------------------
(* Where the stages stand in the pipeline. *)

(* Each kind has a stage of its own, and CANDIDATE has the last.           *)
LEMMA WriterFacts ==
  /\ \A k \in Kind : Writer[k] \in {3, 4, 5, 6, 9}
  /\ \A j, k \in Kind : Writer[j] = Writer[k] => j = k
  /\ \A k \in Kind : Writer[k] = 9 <=> k = "CANDIDATE"
BY DEF Kind, Writer

(* The sync and the normalization stand before the stages that write, and  *)
(* of those only the last can be blocked.                                  *)
LEMMA StageFacts ==
  /\ Len(Order) = 11
  /\ \A i \in Positions :
       /\ Order[i] \in Stage
       /\ Order[i] = "SYNC_DATA" <=> i = 1
       /\ Order[i] = "NORMALIZE" <=> i = 2
       /\ Blocked(Order[i]) => i \in {7, 8, 9, 10}
       /\ Silent(Order[i]) => i \in {7, 8, 11}
<1>1. Len(Order) = 11
  BY DEF Order
<1>2. ASSUME NEW i \in Positions
      PROVE  /\ Order[i] \in Stage
             /\ Order[i] = "SYNC_DATA" <=> i = 1
             /\ Order[i] = "NORMALIZE" <=> i = 2
             /\ Blocked(Order[i]) => i \in {7, 8, 9, 10}
             /\ Silent(Order[i]) => i \in {7, 8, 11}
  <2>1. i \in {1, 2, 3, 4, 5, 6, 7, 8, 9, 10, 11}
    BY DEF Positions
  <2>2. Order[i] \in Stage
    BY DEF Stage
  <2> QED BY <2>1, <2>2 DEF Order, Blocked, Silent
<1> QED BY <1>1, <1>2

(* What a stage computes from inputs it has read is the content of a kind. *)
LEMMA ComputedIsContent ==
  ASSUME NEW r \in Run, NEW k \in Kind, read[r] \in [Input -> Version]
  PROVE  /\ Computed(r, k) \in Content
         /\ Computed(r, k) # None /\ Computed(r, k) # Torn
         /\ DOMAIN Computed(r, k) = Reads[k]
<1>1. Reads[k] \subseteq Input
  BY DEF Reads, Kind, Input
<1>2. Computed(r, k) \in [Reads[k] -> Version]
  BY <1>1 DEF Computed
<1>3. Computed(r, k) \in Content
  BY <1>2 DEF Content
<1> QED BY <1>3, NoneAndTornAreNoContent DEF Computed

(* Recording an entry in a list of entries gives a list of entries.        *)
LEMMA ReplacedType ==
  ASSUME NEW entries \in Seq(Entry), NEW entry \in Entry
  PROVE  Replaced(entries, entry) \in Seq(Entry)
<1>1. CASE \E i \in DOMAIN entries : entries[i].stage = entry.stage
  <2> DEFINE new == [i \in DOMAIN entries |->
               IF entries[i].stage = entry.stage THEN entry ELSE entries[i]]
  <2>1. DOMAIN entries = 1 .. Len(entries) /\ Len(entries) \in Nat
    OBVIOUS
  <2>2. \A i \in 1 .. Len(entries) : new[i] \in Entry
    BY <2>1
  <2>3. new \in [1 .. Len(entries) -> Entry]
    BY <2>1, <2>2
  <2>4. new \in Seq(Entry)
    BY <2>1, <2>3
  <2> QED BY <1>1, <2>4 DEF Replaced
<1>2. CASE ~ \E i \in DOMAIN entries : entries[i].stage = entry.stage
  BY <1>2 DEF Replaced
<1> QED BY <1>1, <1>2
-----------------------------------------------------------------------------
(* What a run knows at each point of a stage. The type invariant needs it: *)
(* a snapshot is typed because its inputs have been read, and an entry of  *)
(* the manifest because its stage has a verdict.                           *)

HasRead(r) == at[r] > 2 \/ (at[r] = 2 /\ verdict[r] = "SUCCEEDED")

RunInv ==
  \A r \in Run : step[r] # "down" =>
    /\ read[r]["market"] \in Version
    /\ HasRead(r) => read[r] \in [Input -> Version]
    /\ step[r] \in {"stage", "check", "open", "fill"} <=> verdict[r] = None
    /\ at[r] \in 2 .. 6 => verdict[r] \notin {"BLOCKED", "SKIPPED"}

(* The type invariant and RunInv hold together, for any number of          *)
(* processes.                                                              *)
LEMMA TypeInductive ==
  /\ Init => TypeOK /\ RunInv
  /\ TypeOK /\ RunInv /\ [Next]_vars => TypeOK' /\ RunInv'
<1>1. Init => TypeOK
  <2> SUFFICES ASSUME Init PROVE TypeOK
    OBVIOUS
  <2>1. snapshots \in [Kind -> Content \cup {None, Torn}]
    BY DEF Init
  <2>2. at \in [Run -> Positions] /\ step \in [Run -> Steps]
    BY DEF Init, Positions, Steps
  <2>3. read \in [Run -> [Input -> Version \cup {None}]]
    BY DEF Init
  <2>4. verdict \in [Run -> Status \cup {None}] /\ seen \in [Run -> Seq(Entry)]
    BY DEF Init
  <2> QED BY <2>1, <2>2, <2>3, <2>4 DEF Init, TypeOK
<1>2. Init => RunInv
  BY DEF Init, RunInv
<1>3. TypeOK /\ RunInv /\ [Next]_vars => TypeOK'
  <2> SUFFICES ASSUME TypeOK, RunInv, [Next]_vars PROVE TypeOK'
    OBVIOUS
  <2> USE DEF TypeOK, files
  <2>1. ASSUME NEW r \in Run, NEW status \in Status, Conclude(r, status)
        PROVE  /\ verdict' \in [Run -> Status \cup {None}]
               /\ step' \in [Run -> Steps]
    BY <2>1 DEF Conclude, Steps
  <2>2. ASSUME NEW r \in Run, Begin(r) PROVE TypeOK'
    <3>1. read' \in [Run -> [Input -> Version \cup {None}]]
      BY <2>2 DEF Begin
    <3>2. /\ at' \in [Run -> Positions] /\ step' \in [Run -> Steps]
          /\ verdict' \in [Run -> Status \cup {None}]
          /\ seen' \in [Run -> Seq(Entry)]
      BY <2>2 DEF Begin, Positions, Steps
    <3> QED BY <2>2, <3>1, <3>2 DEF Begin
  <2>3. ASSUME NEW r \in Run, SkipSync(r) \/ Block(r) PROVE TypeOK'
    BY <2>1, <2>3 DEF SkipSync, Block, Status
  <2>4. ASSUME NEW r \in Run, Sync(r) PROVE TypeOK'
    <3>1. raw' \in [Input -> Version]
      BY <2>4 DEF Sync
    <3>2. "SUCCEEDED" \in Status /\ "FAILED" \in Status
      BY DEF Status
    <3> QED BY <2>1, <2>4, <3>1, <3>2 DEF Sync
  <2>5. ASSUME NEW r \in Run, Normalize(r) PROVE TypeOK'
    <3>1. [raw EXCEPT !["market"] = read[r]["market"]]
             \in [Input -> Version \cup {None}]
      BY DEF Input
    <3>3. read' \in [Run -> [Input -> Version \cup {None}]]
      BY <2>5, <3>1 DEF Normalize
    <3>2. "SUCCEEDED" \in Status /\ "FAILED" \in Status
      BY DEF Status
    <3> QED BY <2>1, <2>5, <3>2, <3>3 DEF Normalize
  <2>6. ASSUME NEW r \in Run, Judge(r) PROVE TypeOK'
    <3>1. \E status \in Status : Conclude(r, status)
      BY <2>6 DEF Judge, Status
    <3> QED BY <2>1, <2>6, <3>1 DEF Judge
  <2>7. ASSUME NEW r \in Run, Compute(r) PROVE TypeOK'
    <3>1. "FAILED" \in Status /\ "check" \in Steps
      BY DEF Status, Steps
    <3> QED BY <2>1, <2>7, <3>1 DEF Compute
  <2>8. ASSUME NEW r \in Run, NEW k \in Kind, CheckSnapshot(r, k) PROVE TypeOK'
    <3>1. Answer(r, k) \in Status /\ "open" \in Steps
      BY DEF Answer, Status, Steps
    <3> QED BY <2>1, <2>8, <3>1 DEF CheckSnapshot
  <2>9. ASSUME NEW r \in Run, NEW k \in Kind, OpenSnapshot(r, k) PROVE TypeOK'
    BY <2>9 DEF OpenSnapshot, Steps
  <2>10. ASSUME NEW r \in Run, LookAtManifest(r) \/ AbandonRun(r) PROVE TypeOK'
    BY <2>10 DEF LookAtManifest, AbandonRun, Steps
  <2>11. ASSUME NEW r \in Run, TruncateManifest(r) \/ Crash(r) PROVE TypeOK'
    BY <2>11 DEF TruncateManifest, Crash, Steps
  <2>12. ASSUME NEW i \in Input, NEW v \in Version, Land(i, v) PROVE TypeOK'
    BY <2>12 DEF Land
  <2>13. CASE UNCHANGED vars
    BY <2>13 DEF vars
  <2>14. ASSUME NEW r \in Run, NEW k \in Kind, FillSnapshot(r, k) PROVE TypeOK'
    <3>1. at[r] = Writer[k] /\ step[r] = "fill"
      BY <2>14 DEF FillSnapshot, Kinds
    <3>4. at[r] \in {3, 4, 5, 6, 9}
      BY <3>1, WriterFacts
    <3>5. HasRead(r)
      BY <3>4 DEF HasRead
    <3>6. read[r] \in [Input -> Version]
      BY <3>1, <3>5 DEF RunInv
    <3>2. Computed(r, k) \in Content
      BY <3>6, ComputedIsContent
    <3>3. "SUCCEEDED" \in Status
      BY DEF Status
    <3> QED BY <2>1, <2>14, <3>2, <3>3 DEF FillSnapshot
  <2>15. ASSUME NEW r \in Run, RecordVerdict(r) PROVE TypeOK'
    <3>6. at[r] \in Positions /\ step[r] = "record"
      BY <2>15 DEF RecordVerdict
    <3>7. verdict[r] # None
      BY <3>6 DEF RunInv
    <3>8. verdict[r] \in Status
      BY <3>7
    <3>9. stageOf(r) \in Stage
      BY <3>6 DEF Stage, stageOf
    <3>1. verdict[r] \in Status /\ stageOf(r) \in Stage
      BY <3>8, <3>9
    <3>2. [stage |-> stageOf(r), status |-> verdict[r]] \in Entry
      BY <3>1 DEF Entry
    <3>3. manifest' \in Seq(Entry)
      BY <2>15, <3>2, ReplacedType DEF RecordVerdict
    <3>4. at' \in [Run -> Positions]
      <4>1. CASE Over(r)
        BY <2>15, <4>1 DEF RecordVerdict
      <4>2. CASE ~Over(r)
        <5>2. at[r] # 11
          BY <4>2, StageFacts DEF Over
        <5>1. at[r] + 1 \in Positions
          BY <3>6, <5>2 DEF Positions
        <5> QED BY <2>15, <4>2, <5>1 DEF RecordVerdict, NextPosition
      <4> QED BY <4>1, <4>2
    <3>5. step' \in [Run -> Steps] /\ verdict' \in [Run -> Status \cup {None}]
      BY <2>15 DEF RecordVerdict, Steps
    <3> QED BY <2>15, <3>3, <3>4, <3>5 DEF RecordVerdict
  <2> QED BY <2>2, <2>3, <2>4, <2>5, <2>6, <2>7, <2>8, <2>9, <2>10, <2>11,
             <2>12, <2>13, <2>14, <2>15 DEF Next, Pipeline
<1>4. TypeOK /\ RunInv /\ [Next]_vars => RunInv'
  <2> SUFFICES ASSUME TypeOK, RunInv, [Next]_vars,
                      NEW r \in Run, step'[r] # "down"
               PROVE  /\ read'[r]["market"] \in Version
                      /\ HasRead(r)' => read'[r] \in [Input -> Version]
                      /\ step'[r] \in {"stage", "check", "open", "fill"}
                           <=> verdict'[r] = None
                      /\ at'[r] \in 2 .. 6
                           => verdict'[r] \notin {"BLOCKED", "SKIPPED"}
    BY DEF RunInv
  <2> DEFINE Good ==
        /\ read[r]["market"] \in Version
        /\ HasRead(r) => read[r] \in [Input -> Version]
        /\ step[r] \in {"stage", "check", "open", "fill"} <=> verdict[r] = None
        /\ at[r] \in 2 .. 6 => verdict[r] \notin {"BLOCKED", "SKIPPED"}
  <2>0. step[r] # "down" => Good
    BY DEF RunInv
  <2>1. ASSUME UNCHANGED <<at[r], step[r], read[r], verdict[r]>> PROVE Good'
    BY <2>0, <2>1 DEF HasRead
  <2>2. ASSUME NEW q \in Run, q # r, Begin(q) \/ Pipeline(q) \/ Crash(q)
        PROVE  UNCHANGED <<at[r], step[r], read[r], verdict[r]>>
    BY <2>2 DEF TypeOK, Begin, Pipeline, Crash, SkipSync, Sync, Block, Normalize,
          Judge, Compute, CheckSnapshot, OpenSnapshot, FillSnapshot,
          LookAtManifest, AbandonRun, TruncateManifest, RecordVerdict, Conclude
  <2>3. ASSUME (\E i \in Input, v \in Version : Land(i, v)) \/ UNCHANGED vars
        PROVE  UNCHANGED <<at[r], step[r], read[r], verdict[r]>>
    BY <2>3 DEF Land, vars
  <2>4. CASE Begin(r)
    <3>1. read'[r]["market"] = raw["market"] /\ raw["market"] \in Version
      BY <2>4 DEF Begin, TypeOK, Input
    <3> QED BY <2>4, <3>1 DEF Begin, TypeOK, HasRead
  <2>5. ASSUME NEW status \in Status, Conclude(r, status), step[r] # "down",
               UNCHANGED <<at, read>>,
               status \in {"BLOCKED", "SKIPPED"} => at[r] \notin 2 .. 6,
               at[r] = 2 /\ status = "SUCCEEDED" => read[r] \in [Input -> Version]
        PROVE  Good'
    BY <2>0, <2>5, NoneAndTornAreNoContent DEF Conclude, TypeOK, HasRead
  <2>6. CASE SkipSync(r)
    <3>1. at[r] = 1 /\ "SKIPPED" \in Status
      BY <2>6, StageFacts DEF SkipSync, stageOf, TypeOK, Status
    <3> QED BY <2>5, <2>6, <3>1 DEF SkipSync
  <2>7. CASE Sync(r)
    <3>1. at[r] = 1 /\ "SUCCEEDED" \in Status /\ "FAILED" \in Status
      BY <2>7, StageFacts DEF Sync, stageOf, TypeOK, Status
    <3> QED BY <2>5, <2>7, <3>1 DEF Sync
  <2>8. CASE Block(r)
    <3>1. at[r] \notin 2 .. 6 /\ "BLOCKED" \in Status
      BY <2>8, StageFacts DEF Block, stageOf, TypeOK, Status
    <3> QED BY <2>5, <2>8, <3>1 DEF Block
  <2>9. CASE Normalize(r)
    <3>1. at[r] = 2 /\ step[r] = "stage" /\ step[r] # "down"
      BY <2>9, StageFacts DEF Normalize, stageOf, TypeOK
    <3>2. [raw EXCEPT !["market"] = read[r]["market"]] \in [Input -> Version]
      BY <2>0, <3>1 DEF TypeOK, Input
    <3>3. read'[r] = read[r] \/ read'[r] \in [Input -> Version]
      BY <2>9, <3>2 DEF Normalize, TypeOK
    <3>4. read'[r]["market"] \in Version
      BY <2>0, <3>1, <3>3 DEF Input
    <3>5. at' = at /\ step'[r] = "look" /\ verdict'[r] \in {"FAILED", "SUCCEEDED"}
          /\ (verdict'[r] = "SUCCEEDED" => read'[r] \in [Input -> Version])
      BY <2>9, <3>2 DEF Normalize, Conclude, TypeOK
    <3>6. verdict'[r] # None
      BY <3>5, NoneAndTornAreNoContent DEF Status
    <3> QED BY <3>1, <3>4, <3>5, <3>6 DEF HasRead
  <2>10. CASE Judge(r)
    <3>1. at[r] \in Positions
      BY DEF TypeOK
    <3>2. Silent(Order[at[r]])
      BY <2>10 DEF Judge, stageOf
    <3>3. at[r] \in {7, 8, 11}
      BY <3>1, <3>2, StageFacts
    <3>4. at[r] # 2
      BY <3>3
    <3>5. "SUCCEEDED" \in Status /\ "FAILED" \in Status
      BY DEF Status
    <3> QED BY <2>5, <2>10, <3>4, <3>5 DEF Judge
  <2>11. CASE Compute(r)
    <3>1. "FAILED" \in Status
      BY DEF Status
    <3>2. CASE Conclude(r, "FAILED")
      BY <2>5, <2>11, <3>1, <3>2 DEF Compute
    <3>3. CASE step' = [step EXCEPT ![r] = "check"] /\ UNCHANGED verdict
      BY <2>0, <2>11, <3>3 DEF Compute, TypeOK, HasRead
    <3> QED BY <2>11, <3>2, <3>3 DEF Compute
  <2>12. ASSUME NEW k \in Kind, CheckSnapshot(r, k) PROVE Good'
    <3>1. Answer(r, k) \in Status /\ Answer(r, k) \notin {"BLOCKED", "SKIPPED"}
          /\ at[r] # 2
      BY <2>12, WriterFacts DEF Answer, Status, CheckSnapshot, Kinds
    <3>2. CASE Conclude(r, Answer(r, k))
      BY <2>5, <2>12, <3>1, <3>2 DEF CheckSnapshot
    <3>3. CASE step' = [step EXCEPT ![r] = "open"] /\ UNCHANGED verdict
      BY <2>0, <2>12, <3>3 DEF CheckSnapshot, TypeOK, HasRead
    <3> QED BY <2>12, <3>2, <3>3 DEF CheckSnapshot
  <2>13. ASSUME NEW k \in Kind, OpenSnapshot(r, k) PROVE Good'
    BY <2>0, <2>13 DEF OpenSnapshot, TypeOK, HasRead
  <2>14. ASSUME NEW k \in Kind, FillSnapshot(r, k) PROVE Good'
    <3>1. "SUCCEEDED" \in Status /\ at[r] # 2
      BY <2>14, WriterFacts DEF Status, FillSnapshot, Kinds
    <3> QED BY <2>5, <2>14, <3>1 DEF FillSnapshot
  <2>15. CASE LookAtManifest(r) \/ TruncateManifest(r)
    BY <2>0, <2>15 DEF LookAtManifest, TruncateManifest, TypeOK, HasRead
  <2>16. CASE AbandonRun(r) \/ Crash(r)
    BY <2>16 DEF AbandonRun, Crash, TypeOK
  <2>17. CASE RecordVerdict(r)
    <3>1. ~Over(r) /\ step[r] = "record" /\ read' = read
      BY <2>17 DEF RecordVerdict, TypeOK
    <3>2. step'[r] = "stage" /\ at'[r] = at[r] + 1 /\ verdict'[r] = None
      BY <2>17, <3>1 DEF RecordVerdict, NextPosition, TypeOK
    <3>6. verdict[r] # None /\ verdict[r] # "FAILED"
      BY <2>0, <3>1 DEF Over
    <3>7. verdict[r] \in Status \cup {None}
      BY DEF TypeOK
    <3>10. at[r] \in Positions
      BY DEF TypeOK
    <3>8. at[r] \in Nat /\ at[r] > 0
      BY <3>10 DEF Positions
    <3>3. verdict[r] \in Status \ {"FAILED"} /\ at[r] \in Nat /\ at[r] > 0
      BY <3>6, <3>7, <3>8
    <3>9. at[r] = 2 => verdict[r] = "SUCCEEDED"
      BY <2>0, <3>1, <3>3 DEF Status
    <3>4. at'[r] > 2 => read[r] \in [Input -> Version]
      <4>1. at'[r] > 2 => at[r] > 2 \/ at[r] = 2
        BY <3>2, <3>8
      <4> QED BY <2>0, <3>1, <3>9, <4>1 DEF HasRead
    <3>5. verdict'[r] # "SUCCEEDED" /\ verdict'[r] # "BLOCKED" /\ verdict'[r] # "SKIPPED"
      BY <3>2, NoneAndTornAreNoContent DEF Status
    <3> QED BY <2>0, <3>1, <3>2, <3>4, <3>5 DEF HasRead
  <2> QED BY <2>1, <2>2, <2>3, <2>4, <2>6, <2>7, <2>8, <2>9, <2>10, <2>11,
             <2>12, <2>13, <2>14, <2>15, <2>16, <2>17 DEF Next, Pipeline
<1> QED BY <1>1, <1>2, <1>3, <1>4

(* Every reachable state is well typed, for any number of processes.       *)
THEOREM TypeCorrect == Spec => []TypeOK
BY TypeInductive, PTL DEF Spec

-----------------------------------------------------------------------------
(* From here on one process runs at a time.                                *)

OneProcess == \A p, q \in Run : p = q

(* A snapshot that is being created is not there, then torn.               *)
Opening ==
  \A r \in Run, k \in Kind : Writer[k] = at[r] =>
    /\ step[r] = "open" => snapshots[k] = None
    /\ step[r] = "fill" => snapshots[k] = Torn

(* A run that goes on has found or made, for every stage behind it that    *)
(* writes, exactly the snapshot it computes itself. BUILD_CANDIDATES alone *)
(* can be passed without one: it may be blocked.                           *)
Owned ==
  \A r \in Run, k \in Kind : step[r] # "down" =>
    /\ Writer[k] < at[r] /\ k # "CANDIDATE" => snapshots[k] = Computed(r, k)
    /\ Writer[k] = at[r] /\ verdict[r] = "SUCCEEDED"
         => snapshots[k] = Computed(r, k)

(* Whatever an earlier run left behind, a complete snapshot has complete   *)
(* ones under it.                                                          *)
Layered ==
  \A j, k \in Kind : Written(k) /\ Writer[j] < Writer[k] => Written(j)

DayInv == Opening /\ Owned /\ Layered /\ DayAgrees

(* Only two actions touch the snapshots.                                   *)
LEMMA SnapshotSteps ==
  ASSUME [Next]_vars
  PROVE  \/ UNCHANGED snapshots
         \/ \E r \in Run, k \in Kind : OpenSnapshot(r, k) \/ FillSnapshot(r, k)
BY DEF Next, Pipeline, vars, files, Begin, Crash, Land, SkipSync, Sync, Block,
       Normalize, Judge, Compute, CheckSnapshot, LookAtManifest, AbandonRun,
       TruncateManifest, RecordVerdict

(* A run that fills in a snapshot has read its inputs, and has its own     *)
(* content in every snapshot of an earlier stage.                          *)
LEMMA BeforeFill ==
  ASSUME TypeOK, RunInv, DayInv, NEW r \in Run, NEW k \in Kind,
         FillSnapshot(r, k)
  PROVE  /\ at[r] = Writer[k] /\ step[r] = "fill"
         /\ snapshots[k] = Torn
         /\ read[r] \in [Input -> Version]
         /\ snapshots' = [snapshots EXCEPT ![k] = Computed(r, k)]
         /\ \A j \in Kind : Writer[j] < Writer[k] =>
              snapshots[j] = Computed(r, j)
         /\ \A j \in Kind : Written(j) /\ j # k => Writer[j] < Writer[k]
<1>1. at[r] = Writer[k] /\ step[r] = "fill"
  BY DEF FillSnapshot, Kinds
<1>2. snapshots[k] = Torn
  BY <1>1 DEF DayInv, Opening
<1>3. at[r] \in {3, 4, 5, 6, 9}
  BY <1>1, WriterFacts
<1>4. read[r] \in [Input -> Version]
  BY <1>1, <1>3 DEF RunInv, HasRead
<1>5. snapshots' = [snapshots EXCEPT ![k] = Computed(r, k)]
  BY DEF FillSnapshot
<1>6. ASSUME NEW j \in Kind, Writer[j] < Writer[k]
      PROVE  snapshots[j] = Computed(r, j)
  <2>1. Writer[j] # 9
    BY <1>6, WriterFacts
  <2>2. j # "CANDIDATE"
    BY <2>1, WriterFacts
  <2> QED BY <1>1, <1>6, <2>2 DEF DayInv, Owned
<1>7. ASSUME NEW j \in Kind, Written(j), j # k
      PROVE  Writer[j] < Writer[k]
  <2>1. Writer[j] # Writer[k]
    BY <1>7, WriterFacts
  <2>2. ~ (Writer[k] < Writer[j])
    BY <1>2, <1>7 DEF DayInv, Layered, Written
  <2>3. Writer[j] \in {3, 4, 5, 6, 9} /\ Writer[k] \in {3, 4, 5, 6, 9}
    BY WriterFacts
  <2> QED BY <2>1, <2>2, <2>3
<1> QED BY <1>1, <1>2, <1>4, <1>5, <1>6, <1>7

(* Two kinds computed by one run agree on the inputs they share.           *)
LEMMA ComputedAgree ==
  ASSUME NEW r \in Run, NEW j \in Kind, NEW k \in Kind
  PROVE  \A i \in Reads[j] \cap Reads[k] : Computed(r, j)[i] = Computed(r, k)[i]
BY DEF Computed

(* A run is only ever touched by itself. *)
LEMMA OwnSteps ==
  ASSUME TypeOK, [Next]_vars, NEW r \in Run
  PROVE  \/ Begin(r) \/ Pipeline(r) \/ Crash(r)
         \/ UNCHANGED <<at[r], step[r], read[r], verdict[r]>>
<1>1. ASSUME NEW q \in Run, q # r, Begin(q) \/ Pipeline(q) \/ Crash(q)
      PROVE  UNCHANGED <<at[r], step[r], read[r], verdict[r]>>
  BY <1>1 DEF TypeOK, Begin, Pipeline, Crash, SkipSync, Sync, Block, Normalize,
        Judge, Compute, CheckSnapshot, OpenSnapshot, FillSnapshot,
        LookAtManifest, AbandonRun, TruncateManifest, RecordVerdict, Conclude
<1>2. ASSUME (\E i \in Input, v \in Version : Land(i, v)) \/ UNCHANGED vars
      PROVE  UNCHANGED <<at[r], step[r], read[r], verdict[r]>>
  BY <1>2 DEF Land, vars
<1> QED BY <1>1, <1>2 DEF Next

(* Opening survives every step of the one process. *)
LEMMA OpeningInductive ==
  ASSUME OneProcess, TypeOK, RunInv, DayInv, [Next]_vars
  PROVE  Opening'
<1> SUFFICES ASSUME NEW r \in Run, NEW k \in Kind, Writer[k] = at'[r]
             PROVE  /\ step'[r] = "open" => snapshots'[k] = None
                    /\ step'[r] = "fill" => snapshots'[k] = Torn
  BY DEF Opening
<1>1. ASSUME NEW j \in Kind, OpenSnapshot(r, j)
      PROVE  step'[r] = "fill" /\ snapshots'[k] = Torn
  <2>1. Writer[j] = at[r] /\ at' = at
    BY <1>1 DEF OpenSnapshot, Kinds
  <2>2. j = k
    BY <2>1, WriterFacts
  <2> QED BY <1>1, <2>2 DEF OpenSnapshot, TypeOK
<1>2. ASSUME NEW j \in Kind, FillSnapshot(r, j)
      PROVE  step'[r] = "look"
  BY <1>2 DEF FillSnapshot, Conclude, TypeOK
<1>3. ASSUME NEW j \in Kind, CheckSnapshot(r, j)
      PROVE  \/ step'[r] = "look"
             \/ step'[r] = "open" /\ snapshots'[k] = None
  <2>1. Writer[j] = at[r] /\ at' = at /\ snapshots' = snapshots
    BY <1>3 DEF CheckSnapshot, Kinds, files
  <2>2. j = k
    BY <2>1, WriterFacts
  <2> QED BY <1>3, <2>1, <2>2 DEF CheckSnapshot, Conclude, Absent, TypeOK
<1>4. ASSUME Begin(r) \/ Crash(r) \/ SkipSync(r) \/ Sync(r) \/ Block(r)
             \/ Normalize(r) \/ Judge(r) \/ Compute(r) \/ LookAtManifest(r)
             \/ AbandonRun(r) \/ TruncateManifest(r) \/ RecordVerdict(r)
      PROVE  step'[r] \notin {"open", "fill"}
  BY <1>4 DEF Begin, Crash, SkipSync, Sync, Block, Normalize, Judge, Compute,
        LookAtManifest, AbandonRun, TruncateManifest, RecordVerdict, Conclude,
        TypeOK
<1>5. ASSUME UNCHANGED <<at[r], step[r], read[r], verdict[r]>>
      PROVE  /\ step'[r] = "open" => snapshots'[k] = None
             /\ step'[r] = "fill" => snapshots'[k] = Torn
  <2>1. CASE UNCHANGED snapshots
    BY <1>5, <2>1 DEF DayInv, Opening
  <2>2. CASE ~ UNCHANGED snapshots
    <3>1. PICK q \in Run, j \in Kind : OpenSnapshot(q, j) \/ FillSnapshot(q, j)
      BY <2>2, SnapshotSteps
    <3>2. q = r
      BY DEF OneProcess
    <3> QED BY <1>1, <1>2, <3>1, <3>2
  <2> QED BY <2>1, <2>2
<1> QED BY <1>1, <1>2, <1>3, <1>4, <1>5, OwnSteps DEF Pipeline

(* Owned survives every step of the one process. *)
LEMMA OwnedInductive ==
  ASSUME OneProcess, TypeOK, RunInv, DayInv, [Next]_vars
  PROVE  Owned'
<1> SUFFICES ASSUME NEW r \in Run, NEW k \in Kind, step'[r] # "down"
             PROVE  /\ Writer[k] < at'[r] /\ k # "CANDIDATE"
                         => snapshots'[k] = Computed(r, k)'
                    /\ Writer[k] = at'[r] /\ verdict'[r] = "SUCCEEDED"
                         => snapshots'[k] = Computed(r, k)'
  BY DEF Owned
<1> DEFINE Goal == /\ Writer[k] < at'[r] /\ k # "CANDIDATE"
                         => snapshots'[k] = Computed(r, k)'
                   /\ Writer[k] = at'[r] /\ verdict'[r] = "SUCCEEDED"
                         => snapshots'[k] = Computed(r, k)'
<1>w. Writer[k] \in {3, 4, 5, 6, 9}
  BY WriterFacts
<1>p. at[r] \in Positions /\ at'[r] \in Positions
  BY TypeInductive DEF TypeOK
<1>o. step[r] # "down" =>
        /\ Writer[k] < at[r] /\ k # "CANDIDATE" => snapshots[k] = Computed(r, k)
        /\ Writer[k] = at[r] /\ verdict[r] = "SUCCEEDED"
             => snapshots[k] = Computed(r, k)
  BY DEF DayInv, Owned
<1>1. ASSUME at'[r] \in {1, 2} PROVE Goal
  BY <1>1, <1>w
<1>2. ASSUME step[r] # "down", UNCHANGED <<at[r], read[r], snapshots[k]>>,
             Writer[k] = at[r] /\ verdict'[r] = "SUCCEEDED"
               => snapshots[k] = Computed(r, k)
      PROVE  Goal
  <2>1. Computed(r, k)' = Computed(r, k)
    BY <1>2 DEF Computed
  <2> QED BY <1>o, <1>2, <2>1
<1>3. CASE Begin(r)
  BY <1>1, <1>3 DEF Begin, TypeOK
<1>4. CASE SkipSync(r) \/ Sync(r) \/ Normalize(r)
  <2>1. at' = at /\ stageOf(r) \in {"SYNC_DATA", "NORMALIZE"}
    BY <1>4 DEF SkipSync, Sync, Normalize
  <2>2. at[r] \in {1, 2}
    BY <1>p, <2>1, StageFacts DEF stageOf
  <2> QED BY <1>1, <2>1, <2>2
<1>5. CASE Block(r)
  <2>1. step[r] = "stage" /\ UNCHANGED <<at, read, snapshots>>
        /\ verdict'[r] = "BLOCKED"
    BY <1>5 DEF Block, Conclude, files, TypeOK
  <2> QED BY <1>2, <2>1
<1>6. CASE Judge(r)
  <2>1. step[r] = "stage" /\ UNCHANGED <<at, read, snapshots>>
        /\ Silent(Order[at[r]])
    BY <1>6 DEF Judge, files, stageOf
  <2>2. at[r] \in {7, 8, 11}
    BY <1>p, <2>1, StageFacts
  <2>3. Writer[k] # at[r]
    BY <1>w, <2>2
  <2> QED BY <1>2, <2>1, <2>3
<1>7. CASE Compute(r)
  <2>1. step[r] = "stage" /\ UNCHANGED <<at, read, snapshots>>
    BY <1>7 DEF Compute, files
  <2>2. verdict'[r] = "FAILED" \/ verdict'[r] = verdict[r]
    BY <1>7 DEF Compute, Conclude, TypeOK
  <2>3. verdict[r] = None /\ None # "SUCCEEDED"
    BY <2>1, NoneAndTornAreNoContent DEF RunInv, Status
  <2> QED BY <1>2, <2>1, <2>2, <2>3
<1>8. ASSUME NEW j \in Kind, CheckSnapshot(r, j) PROVE Goal
  <2>1. step[r] = "check" /\ UNCHANGED <<at, read, snapshots>> /\ Writer[j] = at[r]
    BY <1>8 DEF CheckSnapshot, Kinds, files
  <2>2. verdict'[r] = Answer(r, j) \/ verdict'[r] = verdict[r]
    BY <1>8 DEF CheckSnapshot, Conclude, TypeOK
  <2>3. verdict[r] = None /\ None # "SUCCEEDED"
    BY <2>1, NoneAndTornAreNoContent DEF RunInv, Status
  <2>4. Writer[k] = at[r] => k = j
    BY <2>1, WriterFacts
  <2>5. Writer[k] = at[r] /\ verdict'[r] = "SUCCEEDED"
          => snapshots[k] = Computed(r, k)
    BY <2>2, <2>3, <2>4 DEF Answer
  <2> QED BY <1>2, <2>1, <2>5
<1>9. ASSUME NEW j \in Kind, OpenSnapshot(r, j) PROVE Goal
  <2>1. step[r] = "open" /\ UNCHANGED <<at, read, verdict>> /\ Writer[j] = at[r]
    BY <1>9 DEF OpenSnapshot, Kinds
  <2>2. verdict'[r] # "SUCCEEDED"
    BY <2>1, NoneAndTornAreNoContent DEF RunInv, Status
  <2>3. CASE k = j
    BY <1>p, <2>1, <2>2, <2>3 DEF Positions
  <2>4. CASE k # j
    <3>1. UNCHANGED snapshots[k]
      BY <1>9, <2>4 DEF OpenSnapshot, TypeOK
    <3> QED BY <1>2, <2>1, <2>2, <3>1
  <2> QED BY <2>3, <2>4
<1>10. ASSUME NEW j \in Kind, FillSnapshot(r, j) PROVE Goal
  <2>1. step[r] = "fill" /\ UNCHANGED <<at, read>> /\ Writer[j] = at[r]
    BY <1>10 DEF FillSnapshot, Kinds
  <2>2. snapshots' = [snapshots EXCEPT ![j] = Computed(r, j)]
    BY <1>10 DEF FillSnapshot
  <2>3. CASE k = j
    <3>1. snapshots'[k] = Computed(r, k) /\ Computed(r, k)' = Computed(r, k)
      BY <2>1, <2>2, <2>3 DEF Computed, TypeOK
    <3> QED BY <3>1
  <2>4. CASE k # j
    <3>1. UNCHANGED snapshots[k] /\ Writer[k] # at[r]
      BY <2>1, <2>2, <2>4, WriterFacts DEF TypeOK
    <3> QED BY <1>2, <2>1, <3>1
  <2> QED BY <2>3, <2>4
<1>11. CASE LookAtManifest(r) \/ TruncateManifest(r)
  <2>1. step[r] # "down" /\ UNCHANGED <<at, read, snapshots, verdict>>
    BY <1>11 DEF LookAtManifest, TruncateManifest, files
  <2> QED BY <1>2, <1>o, <2>1
<1>12. CASE AbandonRun(r) \/ Crash(r)
  BY <1>12 DEF AbandonRun, Crash, TypeOK
<1>13. CASE RecordVerdict(r)
  <2>1. step[r] = "record" /\ UNCHANGED <<read, snapshots>> /\ ~Over(r)
    BY <1>13 DEF RecordVerdict, TypeOK
  <2>2. at'[r] = at[r] + 1 /\ verdict'[r] = None
    BY <1>13, <2>1 DEF RecordVerdict, NextPosition, TypeOK
  <2>3. verdict[r] # "FAILED" /\ verdict[r] # None
    BY <2>1 DEF Over, RunInv
  <2>4. verdict'[r] # "SUCCEEDED"
    BY <2>2, NoneAndTornAreNoContent DEF Status
  <2>5. ASSUME Writer[k] = at[r], k # "CANDIDATE"
        PROVE  verdict[r] = "SUCCEEDED"
    <3>1. Writer[k] # 9
      BY <2>5, WriterFacts
    <3>2. at[r] \in 2 .. 6
      BY <1>w, <2>5, <3>1
    <3>3. verdict[r] \notin {"BLOCKED", "SKIPPED"}
      BY <2>1, <3>2 DEF RunInv
    <3>4. verdict[r] \in Status \cup {None}
      BY DEF TypeOK
    <3> QED BY <2>3, <3>3, <3>4 DEF Status
  <2>6. Writer[k] < at'[r] => Writer[k] < at[r] \/ Writer[k] = at[r]
    BY <1>w, <1>p, <2>2 DEF Positions
  <2>7. Computed(r, k)' = Computed(r, k)
    BY <2>1 DEF Computed
  <2> QED BY <1>o, <2>1, <2>4, <2>5, <2>6, <2>7
<1>14. ASSUME UNCHANGED <<at[r], step[r], read[r], verdict[r]>> PROVE Goal
  <2>1. CASE UNCHANGED snapshots
    BY <1>2, <1>o, <1>14, <2>1
  <2>2. CASE ~ UNCHANGED snapshots
    <3>1. PICK q \in Run, j \in Kind : OpenSnapshot(q, j) \/ FillSnapshot(q, j)
      BY <2>2, SnapshotSteps
    <3>2. q = r
      BY DEF OneProcess
    <3> QED BY <1>9, <1>10, <3>1, <3>2
  <2> QED BY <2>1, <2>2
<1> QED BY <1>3, <1>4, <1>5, <1>6, <1>7, <1>8, <1>9, <1>10, <1>11, <1>12,
           <1>13, <1>14, OwnSteps DEF Pipeline

(* Opening and filling a snapshot, seen from the snapshots: opening one    *)
(* publishes nothing, filling one publishes it and leaves the others.      *)
LEMMA WrittenSteps ==
  ASSUME TypeOK, RunInv, DayInv, NEW r \in Run, NEW k \in Kind
  PROVE  /\ OpenSnapshot(r, k) =>
              \A j \in Kind : /\ Written(j)' <=> Written(j)
                              /\ Written(j) => snapshots'[j] = snapshots[j]
         /\ FillSnapshot(r, k) =>
              /\ ~Written(k) /\ Written(k)' /\ snapshots'[k] = Computed(r, k)
              /\ \A j \in Kind : j # k => snapshots'[j] = snapshots[j]
<1>1. ASSUME OpenSnapshot(r, k), NEW j \in Kind
      PROVE  /\ Written(j)' <=> Written(j)
             /\ Written(j) => snapshots'[j] = snapshots[j]
  <2>1. snapshots[k] = None
    BY <1>1 DEF OpenSnapshot, Kinds, DayInv, Opening
  <2> QED BY <1>1, <2>1 DEF OpenSnapshot, Written, TypeOK
<1>2. ASSUME FillSnapshot(r, k)
      PROVE  /\ ~Written(k) /\ Written(k)' /\ snapshots'[k] = Computed(r, k)
             /\ \A j \in Kind : j # k => snapshots'[j] = snapshots[j]
  <2>1. Computed(r, k) # None /\ Computed(r, k) # Torn
    BY <1>2, BeforeFill, ComputedIsContent
  <2>2. snapshots' = [snapshots EXCEPT ![k] = Computed(r, k)]
        /\ snapshots[k] = Torn
    BY <1>2, BeforeFill
  <2> QED BY <2>1, <2>2 DEF Written, TypeOK
<1> QED BY <1>1, <1>2

(* DayInv is inductive for one process. *)
LEMMA DayInductive ==
  ASSUME OneProcess, TypeOK, RunInv, DayInv, [Next]_vars
  PROVE  DayInv'
<1>1. Opening' /\ Owned'
  BY OpeningInductive, OwnedInductive
<1>2. CASE UNCHANGED snapshots
  <2>1. Layered'
    BY <1>2 DEF DayInv, Layered, Written
  <2>2. DayAgrees'
    BY <1>2 DEF DayInv, DayAgrees, Written
  <2> QED BY <1>1, <2>1, <2>2 DEF DayInv
<1>3. ASSUME NEW r \in Run, NEW k \in Kind, OpenSnapshot(r, k) PROVE DayInv'
  <2>1. Layered'
    BY <1>3, WrittenSteps DEF DayInv, Layered
  <2>2. DayAgrees'
    BY <1>3, WrittenSteps DEF DayInv, DayAgrees
  <2> QED BY <1>1, <2>1, <2>2 DEF DayInv
<1>4. ASSUME NEW r \in Run, NEW k \in Kind, FillSnapshot(r, k) PROVE DayInv'
  <2>1. \A j \in Kind : Written(j)' =>
          /\ Writer[j] < Writer[k] \/ j = k
          /\ snapshots'[j] = Computed(r, j)
    BY <1>4, BeforeFill, WrittenSteps DEF Written
  <2>2. \A j \in Kind : Writer[j] < Writer[k] \/ j = k => Written(j)'
    <3>1. ASSUME NEW j \in Kind, Writer[j] < Writer[k] PROVE Written(j)'
      <4>1. snapshots[j] = Computed(r, j) /\ read[r] \in [Input -> Version]
        BY <1>4, <3>1, BeforeFill
      <4>2. Computed(r, j) # None /\ Computed(r, j) # Torn
        BY <4>1, ComputedIsContent
      <4>3. j # k
        BY <3>1, WriterFacts
      <4>4. snapshots'[j] = snapshots[j]
        BY <1>4, <4>3, WrittenSteps
      <4> QED BY <4>1, <4>2, <4>4 DEF Written
    <3> QED BY <1>4, <3>1, WrittenSteps
  <2>3. Layered'
    <3> SUFFICES ASSUME NEW i \in Kind, NEW j \in Kind, Written(j)',
                        Writer[i] < Writer[j]
                 PROVE  Written(i)'
      BY DEF Layered
    <3>1. Writer[j] < Writer[k] \/ j = k
      BY <2>1
    <3>2. Writer[i] \in {3, 4, 5, 6, 9} /\ Writer[j] \in {3, 4, 5, 6, 9}
          /\ Writer[k] \in {3, 4, 5, 6, 9}
      BY WriterFacts
    <3>3. Writer[i] < Writer[k]
      BY <3>1, <3>2
    <3> QED BY <2>2, <3>3
  <2>4. DayAgrees'
    <3> SUFFICES ASSUME NEW i \in Kind, NEW j \in Kind, Written(i)', Written(j)'
                 PROVE  \A x \in Reads[i] \cap Reads[j] :
                          snapshots'[i][x] = snapshots'[j][x]
      BY DEF DayAgrees
    <3>1. snapshots'[i] = Computed(r, i) /\ snapshots'[j] = Computed(r, j)
      BY <2>1
    <3> QED BY <3>1, ComputedAgree
  <2> QED BY <1>1, <2>3, <2>4 DEF DayInv
<1> QED BY <1>2, <1>3, <1>4, SnapshotSteps

(* The day starts with no snapshot at all. *)
LEMMA DayInit == Init => DayInv
<1>1. Init => Layered /\ DayAgrees
  BY DEF Init, Layered, DayAgrees, Written
<1>2. Init => Opening /\ Owned
  BY DEF Init, Opening, Owned
<1> QED BY <1>1, <1>2 DEF DayInv

LEMMA DayCorrect == OneProcess => (Spec => [](TypeOK /\ RunInv /\ DayInv))
<1> SUFFICES ASSUME OneProcess PROVE Spec => [](TypeOK /\ RunInv /\ DayInv)
  OBVIOUS
<1>1. Init => TypeOK /\ RunInv /\ DayInv
  BY TypeInductive, DayInit
<1>2. TypeOK /\ RunInv /\ DayInv /\ [Next]_vars
        => (TypeOK /\ RunInv /\ DayInv)'
  BY TypeInductive, DayInductive
<1> QED BY <1>1, <1>2, PTL DEF Spec

(* All the snapshots of a day come from the same inputs, whatever crashed  *)
(* and whatever was landed in between.                                     *)
THEOREM DayIsOneDay == OneProcess => (Spec => []DayAgrees)
<1>1. TypeOK /\ RunInv /\ DayInv => DayAgrees
  BY DEF DayInv
<1> QED BY <1>1, DayCorrect, PTL

(* A complete snapshot is never changed, which of two processes the second *)
(* may do.                                                                 *)
THEOREM NothingOverwritten == OneProcess => (Spec => NoSilentOverwrite)
<1> SUFFICES ASSUME OneProcess PROVE Spec => NoSilentOverwrite
  OBVIOUS
<1>1. TypeOK /\ RunInv /\ DayInv /\ [Next]_vars =>
        [\A k \in Kind : Written(k) => snapshots'[k] = snapshots[k]]_vars
  BY SnapshotSteps, WrittenSteps
<1> QED BY <1>1, DayCorrect, PTL DEF Spec, NoSilentOverwrite

-----------------------------------------------------------------------------
(* The pipeline implements DayRecord. *)

(* The record the refinement maps the snapshots to. *)
Record == [k \in Kind |-> IF Written(k) THEN snapshots[k] ELSE None]

(* Every step of the one process publishes a kind on top of the kinds      *)
(* before it, in agreement with what is there, or changes nothing.         *)
LEMMA StepPublishes ==
  ASSUME OneProcess, TypeOK, RunInv, DayInv, [Next]_vars
  PROVE  [Promise!Next]_Record
<1>1. CASE UNCHANGED snapshots
  BY <1>1 DEF Record, Written
<1>2. ASSUME NEW r \in Run, NEW k \in Kind, OpenSnapshot(r, k)
      PROVE  Record' = Record
  BY <1>2, WrittenSteps DEF Record
<1>3. ASSUME NEW r \in Run, NEW k \in Kind, FillSnapshot(r, k)
      PROVE  Record'[k] # Record[k] /\ \E c \in Content : Promise!Publish(k, c)
  <2>1. read[r] \in [Input -> Version]
    BY <1>3, BeforeFill
  <2>2. Computed(r, k) \in Content /\ DOMAIN Computed(r, k) = Reads[k]
    BY <2>1, ComputedIsContent
  <2>3. ~Written(k) /\ Written(k)' /\ snapshots'[k] = Computed(r, k)
        /\ \A j \in Kind : j # k => snapshots'[j] = snapshots[j]
    BY <1>3, WrittenSteps
  <2>4. ASSUME NEW j \in Kind, Writer[j] < Writer[k] PROVE Record[j] # None
    <3>1. snapshots[j] = Computed(r, j)
      BY <1>3, <2>4, BeforeFill
    <3>2. Computed(r, j) # None /\ Computed(r, j) # Torn
      BY <2>1, ComputedIsContent
    <3> QED BY <3>1, <3>2 DEF Record, Written
  <2>5. ASSUME NEW j \in Kind, Record[j] # None
        PROVE  Promise!Agree(Record[j], Computed(r, k))
    <3>1. Written(j) /\ Record[j] = snapshots[j]
      BY <2>5 DEF Record
    <3>2. j # k
      BY <2>3, <3>1
    <3>3. Writer[j] < Writer[k]
      BY <1>3, <3>1, <3>2, BeforeFill
    <3>4. Record[j] = Computed(r, j)
      BY <1>3, <3>1, <3>3, BeforeFill
    <3>5. DOMAIN Computed(r, j) = Reads[j]
      BY <2>1, ComputedIsContent
    <3> QED BY <2>2, <3>4, <3>5, ComputedAgree DEF Promise!Agree
  <2>6. Record[k] = None
    BY <2>3 DEF Record
  <2>7. Record' = [Record EXCEPT ![k] = Computed(r, k)]
    BY <2>3 DEF Record, Written
  <2>8. PICK c \in Content : c = Computed(r, k)
    BY <2>2
  <2>9. Promise!Publish(k, c)
    BY <2>4, <2>5, <2>6, <2>7, <2>8
       DEF Promise!Publish, Promise!Published, KindsBefore, Record
  <2>10. Record'[k] # Record[k]
    BY <2>1, <2>2, <2>6, <2>7, ComputedIsContent DEF Record
  <2> QED BY <2>9, <2>10
<1>4. ASSUME NEW r \in Run, NEW k \in Kind, FillSnapshot(r, k)
      PROVE  Promise!Next
  BY <1>3, <1>4 DEF Promise!Next, Record
<1>5. UNCHANGED Record \/ Promise!Next
  BY <1>1, <1>2, <1>4, SnapshotSteps
<1> QED BY <1>5

(* One process, started again as often as one likes, implements DayRecord. *)
THEOREM PipelineKeepsPromise == OneProcess => (Spec => ImplementsDayRecord)
<1> SUFFICES ASSUME OneProcess PROVE Spec => Promise!Spec
  BY DEF ImplementsDayRecord
<1>1. Init => Promise!Init
  BY DEF Init, Promise!Init, Written
<1>2. TypeOK /\ RunInv /\ DayInv /\ [Next]_vars => [Promise!Next]_Record
  BY StepPublishes
<1> QED BY <1>1, <1>2, DayCorrect, PTL DEF Spec, Promise!Spec, Record

-----------------------------------------------------------------------------
(* What the manifest calls a success. *)

Backed(entries) ==
  \A i \in DOMAIN entries, k \in Kind :
    entries[i].stage = Order[Writer[k]] /\ entries[i].status = "SUCCEEDED"
      => Written(k)

BackedInv ==
  /\ manifest # Torn => Backed(manifest)
  /\ \A r \in Run : Backed(seen[r])

(* A snapshot that is complete stays complete. *)
LEMMA WrittenStays ==
  ASSUME OneProcess, TypeOK, RunInv, DayInv, [Next]_vars, NEW k \in Kind, Written(k)
  PROVE  Written(k)'
BY SnapshotSteps, WrittenSteps DEF Written

(* A list of backed entries stays backed, also with one entry more when    *)
(* that one is backed.                                                     *)
LEMMA BackedReplaced ==
  ASSUME NEW entries \in Seq(Entry), NEW entry \in Entry, Backed(entries),
         Backed(<<entry>>)
  PROVE  Backed(Replaced(entries, entry))
<1> SUFFICES ASSUME NEW i \in DOMAIN Replaced(entries, entry)
             PROVE  \/ Replaced(entries, entry)[i] = entry
                    \/ /\ i \in DOMAIN entries
                       /\ Replaced(entries, entry)[i] = entries[i]
  <2>1. \A k \in Kind : entry.stage = Order[Writer[k]]
                        /\ entry.status = "SUCCEEDED" => Written(k)
    <3>1. 1 \in DOMAIN <<entry>> /\ <<entry>>[1] = entry
      OBVIOUS
    <3> QED BY <3>1 DEF Backed
  <2> QED BY <2>1 DEF Backed
<1>1. CASE \E j \in DOMAIN entries : entries[j].stage = entry.stage
  BY <1>1 DEF Replaced
<1>2. CASE ~ \E j \in DOMAIN entries : entries[j].stage = entry.stage
  <2>1. Replaced(entries, entry) = Append(entries, entry)
    BY <1>2 DEF Replaced
  <2>2. i \in 1 .. Len(entries) + 1 /\ Len(entries) \in Nat
    BY <2>1
  <2>3. i \in 1 .. Len(entries) \/ i = Len(entries) + 1
    BY <2>2
  <2> QED BY <2>1, <2>3
<1> QED BY <1>1, <1>2

(* The verdict a run records is backed. *)
LEMMA VerdictBacked ==
  ASSUME TypeOK, RunInv, DayInv, NEW r \in Run, RecordVerdict(r)
  PROVE  /\ [stage |-> stageOf(r), status |-> verdict[r]] \in Entry
         /\ Backed(<<[stage |-> stageOf(r), status |-> verdict[r]]>>)
<1>1. at[r] \in Positions /\ step[r] = "record"
  BY DEF RecordVerdict, TypeOK
<1>2. stageOf(r) \in Stage
  BY <1>1 DEF Stage, stageOf
<1>3. verdict[r] \in Status
  BY <1>1 DEF RunInv, TypeOK
<1>4. ASSUME NEW k \in Kind, stageOf(r) = Order[Writer[k]], verdict[r] = "SUCCEEDED"
      PROVE  Written(k)
  <2>1. Writer[k] \in {3, 4, 5, 6, 9}
    BY WriterFacts
  <2>2. at[r] \in {1, 2, 3, 4, 5, 6, 7, 8, 9, 10, 11}
    BY <1>1 DEF Positions
  <2>3. at[r] = Writer[k]
    BY <1>4, <2>1, <2>2 DEF stageOf, Order
  <2>4. HasRead(r)
    BY <2>1, <2>3 DEF HasRead
  <2>5. read[r] \in [Input -> Version]
    BY <1>1, <2>4 DEF RunInv
  <2>6. snapshots[k] = Computed(r, k)
    BY <1>1, <1>4, <2>3 DEF DayInv, Owned
  <2>7. Computed(r, k) # None /\ Computed(r, k) # Torn
    BY <2>5, ComputedIsContent
  <2> QED BY <2>6, <2>7 DEF Written
<1>5. Backed(<<[stage |-> stageOf(r), status |-> verdict[r]]>>)
  BY <1>4 DEF Backed
<1> QED BY <1>2, <1>3, <1>5 DEF Entry

LEMMA BackedInductive ==
  ASSUME OneProcess, TypeOK, RunInv, DayInv, BackedInv, [Next]_vars
  PROVE  BackedInv'
<1>1. ASSUME NEW entries, Backed(entries), NEW after, after = entries
      PROVE  \A i \in DOMAIN after, k \in Kind :
               after[i].stage = Order[Writer[k]] /\ after[i].status = "SUCCEEDED"
                 => Written(k)'
  BY <1>1, WrittenStays DEF Backed
<1>2. \A r \in Run : seen'[r] \in {<<>>, seen[r]}
                     \/ (seen'[r] = manifest /\ manifest # Torn)
  BY DEF Next, Pipeline, vars, files, Begin, Crash, Land, SkipSync, Sync, Block,
         Normalize, Judge, Compute, CheckSnapshot, OpenSnapshot, FillSnapshot,
         LookAtManifest, AbandonRun, TruncateManifest, RecordVerdict, TypeOK
<1>3. \/ manifest' \in {manifest, Torn}
      \/ \E r \in Run : RecordVerdict(r)
  BY DEF Next, Pipeline, vars, files, Begin, Crash, Land, SkipSync, Sync, Block,
         Normalize, Judge, Compute, CheckSnapshot, OpenSnapshot, FillSnapshot,
         LookAtManifest, AbandonRun, TruncateManifest
<1>4. ASSUME NEW r \in Run PROVE Backed(seen[r])'
  <2>1. Backed(<<>>)
    BY DEF Backed
  <2>2. PICK entries : entries = seen'[r] /\ Backed(entries)
    BY <1>2, <2>1 DEF BackedInv
  <2> QED BY <1>1, <2>2 DEF Backed
<1>5. manifest' # Torn => Backed(manifest)'
  <2>1. CASE manifest' \in {manifest, Torn}
    BY <1>1, <2>1 DEF Backed, BackedInv
  <2>2. ASSUME NEW r \in Run, RecordVerdict(r) PROVE Backed(manifest)'
    <3> DEFINE entry == [stage |-> stageOf(r), status |-> verdict[r]]
    <3>1. seen[r] \in Seq(Entry) /\ Backed(seen[r])
      BY DEF TypeOK, BackedInv
    <3>2. entry \in Entry /\ Backed(<<entry>>)
      BY <2>2, VerdictBacked
    <3>3. Backed(Replaced(seen[r], entry))
      BY <3>1, <3>2, BackedReplaced
    <3>4. manifest' = Replaced(seen[r], entry)
      BY <2>2 DEF RecordVerdict
    <3> QED BY <1>1, <3>3, <3>4 DEF Backed
  <2> QED BY <1>3, <2>1, <2>2
<1> QED BY <1>4, <1>5 DEF BackedInv

(* What the manifest calls a success is in the store, complete. *)
THEOREM SuccessIsOnDisk == OneProcess => (Spec => []SuccessHasSnapshot)
<1> SUFFICES ASSUME OneProcess PROVE Spec => []SuccessHasSnapshot
  OBVIOUS
<1>1. Init => BackedInv
  BY DEF Init, BackedInv, Backed
<1>2. TypeOK /\ RunInv /\ DayInv /\ BackedInv /\ [Next]_vars => BackedInv'
  BY BackedInductive
<1>3. BackedInv => SuccessHasSnapshot
  BY DEF BackedInv, Backed, SuccessHasSnapshot
<1> QED BY <1>1, <1>2, <1>3, DayCorrect, PTL DEF Spec
=============================================================================
