---------------------------- MODULE TradeRecords ----------------------------
(***************************************************************************)
(* What the trade ledger promises whoever reads it: records are appended   *)
(* under their keys and never changed, and a record is appended only when  *)
(* the records it stands on are there and permit it. Files, processes and  *)
(* commands are left out.                                                  *)
(***************************************************************************)
EXTENDS Naturals

CONSTANTS IntentKey, EvaluationKey, PlanKey, OverrideKey, ExecutionKey, ReviewKey,
          Content, \* what an intent or a review says
          Position, \* position sizes
          None

Key == IntentKey \cup EvaluationKey \cup PlanKey \cup OverrideKey
       \cup ExecutionKey \cup ReviewKey

Decision == {"PASS", "WAIT", "NO_TRADE"}

Intent     == [content : Content]
Evaluation == [intent : IntentKey, decision : Decision, position : Position]
Plan       == [evaluation : EvaluationKey]
Override   == [evaluation : EvaluationKey, limit : Position]
Execution  == [evaluation : EvaluationKey, basis : PlanKey \cup OverrideKey,
               discipline : {"PASS", "OVERRIDDEN"}]
Review     == [execution : ExecutionKey, content : Content]

Record == Intent \cup Evaluation \cup Plan \cup Override \cup Execution \cup Review

VARIABLE records

There(k) == records[k] # None

(* A record may stand on the records it names. A review may name an        *)
(* execution nobody recorded.                                              *)
Lawful(k, r) ==
  /\ k \in IntentKey => r \in Intent
  /\ k \in EvaluationKey => r \in Evaluation /\ There(r.intent)
  /\ k \in PlanKey => /\ r \in Plan /\ There(r.evaluation)
                      /\ records[r.evaluation].decision = "PASS"
  /\ k \in OverrideKey => /\ r \in Override /\ There(r.evaluation)
                          /\ r.limit < records[r.evaluation].position
  /\ k \in ExecutionKey =>
       /\ r \in Execution /\ There(r.evaluation) /\ There(r.basis)
       /\ records[r.basis].evaluation = r.evaluation
       /\ r.discipline = IF r.basis \in PlanKey THEN "PASS" ELSE "OVERRIDDEN"
  /\ k \in ReviewKey => r \in Review

Init == records = [k \in Key |-> None]

Append(k, r) ==
  /\ ~There(k)
  /\ Lawful(k, r)
  /\ records' = [records EXCEPT ![k] = r]

Next ==
  \E k \in Key : records'[k] # records[k] /\ \E r \in Record : Append(k, r)

Spec == Init /\ [][Next]_records
=============================================================================
