----------------------------- MODULE TradeLedger -----------------------------
(***************************************************************************)
(* The trade gate's service (trade_gate/service.py, called by cli/trade.py)*)
(* over its JSON ledger (trade_gate/store.py): commands of several         *)
(* processes at once, which may die at any point.                          *)
(*                                                                         *)
(* A record is written in three steps: look whether its file is there,     *)
(* create the file exclusively, fill it. A file that was created and not   *)
(* filled is Torn and does not parse. Ids of intents and reviews come from *)
(* the caller and may meet; all others are drawn from uuid4 and do not.    *)
(*                                                                         *)
(* A command that is refused before it writes changes nothing and is not   *)
(* modelled as a step. A complete record never changes, so reading the     *)
(* records a command depends on is one step with its decision. The verdict *)
(* is any decision: TradeVerdict says which.                               *)
(*                                                                         *)
(* A definition whose name ends in an underscore and a word is a plausible *)
(* slip in the definition after it. No action uses one; each shows that a  *)
(* property would notice it.                                               *)
(***************************************************************************)
EXTENDS Naturals

CONSTANTS
  Proc,                                          \* the processes
  IntentKey, EvaluationKey, PlanKey, OverrideKey,
  ExecutionKey, ReviewKey,                       \* the ids, by kind of record
  Content,                                       \* what a caller may say
  Position,                                      \* position sizes
  None,                                          \* no file
  Torn                                           \* a file not filled in

VARIABLES
  file,    \* the ledger's files
  step,    \* where a process is in its command
  pending, \* the record it writes, and under which key
  answer   \* how its last write ended

vars == <<file, step, pending, answer>>

Written(k) == file[k] \notin {None, Torn}

(* The ledger as its readers know it. *)
Promise == INSTANCE TradeRecords WITH
             records <- [k \in DOMAIN file |-> IF Written(k) THEN file[k] ELSE None]

Key    == Promise!Key
Record == Promise!Record

ASSUME KeysDistinct ==
  /\ IntentKey \cap (EvaluationKey \cup PlanKey \cup OverrideKey
                     \cup ExecutionKey \cup ReviewKey) = {}
  /\ EvaluationKey \cap (PlanKey \cup OverrideKey \cup ExecutionKey \cup ReviewKey) = {}
  /\ PlanKey \cap (OverrideKey \cup ExecutionKey \cup ReviewKey) = {}
  /\ OverrideKey \cap (ExecutionKey \cup ReviewKey) = {}
  /\ ExecutionKey \cap ReviewKey = {}
ASSUME PositionsOrdered == Position \subseteq Nat
ASSUME NoneAndTornAreNoRecord ==
  None # Torn /\ None \notin Record /\ Torn \notin Record

Steps   == {"idle", "look", "create", "fill", "audit"}
Answers == {"none", "written", "conflict", "unreadable", "failed"}
Writing == {"look", "create", "fill"}

TypeOK ==
  /\ file \in [Key -> Record \cup {None, Torn}]
  /\ step \in [Proc -> Steps]
  /\ pending \in [Proc -> [key : Key, record : Record] \cup {None}]
  /\ answer \in [Proc -> Answers]

Init ==
  /\ file = [k \in Key |-> None]
  /\ step = [p \in Proc |-> "idle"]
  /\ pending = [p \in Proc |-> None]
  /\ answer = [p \in Proc |-> "none"]

-----------------------------------------------------------------------------
(* _write, in its steps. *)

Request(p, k, r) ==
  /\ pending' = [pending EXCEPT ![p] = [key |-> k, record |-> r]]
  /\ step' = [step EXCEPT ![p] = "look"]
  /\ answer' = [answer EXCEPT ![p] = "none"]
  /\ UNCHANGED file

key(p) == pending[p].key

(* The process forgets what it was at. *)
Leave(p, how) ==
  /\ answer' = [answer EXCEPT ![p] = how]
  /\ step' = [step EXCEPT ![p] = "idle"]
  /\ pending' = [pending EXCEPT ![p] = None]

(* An intent goes on to its audit, every other command ends.               *)
Close(p, how) ==
  \/ /\ how = "written"
     /\ answer' = [answer EXCEPT ![p] = how]
     /\ step' = [step EXCEPT ![p] = IF key(p) \in IntentKey THEN "audit" ELSE "idle"]
     /\ UNCHANGED pending
  \/ how # "written" /\ Leave(p, how)

Compared_ByName(p) == "written"

(* What is already there is the same, another, or not to be parsed.        *)
Compared(p) ==
  IF file[key(p)] = Torn THEN "unreadable"
  ELSE IF file[key(p)] = pending[p].record THEN "written" ELSE "conflict"

Look(p) ==
  /\ step[p] = "look"
  /\ \/ /\ file[key(p)] = None
        /\ step' = [step EXCEPT ![p] = "create"]
        /\ UNCHANGED <<pending, answer>>
     \/ /\ file[key(p)] # None  \* path.exists()
        /\ Close(p, Compared(p))
  /\ UNCHANGED file

Create(p) ==
  /\ step[p] = "create"
  /\ \/ /\ file[key(p)] = None  \* open("x")
        /\ file' = [file EXCEPT ![key(p)] = Torn]
        /\ step' = [step EXCEPT ![p] = "fill"]
        /\ UNCHANGED <<pending, answer>>
     \/ /\ file[key(p)] # None
        /\ Close(p, Compared(p))
        /\ UNCHANGED file

Fill(p) ==
  /\ step[p] = "fill"
  /\ file' = [file EXCEPT ![key(p)] = pending[p].record]
  /\ Close(p, "written")

-----------------------------------------------------------------------------
(* The commands. *)

(* uuid4: an id nobody has used or is about to use.                        *)
Fresh(k) ==
  /\ file[k] = None
  /\ \A q \in Proc : step[q] \in Writing => key(q) # k

Evaluate(p) ==
  /\ step[p] = "idle"
  /\ \E i \in IntentKey, c \in Content : Request(p, i, [content |-> c])

(* The context is built and the audit asked after the intent was written:  *)
(* either may fail, and the intent stays without an evaluation.            *)
AuditFails(p) ==
  /\ step[p] = "audit"
  /\ Leave(p, "failed")
  /\ UNCHANGED file

Judge(p) ==
  /\ step[p] = "audit"
  /\ \E e \in EvaluationKey, d \in Promise!Decision, position \in Position :
       /\ Fresh(e)
       /\ Request(p, e, [intent |-> key(p), decision |-> d, position |-> position])

Plannable_Any(e) == Written(e) /\ Written(file[e].intent)

Plannable(e) ==
  Written(e) /\ file[e].decision = "PASS" /\ Written(file[e].intent)

CreatePlan(p) ==
  /\ step[p] = "idle"
  /\ \E e \in EvaluationKey, k \in PlanKey :
       /\ Plannable(e)
       /\ Fresh(k)
       /\ Request(p, k, [evaluation |-> e])

MakeOverride(p) ==
  /\ step[p] = "idle"
  /\ \E e \in EvaluationKey, k \in OverrideKey, limit \in Position :
       /\ Written(e) /\ limit < file[e].position
       /\ Fresh(k)
       /\ Request(p, k, [evaluation |-> e, limit |-> limit])

Backs_Unmatched(basis, e) == Written(basis)

(* The plan or override is there and belongs to the evaluation.            *)
Backs(basis, e) == Written(basis) /\ file[basis].evaluation = e

Discipline(basis) == IF basis \in PlanKey THEN "PASS" ELSE "OVERRIDDEN"

RecordExecution(p) ==
  /\ step[p] = "idle"
  /\ \E e \in EvaluationKey, k \in ExecutionKey, basis \in PlanKey \cup OverrideKey :
       /\ Written(e) /\ Backs(basis, e)
       /\ basis \in PlanKey => file[e].decision = "PASS"
       /\ Fresh(k)
       /\ Request(p, k, [evaluation |-> e, basis |-> basis,
                         discipline |-> Discipline(basis)])

(* Nobody looks whether the execution is there. *)
RecordReview(p) ==
  /\ step[p] = "idle"
  /\ \E k \in ReviewKey, x \in ExecutionKey, c \in Content :
       Request(p, k, [execution |-> x, content |-> c])

(* The process dies; what it was writing stays torn.                       *)
Crash(p) ==
  /\ step[p] # "idle"
  /\ Leave(p, "none")
  /\ UNCHANGED file

Command(p) == Evaluate(p) \/ CreatePlan(p) \/ MakeOverride(p)
              \/ RecordExecution(p) \/ RecordReview(p)
Work(p) == Look(p) \/ Create(p) \/ Fill(p) \/ AuditFails(p) \/ Judge(p)

Next == \E p \in Proc : Command(p) \/ Work(p) \/ Crash(p)

Spec == Init /\ [][Next]_vars

-----------------------------------------------------------------------------
(* The properties. *)

(* A record that is complete is never changed, however many processes      *)
(* write under its id.                                                     *)
AppendOnly == [][\A k \in Key : Written(k) => file'[k] = file[k]]_vars

(* Every execution can be accounted for: its evaluation and the intent     *)
(* behind that are in the ledger, and it either followed a PASS through a  *)
(* plan, or an override with a smaller position than the evaluated one.    *)
Accountable ==
  \A x \in ExecutionKey : Written(x) =>
    LET e == file[x].evaluation
        b == file[x].basis
    IN /\ Written(e) /\ Written(file[e].intent)
       /\ Written(b) /\ file[b].evaluation = e
       /\ IF file[x].discipline = "PASS"
          THEN b \in PlanKey /\ file[e].decision = "PASS"
          ELSE b \in OverrideKey /\ file[b].limit < file[e].position

(* Who is told that a record was written finds that very record, also when *)
(* another process used the same id with another content.                  *)
ToldIsWritten ==
  \A p \in Proc : answer[p] = "written" => file[key(p)] = pending[p].record

(* The ledger keeps the promise of TradeRecords. *)
ImplementsTradeRecords == Promise!Spec
=============================================================================
