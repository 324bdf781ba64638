------------------------- MODULE TradeLedger_proofs -------------------------
(***************************************************************************)
(* Theorems about trades and about what a person keeps. About TradeLedger: *)
(* for any number of processes, ids, contents and positions, and processes *)
(* killed at any point. About Watchlist (Watch): for any processes, theses *)
(* and times; the first three hold however many commands run at once, the  *)
(* last two for one command at a time, killed at any point. About          *)
(* TradeVerdict (Verdict): for any intents, facts and revised weights.     *)
(***************************************************************************)
EXTENDS TradeLedger, WatchEntry, TradeFacts, SetLemmas

CONSTANTS Cases, Revisions

Watch == INSTANCE Watchlist

Verdict == INSTANCE TradeVerdict

USE NoneAndTornAreNoRecord

-----------------------------------------------------------------------------
(* The inductive invariant. *)

(* Promise!Lawful, said of the files. *)
Sound(k, r) ==
  /\ k \in IntentKey => r \in Promise!Intent
  /\ k \in EvaluationKey => r \in Promise!Evaluation /\ Written(r.intent)
  /\ k \in PlanKey => /\ r \in Promise!Plan /\ Written(r.evaluation)
                      /\ file[r.evaluation].decision = "PASS"
  /\ k \in OverrideKey => /\ r \in Promise!Override /\ Written(r.evaluation)
                          /\ r.limit < file[r.evaluation].position
  /\ k \in ExecutionKey =>
       /\ r \in Promise!Execution /\ Written(r.evaluation) /\ Written(r.basis)
       /\ file[r.basis].evaluation = r.evaluation
       /\ r.discipline = IF r.basis \in PlanKey THEN "PASS" ELSE "OVERRIDDEN"
  /\ k \in ReviewKey => r \in Promise!Review

(* A process at work, or one that was told of a write, asked for it.       *)
Asked ==
  \A p \in Proc : step[p] # "idle" \/ answer[p] = "written"
                  => pending[p] \in [key : Key, record : Record]

(* Only sound records are on their way and in the ledger.                  *)
SoundPending ==
  \A p \in Proc : step[p] \in Writing => Sound(key(p), pending[p].record)
SoundFiles == \A k \in Key : Written(k) => Sound(k, file[k])

(* Whoever fills a file created it: it is torn, and nobody else fills it.  *)
FillsTorn == \A p \in Proc : step[p] = "fill" => file[key(p)] = Torn
OneFills ==
  \A p, q \in Proc : step[p] = "fill" /\ step[q] = "fill" /\ key(p) = key(q)
                     => p = q

(* An audit is for an intent in the ledger. *)
Audited ==
  \A p \in Proc : step[p] = "audit" => key(p) \in IntentKey /\ Written(key(p))

LedgerInv == /\ TypeOK /\ Asked /\ SoundPending /\ SoundFiles
             /\ FillsTorn /\ OneFills /\ Audited /\ ToldIsWritten

-----------------------------------------------------------------------------
(* The pieces every step is built from. *)

LEMMA KeyKinds ==
  Key = IntentKey \cup EvaluationKey \cup PlanKey \cup OverrideKey
        \cup ExecutionKey \cup ReviewKey
BY DEF Key, Promise!Key

LEMMA RecordKinds ==
  Record = Promise!Intent \cup Promise!Evaluation \cup Promise!Plan
           \cup Promise!Override \cup Promise!Execution \cup Promise!Review
BY DEF Record, Promise!Record

(* Complete records stay: what the next steps rely on. *)
Stays == \A k \in Key : Written(k) => file'[k] = file[k]

(* A sound record stays sound while complete records stay. *)
LEMMA SoundStays ==
  ASSUME Stays, NEW k \in Key, NEW r, Sound(k, r)
  PROVE  Sound(k, r)'
<1>1. \A j \in Key : Written(j) => Written(j)'
  BY DEF Stays, Written
<1>2. k \in EvaluationKey => Sound(k, r)'
  <2> SUFFICES ASSUME k \in EvaluationKey PROVE Sound(k, r)'
    OBVIOUS
  <2>1. r \in Promise!Evaluation /\ Written(r.intent)
    BY DEF Sound
  <2>2. r.intent \in Key
    BY <2>1, KeyKinds DEF Promise!Evaluation
  <2> QED BY <1>1, <2>1, <2>2, KeysDistinct DEF Sound
<1>3. k \in PlanKey => Sound(k, r)'
  <2> SUFFICES ASSUME k \in PlanKey PROVE Sound(k, r)'
    OBVIOUS
  <2>1. r \in Promise!Plan /\ Written(r.evaluation) /\ file[r.evaluation].decision = "PASS"
    BY DEF Sound
  <2>2. r.evaluation \in Key
    BY <2>1, KeyKinds DEF Promise!Plan
  <2>3. file'[r.evaluation] = file[r.evaluation] /\ Written(r.evaluation)'
    BY <1>1, <2>1, <2>2 DEF Stays
  <2> QED BY <2>1, <2>3, KeysDistinct DEF Sound
<1>4. k \in OverrideKey => Sound(k, r)'
  <2> SUFFICES ASSUME k \in OverrideKey PROVE Sound(k, r)'
    OBVIOUS
  <2>1. /\ r \in Promise!Override /\ Written(r.evaluation)
        /\ r.limit < file[r.evaluation].position
    BY DEF Sound
  <2>2. r.evaluation \in Key
    BY <2>1, KeyKinds DEF Promise!Override
  <2>3. file'[r.evaluation] = file[r.evaluation] /\ Written(r.evaluation)'
    BY <1>1, <2>1, <2>2 DEF Stays
  <2> QED BY <2>1, <2>3, KeysDistinct DEF Sound
<1>5. k \in ExecutionKey => Sound(k, r)'
  <2> SUFFICES ASSUME k \in ExecutionKey PROVE Sound(k, r)'
    OBVIOUS
  <2>1. /\ r \in Promise!Execution /\ Written(r.evaluation) /\ Written(r.basis)
        /\ file[r.basis].evaluation = r.evaluation
        /\ r.discipline = IF r.basis \in PlanKey THEN "PASS" ELSE "OVERRIDDEN"
    BY DEF Sound
  <2>2. r.evaluation \in Key /\ r.basis \in Key
    BY <2>1, KeyKinds DEF Promise!Execution
  <2>3. file'[r.basis] = file[r.basis] /\ Written(r.basis)' /\ Written(r.evaluation)'
    BY <1>1, <2>1, <2>2 DEF Stays
  <2> QED BY <2>1, <2>3, KeysDistinct DEF Sound
<1>6. k \in IntentKey \cup ReviewKey => Sound(k, r)'
  BY KeysDistinct DEF Sound
<1> QED BY <1>2, <1>3, <1>4, <1>5, <1>6, KeyKinds

(* Every command asks for a sound record. *)
Asks(p, k, r) == Request(p, k, r) /\ r \in Record /\ Sound(k, r)

LEMMA CommandsAskSoundly ==
  ASSUME LedgerInv, NEW p \in Proc, Command(p) \/ Judge(p)
  PROVE  \E k \in Key, r \in Record : Asks(p, k, r)
<1>1. CASE Evaluate(p)
  <2>1. PICK i \in IntentKey, c \in Content : Request(p, i, [content |-> c])
    BY <1>1 DEF Evaluate
  <2>2. [content |-> c] \in Promise!Intent
    BY DEF Promise!Intent
  <2> QED BY <2>1, <2>2, KeyKinds, RecordKinds, KeysDistinct DEF Asks, Sound
<1>2. CASE Judge(p)
  <2>1. PICK e \in EvaluationKey, d \in Promise!Decision, position \in Position :
          Request(p, e, [intent |-> key(p), decision |-> d, position |-> position])
    BY <1>2 DEF Judge
  <2> DEFINE r == [intent |-> key(p), decision |-> d, position |-> position]
  <2>2. key(p) \in IntentKey /\ Written(key(p))
    BY <1>2 DEF Judge, LedgerInv, Audited
  <2>3. r \in Promise!Evaluation
    BY <2>2 DEF Promise!Evaluation
  <2>4. r.intent = key(p)
    OBVIOUS
  <2>5. Sound(e, r)
    BY <2>2, <2>3, <2>4, KeysDistinct DEF Sound
  <2>6. e \in Key /\ r \in Record
    BY <2>3, KeyKinds, RecordKinds
  <2> QED BY <2>1, <2>5, <2>6 DEF Asks
<1>3. CASE CreatePlan(p)
  <2>1. PICK e \in EvaluationKey, k \in PlanKey :
          Plannable(e) /\ Request(p, k, [evaluation |-> e])
    BY <1>3 DEF CreatePlan
  <2> DEFINE r == [evaluation |-> e]
  <2>2. r \in Promise!Plan /\ r.evaluation = e
    BY DEF Promise!Plan
  <2>3. Sound(k, r)
    BY <2>1, <2>2, KeysDistinct DEF Sound, Plannable
  <2>4. k \in Key /\ r \in Record
    BY <2>2, KeyKinds, RecordKinds
  <2> QED BY <2>1, <2>3, <2>4 DEF Asks
<1>4. CASE MakeOverride(p)
  <2>1. PICK e \in EvaluationKey, k \in OverrideKey, limit \in Position :
          /\ Written(e) /\ limit < file[e].position
          /\ Request(p, k, [evaluation |-> e, limit |-> limit])
    BY <1>4 DEF MakeOverride
  <2> DEFINE r == [evaluation |-> e, limit |-> limit]
  <2>2. r \in Promise!Override /\ r.evaluation = e /\ r.limit = limit
    BY DEF Promise!Override
  <2>3. Sound(k, r)
    BY <2>1, <2>2, KeysDistinct DEF Sound
  <2>4. k \in Key /\ r \in Record
    BY <2>2, KeyKinds, RecordKinds
  <2> QED BY <2>1, <2>3, <2>4 DEF Asks
<1>5. CASE RecordExecution(p)
  <2>1. PICK e \in EvaluationKey, k \in ExecutionKey, basis \in PlanKey \cup OverrideKey :
          /\ Written(e) /\ Backs(basis, e)
          /\ Request(p, k, [evaluation |-> e, basis |-> basis,
                            discipline |-> Discipline(basis)])
    BY <1>5 DEF RecordExecution
  <2> DEFINE r == [evaluation |-> e, basis |-> basis, discipline |-> Discipline(basis)]
  <2>2. r \in Promise!Execution
    BY DEF Promise!Execution, Discipline
  <2>3. r.evaluation = e /\ r.basis = basis /\ r.discipline = Discipline(basis)
    OBVIOUS
  <2>4. Sound(k, r)
    <3> HIDE DEF r
    <3> QED BY <2>1, <2>2, <2>3, KeysDistinct DEF Sound, Backs, Discipline
  <2>5. k \in Key /\ r \in Record
    BY <2>2, KeyKinds, RecordKinds
  <2> QED BY <2>1, <2>4, <2>5 DEF Asks
<1>6. CASE RecordReview(p)
  <2>1. PICK k \in ReviewKey, x \in ExecutionKey, c \in Content :
          Request(p, k, [execution |-> x, content |-> c])
    BY <1>6 DEF RecordReview
  <2>2. [execution |-> x, content |-> c] \in Promise!Review
    BY DEF Promise!Review
  <2> QED BY <2>1, <2>2, KeyKinds, RecordKinds, KeysDistinct DEF Asks, Sound
<1> QED BY <1>1, <1>2, <1>3, <1>4, <1>5, <1>6 DEF Command

-----------------------------------------------------------------------------
(* One step. Asking comes from a command; the rest are the steps of a      *)
(* process that is already at work.                                        *)
Shape(p) ==
  \/ \E k \in Key, r \in Record : Asks(p, k, r)
  \/ Look(p) \/ Create(p) \/ Fill(p) \/ AuditFails(p) \/ Crash(p)

LEMMA StepShapes ==
  ASSUME LedgerInv, Next
  PROVE  \E p \in Proc : Shape(p)
<1>1. PICK p \in Proc : Command(p) \/ Work(p) \/ Crash(p)
  BY DEF Next
<1>2. Command(p) \/ Judge(p) => Shape(p)
  BY CommandsAskSoundly DEF Shape
<1> QED BY <1>1, <1>2 DEF Work, Shape

(* A process that is at work has a key and a record. *)
LEMMA AskedFor ==
  ASSUME LedgerInv, NEW p \in Proc, step[p] # "idle" \/ answer[p] = "written"
  PROVE  key(p) \in Key /\ pending[p].record \in Record
BY DEF LedgerInv, Asked, key

LEMMA InitInv == Init => LedgerInv
<1> SUFFICES ASSUME Init PROVE LedgerInv
  OBVIOUS
<1>1. TypeOK
  BY DEF Init, TypeOK, Steps, Answers
<1>2. /\ \A p \in Proc : step[p] = "idle" /\ answer[p] = "none"
      /\ \A k \in Key : ~Written(k)
  BY DEF Init, Written
<1> QED BY <1>1, <1>2 DEF LedgerInv, Asked, SoundPending, SoundFiles, FillsTorn,
           OneFills, Audited, ToldIsWritten, Writing

(* Complete records stay, and what is on the way stays sound with them.    *)
LEMMA RecordsStay ==
  ASSUME LedgerInv, NEW p \in Proc, Shape(p)
  PROVE  Stays
<1>1. CASE Create(p)
  <2>1. file[key(p)] = None => ~Written(key(p))
    BY DEF Written
  <2> QED BY <1>1, <2>1 DEF Create, Stays, LedgerInv, TypeOK
<1>2. CASE Fill(p)
  <2>1. ~Written(key(p))
    BY <1>2 DEF Fill, LedgerInv, FillsTorn, Written
  <2> QED BY <1>2, <2>1 DEF Fill, Stays, LedgerInv, TypeOK
<1>3. CASE file' = file
  BY <1>3 DEF Stays
<1> QED BY <1>1, <1>2, <1>3 DEF Shape, Asks, Request, Look, AuditFails, Crash, Leave

LEMMA TypeStep ==
  ASSUME LedgerInv, NEW p \in Proc, Shape(p)
  PROVE  TypeOK'
<1> USE DEF LedgerInv, TypeOK
<1>1. ASSUME NEW k \in Key, NEW r \in Record, Request(p, k, r) PROVE TypeOK'
  <2>1. [key |-> k, record |-> r] \in [key : Key, record : Record]
    OBVIOUS
  <2> QED BY <1>1, <2>1 DEF Request, Steps, Answers
<1>2. ASSUME NEW how \in Answers, Close(p, how)
      PROVE  /\ step' \in [Proc -> Steps] /\ answer' \in [Proc -> Answers]
             /\ pending' \in [Proc -> [key : Key, record : Record] \cup {None}]
  BY <1>2 DEF Close, Leave, Steps
<1>3. Compared(p) \in Answers /\ "written" \in Answers
  BY DEF Compared, Answers
<1>4. CASE Look(p)
  BY <1>2, <1>3, <1>4 DEF Look, Steps
<1>5. CASE Create(p)
  BY <1>2, <1>3, <1>5 DEF Create, Steps
<1>6. CASE Fill(p)
  <2>1. pending[p].record \in Record
    BY <1>6, AskedFor DEF Fill
  <2> QED BY <1>2, <1>3, <1>6, <2>1 DEF Fill
<1>7. CASE AuditFails(p) \/ Crash(p)
  BY <1>7 DEF AuditFails, Crash, Leave, Steps, Answers
<1> QED BY <1>1, <1>4, <1>5, <1>6, <1>7 DEF Shape, Asks

LEMMA AskedStep ==
  ASSUME LedgerInv, NEW p \in Proc, Shape(p)
  PROVE  Asked' /\ SoundPending'
<1> USE DEF LedgerInv, TypeOK
<1>1. Stays
  BY RecordsStay
<1>2. CASE \E k \in Key, r \in Record : Asks(p, k, r)
  <2>1. PICK k \in Key, r \in Record : Asks(p, k, r)
    BY <1>2
  <2>2. [key |-> k, record |-> r] \in [key : Key, record : Record]
    OBVIOUS
  <2>3. Asked'
    BY <2>1, <2>2 DEF Asks, Request, Asked
  <2>4. \A q \in Proc : q # p => step'[q] = step[q] /\ pending'[q] = pending[q]
    BY <2>1 DEF Asks, Request
  <2>5. pending'[p] = [key |-> k, record |-> r]
    BY <2>1 DEF Asks, Request
  <2>6. ASSUME NEW q \in Proc, step'[q] \in Writing
        PROVE  Sound(key(q), pending[q].record)'
    <3>1. CASE q = p
      <4>1. Sound(k, r)'
        BY <1>1, <2>1, SoundStays DEF Asks
      <4> QED BY <2>5, <3>1, <4>1 DEF key
    <3>2. CASE q # p
      <4>1. key(q) \in Key /\ Sound(key(q), pending[q].record)
        BY <2>4, <2>6, <3>2, AskedFor DEF Writing, SoundPending
      <4>2. PICK j \in Key, x \in Record : j = key(q) /\ x = pending[q].record
        BY <2>4, <2>6, <3>2, AskedFor DEF Writing
      <4>3. Sound(j, x)'
        BY <1>1, <4>1, <4>2, SoundStays
      <4> QED BY <2>4, <3>2, <4>2, <4>3 DEF key
    <3> QED BY <3>1, <3>2
  <2> QED BY <2>3, <2>6 DEF SoundPending
<1>3. CASE Look(p) \/ Create(p) \/ Fill(p) \/ AuditFails(p) \/ Crash(p)
  <2>1. \A q \in Proc : step'[q] # "idle" \/ answer'[q] = "written"
                        => pending'[q] = pending[q]
    BY <1>3 DEF Look, Create, Fill, AuditFails, Crash, Close, Leave
  <2>2. \A q \in Proc : step'[q] \in Writing => step[q] \in Writing
    BY <1>3 DEF Look, Create, Fill, AuditFails, Crash, Close, Leave, Writing
  <2>3. \A q \in Proc : step'[q] # "idle" \/ answer'[q] = "written"
                        => step[q] # "idle" \/ answer[q] = "written"
    BY <1>3 DEF Look, Create, Fill, AuditFails, Crash, Close, Leave
  <2>4. ASSUME NEW q \in Proc, step'[q] \in Writing
        PROVE  Sound(key(q), pending[q].record)'
    <3>1. PICK j \in Key, x \in Record :
            j = key(q) /\ x = pending[q].record /\ Sound(j, x)
      BY <2>2, <2>4, AskedFor DEF Writing, SoundPending
    <3>2. Sound(j, x)'
      BY <1>1, <3>1, SoundStays
    <3>3. pending'[q] = pending[q]
      BY <2>1, <2>4 DEF Writing
    <3> QED BY <3>1, <3>2, <3>3 DEF key
  <2>5. Asked'
    BY <2>1, <2>3 DEF Asked
  <2> QED BY <2>4, <2>5 DEF SoundPending
<1> QED BY <1>2, <1>3 DEF Shape

(* A new file is filled by who created it, and it was not there before.    *)
LEMMA FillsStep ==
  ASSUME LedgerInv, NEW p \in Proc, Shape(p)
  PROVE  FillsTorn' /\ OneFills'
<1> USE DEF LedgerInv, TypeOK
<1>1. CASE Create(p) /\ file[key(p)] = None
  <2>1. /\ file' = [file EXCEPT ![key(p)] = Torn]
        /\ step' = [step EXCEPT ![p] = "fill"]
        /\ pending' = pending /\ file[key(p)] = None
    BY <1>1 DEF Create
  <2>2. key(p) \in Key
    BY <1>1, AskedFor DEF Create
  <2>3. \A q \in Proc : q # p /\ step[q] = "fill" => key(q) # key(p)
    BY <2>1 DEF FillsTorn
  <2>4. \A q \in Proc : key(q)' = key(q)
    BY <2>1 DEF key
  <2>5. FillsTorn'
    BY <2>1, <2>2, <2>3, <2>4 DEF FillsTorn
  <2>6. OneFills'
    BY <2>1, <2>3, <2>4 DEF OneFills
  <2> QED BY <2>5, <2>6
<1>2. CASE Fill(p)
  <2>1. /\ file' = [file EXCEPT ![key(p)] = pending[p].record]
        /\ step[p] = "fill" /\ pending' = pending
        /\ \A q \in Proc : step'[q] = "fill" => step[q] = "fill" /\ q # p
    BY <1>2 DEF Fill, Close
  <2>2. \A q \in Proc : key(q)' = key(q)
    BY <2>1 DEF key
  <2>3. OneFills'
    BY <2>1, <2>2 DEF OneFills
  <2>4. \A q \in Proc : step'[q] = "fill" => key(q) # key(p)
    BY <2>1 DEF OneFills
  <2> QED BY <2>1, <2>2, <2>3, <2>4 DEF FillsTorn
<1>3. CASE file' = file /\ \A q \in Proc : step'[q] = "fill"
                             => step[q] = "fill" /\ pending'[q] = pending[q]
  BY <1>3 DEF FillsTorn, OneFills, key
<1>4. CASE \E k \in Key, r \in Record : Asks(p, k, r)
  BY <1>3, <1>4 DEF Asks, Request
<1>5. CASE Look(p) \/ (Create(p) /\ file[key(p)] # None) \/ AuditFails(p) \/ Crash(p)
  <2>1. file' = file
    BY <1>5 DEF Look, Create, AuditFails, Crash
  <2>2. \A q \in Proc : step'[q] = "fill" => step[q] = "fill" /\ pending'[q] = pending[q]
    BY <1>5 DEF Look, Create, AuditFails, Crash, Close, Leave
  <2> QED BY <1>3, <2>1, <2>2
<1> QED BY <1>1, <1>2, <1>4, <1>5 DEF Shape

(* Who is told, and whose intent goes to the audit, finds its record.      *)
LEMMA ToldStep ==
  ASSUME LedgerInv, NEW p \in Proc, Shape(p)
  PROVE  ToldIsWritten' /\ Audited'
<1> USE DEF LedgerInv, TypeOK
<1>1. Stays
  BY RecordsStay
<1>2. ASSUME NEW q \in Proc, answer[q] = "written",
             answer'[q] = answer[q], pending'[q] = pending[q]
      PROVE  file'[key(q)'] = pending'[q].record
  <2>1. file[key(q)] = pending[q].record
    BY <1>2 DEF ToldIsWritten
  <2>2. key(q) \in Key /\ Written(key(q))
    BY <1>2, <2>1, AskedFor DEF Written
  <2> QED BY <1>1, <1>2, <2>1, <2>2 DEF Stays, key
<1>3. ASSUME NEW q \in Proc, step[q] = "audit",
             step'[q] = step[q], pending'[q] = pending[q]
      PROVE  key(q)' \in IntentKey /\ Written(key(q))'
  <2>1. key(q) \in IntentKey /\ Written(key(q)) /\ key(q) \in Key
    BY <1>3, KeyKinds DEF Audited
  <2> QED BY <1>1, <1>3, <2>1 DEF Stays, key, Written
<1>4. \A q \in Proc : q # p => /\ step'[q] = step[q]
                               /\ pending'[q] = pending[q] /\ answer'[q] = answer[q]
  BY DEF Shape, Asks, Request, Look, Create, Fill, AuditFails, Crash, Close, Leave
<1>5. answer'[p] = "written" => file'[key(p)'] = pending'[p].record
  <2>1. CASE Fill(p)
    <3>1. key(p) \in Key
      BY <2>1, AskedFor DEF Fill
    <3> QED BY <2>1, <3>1 DEF Fill, Close, key
  <2>2. CASE Look(p) \/ Create(p)
    <3>1. answer'[p] = "written" /\ answer[p] # "written"
            => Compared(p) = "written" /\ file' = file
      BY <2>2 DEF Look, Create, Close, Leave
    <3>2. answer'[p] = "written" => pending'[p] = pending[p]
      BY <2>2 DEF Look, Create, Close, Leave
    <3>3. Compared(p) = "written" => file[key(p)] = pending[p].record
      BY DEF Compared
    <3>4. CASE answer[p] = "written"
      <4>1. file[key(p)] = pending[p].record /\ key(p) \in Key /\ Written(key(p))
        BY <3>4, AskedFor DEF ToldIsWritten, Written
      <4> QED BY <1>1, <3>2, <4>1 DEF Stays, key
    <3> QED BY <3>1, <3>2, <3>3, <3>4 DEF key
  <2>3. CASE (\E k \in Key, r \in Record : Asks(p, k, r)) \/ AuditFails(p) \/ Crash(p)
    BY <2>3 DEF Asks, Request, AuditFails, Crash, Leave
  <2> QED BY <2>1, <2>2, <2>3 DEF Shape
<1>6. step'[p] = "audit" => key(p)' \in IntentKey /\ Written(key(p))'
  <2> SUFFICES ASSUME step'[p] = "audit" PROVE key(p)' \in IntentKey /\ Written(key(p))'
    OBVIOUS
  <2>1. answer'[p] = "written" /\ key(p) \in IntentKey /\ pending' = pending
    BY DEF Shape, Asks, Request, Look, Create, Fill, AuditFails, Crash, Close, Leave
  <2>2. pending[p].record \in Record
    <3>1. step[p] # "idle"
      BY DEF Shape, Asks, Request, Look, Create, Fill, AuditFails, Crash, Leave
    <3> QED BY <3>1, AskedFor
  <2> QED BY <1>5, <2>1, <2>2 DEF key, Written
<1>7. ToldIsWritten'
  BY <1>2, <1>4, <1>5 DEF ToldIsWritten
<1>8. Audited'
  BY <1>3, <1>4, <1>6 DEF Audited
<1> QED BY <1>7, <1>8

(* The records in the ledger stay sound, and a new one was asked soundly.  *)
LEMMA SoundStep ==
  ASSUME LedgerInv, NEW p \in Proc, Shape(p)
  PROVE  SoundFiles'
<1> USE DEF LedgerInv, TypeOK
<1>1. Stays
  BY RecordsStay
<1>2. ASSUME NEW k \in Key, Written(k)
      PROVE  Sound(k, file[k])'
  <2>1. PICK r \in Record : r = file[k] /\ Sound(k, r)
    BY <1>2 DEF SoundFiles, Written
  <2>2. Sound(k, r)'
    BY <1>1, <2>1, SoundStays
  <2> QED BY <1>1, <1>2, <2>1, <2>2 DEF Stays
<1>3. ASSUME NEW k \in Key, ~Written(k), Written(k)'
      PROVE  Sound(k, file[k])'
  <2>1. Fill(p) /\ k = key(p)
    BY <1>3 DEF Shape, Asks, Request, Look, Create, Fill, AuditFails, Crash, Leave, Written
  <2>2. PICK r \in Record : r = pending[p].record /\ Sound(k, r)
    BY <2>1, AskedFor DEF Fill, SoundPending, Writing
  <2>3. Sound(k, r)' /\ file'[k] = r
    BY <1>1, <2>1, <2>2, SoundStays DEF Fill
  <2> QED BY <2>3
<1> QED BY <1>2, <1>3 DEF SoundFiles

LEMMA InvStep == LedgerInv /\ [Next]_vars => LedgerInv'
<1> SUFFICES ASSUME LedgerInv, [Next]_vars PROVE LedgerInv'
  OBVIOUS
<1>1. CASE Next
  <2>1. PICK p \in Proc : Shape(p)
    BY <1>1, StepShapes
  <2>2. TypeOK'
    BY <2>1, TypeStep
  <2>3. Asked' /\ SoundPending'
    BY <2>1, AskedStep
  <2>4. FillsTorn' /\ OneFills'
    BY <2>1, FillsStep
  <2>5. ToldIsWritten' /\ Audited'
    BY <2>1, ToldStep
  <2>6. SoundFiles'
    BY <2>1, SoundStep
  <2> QED BY <2>2, <2>3, <2>4, <2>5, <2>6 DEF LedgerInv
<1>2. CASE UNCHANGED vars
  BY <1>2 DEF vars, LedgerInv, TypeOK, Asked, SoundPending, SoundFiles, Sound, key,
     FillsTorn, OneFills, Audited, ToldIsWritten, Written
<1> QED BY <1>1, <1>2

LEMMA LedgerCorrect == Spec => []LedgerInv
BY InitInv, InvStep, PTL DEF Spec

-----------------------------------------------------------------------------
(* The theorems. *)

(* Every reachable ledger and every process is well typed. *)
THEOREM TypeCorrect == Spec => []TypeOK
<1>1. LedgerInv => TypeOK
  BY DEF LedgerInv
<1> QED BY <1>1, LedgerCorrect, PTL

(* Complete records are never changed. *)
THEOREM RecordsAreAppended == Spec => AppendOnly
<1>1. LedgerInv /\ [Next]_vars => [\A k \in Key : Written(k) => file'[k] = file[k]]_vars
  <2> SUFFICES ASSUME LedgerInv, Next
               PROVE  \A k \in Key : Written(k) => file'[k] = file[k]
    OBVIOUS
  <2>1. PICK p \in Proc : Shape(p)
    BY StepShapes
  <2> QED BY <2>1, RecordsStay DEF Stays
<1> QED BY <1>1, LedgerCorrect, PTL DEF Spec, AppendOnly

(* Who is told that a record was written finds it in the ledger. *)
THEOREM NobodyIsDeceived == Spec => []ToldIsWritten
<1>1. LedgerInv => ToldIsWritten
  BY DEF LedgerInv
<1> QED BY <1>1, LedgerCorrect, PTL

(* Every execution followed a PASS through a plan, or a smaller override.  *)
THEOREM ExecutionsAreAccountable == Spec => []Accountable
<1>1. LedgerInv => Accountable
  <2> SUFFICES ASSUME LedgerInv, NEW x \in ExecutionKey, Written(x)
               PROVE  LET e == file[x].evaluation
                          b == file[x].basis
                      IN /\ Written(e) /\ Written(file[e].intent)
                         /\ Written(b) /\ file[b].evaluation = e
                         /\ IF file[x].discipline = "PASS"
                            THEN b \in PlanKey /\ file[e].decision = "PASS"
                            ELSE b \in OverrideKey /\ file[b].limit < file[e].position
    BY DEF Accountable
  <2> DEFINE e == file[x].evaluation
             b == file[x].basis
  <2>1. Sound(x, file[x])
    BY KeyKinds DEF LedgerInv, SoundFiles
  <2>2. /\ file[x] \in Promise!Execution /\ Written(e) /\ Written(b)
        /\ file[b].evaluation = e
        /\ file[x].discipline = IF b \in PlanKey THEN "PASS" ELSE "OVERRIDDEN"
    BY <2>1 DEF Sound
  <2>3. e \in EvaluationKey /\ b \in PlanKey \cup OverrideKey
    BY <2>2 DEF Promise!Execution
  <2>4. Written(file[e].intent)
    <3>1. Sound(e, file[e])
      BY <2>2, <2>3, KeyKinds DEF LedgerInv, SoundFiles
    <3> QED BY <2>3, <3>1 DEF Sound
  <2>5. Sound(b, file[b])
    BY <2>2, <2>3, KeyKinds DEF LedgerInv, SoundFiles
  <2>6. b \in PlanKey => file[e].decision = "PASS"
    BY <2>2, <2>5 DEF Sound
  <2>7. b \in OverrideKey => file[b].limit < file[e].position
    BY <2>2, <2>5 DEF Sound
  <2> HIDE DEF e, b
  <2> QED BY <2>2, <2>3, <2>4, <2>6, <2>7 DEF e, b
<1> QED BY <1>1, LedgerCorrect, PTL

-----------------------------------------------------------------------------
(* The refinement. *)

(* The records readers see. *)
Seen == [k \in DOMAIN file |-> IF Written(k) THEN file[k] ELSE None]

LEMMA SeenRecords ==
  ASSUME TypeOK
  PROVE  /\ DOMAIN Seen = Key
         /\ \A k \in Key : Written(k) => Seen[k] = file[k] /\ Seen[k] # None
         /\ \A k \in Key : ~Written(k) => Seen[k] = None
BY DEF TypeOK, Seen, Written

(* A sound record is a lawful one. *)
LEMMA SoundIsLawful ==
  ASSUME TypeOK, NEW k \in Key, NEW r, Sound(k, r)
  PROVE  Promise!Lawful(k, r)
<1>1. \A j \in Key : Written(j) => Promise!There(j) /\ Seen[j] = file[j]
  BY SeenRecords DEF Promise!There, Seen
<1>2. k \in EvaluationKey => r \in Promise!Evaluation /\ Promise!There(r.intent)
  BY <1>1, KeyKinds DEF Sound, Promise!Evaluation
<1>3. k \in PlanKey => /\ r \in Promise!Plan /\ Promise!There(r.evaluation)
                       /\ Seen[r.evaluation].decision = "PASS"
  BY <1>1, KeyKinds DEF Sound, Promise!Plan
<1>4. k \in OverrideKey => /\ r \in Promise!Override /\ Promise!There(r.evaluation)
                           /\ r.limit < Seen[r.evaluation].position
  BY <1>1, KeyKinds DEF Sound, Promise!Override
<1>5. k \in ExecutionKey =>
        /\ r \in Promise!Execution /\ Promise!There(r.evaluation)
        /\ Promise!There(r.basis)
        /\ Seen[r.basis].evaluation = r.evaluation
        /\ r.discipline = IF r.basis \in PlanKey THEN "PASS" ELSE "OVERRIDDEN"
  BY <1>1, KeyKinds DEF Sound, Promise!Execution
<1>6. (k \in IntentKey => r \in Promise!Intent) /\ (k \in ReviewKey => r \in Promise!Review)
  BY DEF Sound
<1> QED BY <1>2, <1>3, <1>4, <1>5, <1>6 DEF Promise!Lawful, Seen

LEMMA StepAppends ==
  ASSUME LedgerInv, Next
  PROVE  Promise!Next \/ Seen' = Seen
<1> USE DEF LedgerInv, TypeOK
<1>1. PICK p \in Proc : Shape(p)
  BY StepShapes
<1>2. TypeOK'
  BY <1>1, TypeStep
<1>3. CASE Fill(p)
  <2>1. PICK k \in Key, r \in Record :
          k = key(p) /\ r = pending[p].record /\ Sound(k, r)
    BY <1>3, AskedFor DEF Fill, SoundPending, Writing
  <2>2. ~Written(k)
    BY <1>3, <2>1 DEF Fill, FillsTorn, Written
  <2>3. file' = [file EXCEPT ![k] = r]
    BY <1>3, <2>1 DEF Fill
  <2>4. \A j \in Key : Written(j)' <=> (Written(j) \/ j = k)
    BY <2>3 DEF Written
  <2>5. Seen' = [Seen EXCEPT ![k] = r]
    BY <1>2, <2>3, <2>4 DEF Seen
  <2>6. ~Promise!There(k)
    BY <2>2, SeenRecords DEF Promise!There, Seen
  <2>7. Promise!Lawful(k, r)
    BY <2>1, SoundIsLawful
  <2>8. Promise!Append(k, r)
    BY <2>5, <2>6, <2>7 DEF Promise!Append, Seen
  <2>9. Seen'[k] # Seen[k]
    BY <1>2, <2>1, <2>2, <2>4, SeenRecords, <2>5 DEF Seen, Written
  <2> QED BY <2>1, <2>8, <2>9 DEF Promise!Next, Key, Record, Seen
<1>4. CASE Create(p) /\ file[key(p)] = None
  <2>1. file' = [file EXCEPT ![key(p)] = Torn] /\ file[key(p)] = None
    BY <1>4 DEF Create
  <2>2. \A j \in Key : (Written(j)' <=> Written(j)) /\ (Written(j) => file'[j] = file[j])
    BY <2>1 DEF Written
  <2> QED BY <1>2, <2>2 DEF Seen
<1>5. CASE file' = file
  BY <1>5 DEF Seen, Written
<1> QED BY <1>1, <1>3, <1>4, <1>5
        DEF Shape, Asks, Request, Look, Create, AuditFails, Crash, Leave

(* Readers of the ledger see lawful records appended and nothing else.     *)
THEOREM LedgerKeepsPromise == Spec => ImplementsTradeRecords
<1>1. Init => Promise!Init
  <2> SUFFICES ASSUME Init PROVE Promise!Init
    OBVIOUS
  <2>1. TypeOK /\ \A k \in Key : ~Written(k)
    BY InitInv DEF LedgerInv, Init, Written
  <2>2. Seen = [k \in Key |-> None]
    BY <2>1, SeenRecords DEF Seen
  <2> QED BY <2>2 DEF Promise!Init, Seen, Key
<1>2. LedgerInv /\ [Next]_vars => [Promise!Next]_Seen
  <2>1. UNCHANGED vars => Seen' = Seen
    BY DEF vars, Seen, Written
  <2> QED BY <2>1, StepAppends
<1>3. [Promise!Next]_Seen <=> [Promise!Next]_([k \in DOMAIN file |->
                                 IF Written(k) THEN file[k] ELSE None])
  BY DEF Seen
<1>4. LedgerInv /\ [Next]_vars
        => [Promise!Next]_([k \in DOMAIN file |-> IF Written(k) THEN file[k] ELSE None])
  BY <1>2, <1>3
<1> QED BY <1>1, <1>4, LedgerCorrect, PTL DEF Spec, ImplementsTradeRecords, Promise!Spec

-----------------------------------------------------------------------------
(* The watchlist. Its entries are those of WatchEntry.                     *)

LEMMA EntriesAreEntries ==
  /\ Watch!Path = Path /\ Watch!Active = Active /\ Watch!Reserved = Reserved
  /\ Watch!State = State /\ Watch!Time = Time /\ Watch!Event = Event /\ Watch!Entry = Entry
BY DEF Watch!Path, Path, Watch!Active, Active, Watch!Reserved, Reserved, Watch!State, State,
       Watch!Time, Time, Watch!Event, Event, Watch!Entry, Entry

USE EntriesAreEntries DEF Watch!Readable, Readable, Watch!watchVars, watchVars

(* Its state machine keeps entries well formed.                            *)

LEMMA PathFacts ==
  /\ Len(Path) = 4 /\ DOMAIN Path = 1 .. 4
  /\ Path[1] = "DISCOVERED" /\ Path[2] = "WATCH"
  /\ Path[3] = "DEEP_RESEARCH" /\ Path[4] = "TRACK_SIGNAL"
  /\ \A i \in 1 .. 4 : Path[i] \in Active
BY DEF Path, Active

(* A state of the path has one successor, its last has none.               *)
LEMMA AllowedIsNext ==
  ASSUME NEW n \in 1 .. 4, NEW to \in Watch!Allowed(Path[n])
  PROVE  n < 4 /\ to = Path[n + 1]
<1>1. PICK j \in 1 .. 3 : Path[j] = Path[n] /\ to = Path[j + 1]
  BY PathFacts DEF Watch!Allowed
<1>2. j = n
  BY <1>1, PathFacts
<1> QED BY <1>1, <1>2

LEMMA OpenedIsProper ==
  ASSUME NEW t \in Time, NEW thesis \in Thesis \cup {Nothing}
  PROVE  Watch!Opened(t, thesis) \in Entry /\ FollowsPath(Watch!Opened(t, thesis))
<1> DEFINE o == Watch!Opened(t, thesis)
           e == [at |-> t, from |-> Nothing, to |-> "DISCOVERED"]
<1>1. e \in Event
  BY PathFacts DEF Event
<1>2. /\ o.timeline = <<e>> /\ o.state = "DISCOVERED" /\ o.updated = t
      /\ o.thesis = thesis
  BY DEF Watch!Opened
<1>3. <<e>> \in Seq(Event) /\ Len(<<e>>) = 1 /\ <<e>>[1] = e
  BY <1>1
<1>4. o \in Entry
  BY <1>3, PathFacts DEF Watch!Opened, Entry
<1>5. FollowsPath(o)
  <2> HIDE DEF o
  <2> QED BY <1>2, <1>3, PathFacts DEF FollowsPath
<1> QED BY <1>4, <1>5

LEMMA EditedIsProper ==
  ASSUME NEW e \in Entry, NEW t \in Time, NEW thesis \in Thesis \cup {Nothing}
  PROVE  /\ Watch!Edited(e, t, thesis) \in Entry
         /\ Watch!Edited(e, t, thesis).timeline = e.timeline
         /\ Watch!Edited(e, t, thesis).state = e.state
         /\ Watch!Edited(e, t, thesis).updated \in {e.updated, t}
BY DEF Watch!Edited, Entry

LEMMA MovedIsProper ==
  ASSUME NEW e \in Entry, NEW t \in Time, NEW to, Watch!MayMove(e, to, t), FollowsPath(e)
  PROVE  /\ Watch!Moved(e, to, t) \in Entry
         /\ FollowsPath(Watch!Moved(e, to, t))
         /\ Watch!Moved(e, to, t).timeline
              = Append(e.timeline, [at |-> t, from |-> e.state, to |-> to])
         /\ Watch!Moved(e, to, t).updated = t
<1>0. PICK n \in 1 .. 4 : n = Len(e.timeline)
  BY PathFacts DEF FollowsPath
<1> DEFINE event == [at |-> t, from |-> e.state, to |-> to]
           line == Append(e.timeline, event)
           m == Watch!Moved(e, to, t)
<1>1. e.timeline \in Seq(Event) /\ e.state \in Active
  BY DEF Entry
<1>2. e.state = Path[n]
  BY <1>0 DEF FollowsPath
<1>3. n < 4 /\ to = Path[n + 1]
  BY <1>2, AllowedIsNext DEF Watch!MayMove
<1>4. event \in Event
  BY <1>1, <1>3, PathFacts DEF Event
<1>5. /\ line \in Seq(Event) /\ Len(line) = n + 1 /\ line[n + 1] = event
      /\ \A i \in 1 .. n : line[i] = e.timeline[i]
  BY <1>0, <1>1, <1>4
<1>6. m = [state |-> to, updated |-> t, thesis |-> e.thesis, timeline |-> line]
  BY DEF Watch!Moved
<1>7. m \in Entry /\ m.timeline = line /\ m.state = to /\ m.updated = t
  <2>1. to \in Active /\ e.thesis \in Thesis \cup {Nothing}
    BY <1>2, <1>3, PathFacts DEF Entry
  <2> HIDE DEF line, m
  <2> QED BY <1>5, <1>6, <2>1 DEF Entry
<1>8. FollowsPath(m)
  <2>1. \A i \in 1 .. n : /\ e.timeline[i].to = Path[i]
                          /\ e.timeline[i].from = IF i = 1 THEN Nothing ELSE Path[i - 1]
    BY <1>0, <1>1 DEF FollowsPath
  <2>2. event.to = Path[n + 1] /\ event.from = Path[n]
    BY <1>2, <1>3
  <2> HIDE DEF line, m, event
  <2>3. DOMAIN line = 1 .. n + 1
    BY <1>5
  <2>4. ASSUME NEW i \in 1 .. n + 1
        PROVE  /\ line[i].to = Path[i]
               /\ line[i].from = IF i = 1 THEN Nothing ELSE Path[i - 1]
    <3>1. CASE i = n + 1
      <4>1. line[i] = event
        BY <1>5, <3>1
      <4>2. i # 1 /\ i - 1 = n
        BY <3>1
      <4> QED BY <2>2, <3>1, <4>1, <4>2
    <3>2. CASE i \in 1 .. n
      BY <1>5, <2>1, <3>2
    <3> QED BY <3>1, <3>2
  <2>5. Len(m.timeline) \in DOMAIN Path /\ m.state = Path[Len(m.timeline)]
    BY <1>3, <1>5, <1>7, PathFacts
  <2> QED BY <1>7, <2>3, <2>4, <2>5 DEF FollowsPath
<1> QED BY <1>7, <1>8

(* A new version keeps the recorded state changes.                         *)
LEMMA EditedExtends ==
  ASSUME NEW e \in Entry, NEW t \in Time, NEW thesis \in Thesis \cup {Nothing}
  PROVE  Extends(Watch!Edited(e, t, thesis), e)
<1>1. Watch!Edited(e, t, thesis).timeline = e.timeline
  BY EditedIsProper
<1>2. e.timeline \in Seq(Event)
  BY DEF Entry
<1> QED BY <1>1, <1>2 DEF Extends

LEMMA MovedExtends ==
  ASSUME NEW e \in Entry, NEW t \in Time, NEW to, Watch!MayMove(e, to, t), FollowsPath(e)
  PROVE  Extends(Watch!Moved(e, to, t), e)
<1>0. PICK n \in 1 .. 4 : n = Len(e.timeline)
  BY PathFacts DEF FollowsPath
<1> DEFINE line == Append(e.timeline, [at |-> t, from |-> e.state, to |-> to])
           m == Watch!Moved(e, to, t)
<1>1. m.timeline = line
  BY MovedIsProper
<1>2. e.timeline \in Seq(Event)
  BY DEF Entry
<1>3. /\ DOMAIN e.timeline = 1 .. n /\ Len(line) = n + 1
      /\ \A i \in 1 .. n : line[i] = e.timeline[i]
  BY <1>0, <1>2
<1> HIDE DEF line, m
<1>4. Extends(m, e)
  BY <1>0, <1>1, <1>3 DEF Extends
<1> QED BY <1>4 DEF m

-----------------------------------------------------------------------------
(* However many commands run at once. *)

(* Who is about to write holds an entry that follows the path. *)
Holds(p) == doing[p] \in {"truncate", "fill"}
DraftsFollow ==
  \A p \in Shell : Holds(p) => draft[p] \in Entry /\ FollowsPath(draft[p])

PathInv == Watch!TypeOK /\ DraftsFollow /\ TimelineTellsState

(* A command that has read either is refused or holds a new version of     *)
(* what it found.                                                          *)
Drafted(p, d) ==
  /\ draft' = [draft EXCEPT ![p] = d]
  /\ doing' = [doing EXCEPT ![p] = "truncate"]
  /\ at' = at
  /\ FollowsPath(d)
  /\ Readable => Extends(d, entry)

LEMMA FoundIsProper ==
  ASSUME PathInv, NEW p \in Shell, doing[p] = "read", Watch!Legible,
         NEW thesis \in Thesis \cup {Nothing}
  PROVE  /\ Watch!Found(p, thesis) \in Entry /\ FollowsPath(Watch!Found(p, thesis))
         /\ Readable => Extends(Watch!Found(p, thesis), entry)
<1>1. at[p] \in Time /\ at[p] \in Nat
  BY ClockIsBounded DEF PathInv, Watch!TypeOK, Time
<1>2. CASE Readable
  <2>1. entry \in Entry /\ FollowsPath(entry) /\ Watch!Found(p, thesis) = Watch!Edited(entry, at[p], thesis)
    BY <1>2 DEF PathInv, TimelineTellsState, Readable, Watch!Found
  <2>2. PICK e \in Entry : e = entry
    BY <2>1
  <2>3. Watch!Edited(e, at[p], thesis) \in Entry /\ FollowsPath(Watch!Edited(e, at[p], thesis))
    BY <1>1, <2>1, <2>2, EditedIsProper DEF FollowsPath
  <2> QED BY <1>1, <1>2, <2>1, <2>2, <2>3, EditedExtends
<1>3. CASE ~Readable
  <2>1. Watch!Found(p, thesis) = Watch!Opened(at[p], thesis)
    BY <1>3 DEF Watch!Found
  <2> QED BY <1>1, <1>3, <2>1, OpenedIsProper
<1> QED BY <1>2, <1>3

LEMMA ReadDrafts ==
  ASSUME PathInv, NEW p \in Shell, Watch!Read(p)
  PROVE  Watch!Leave(p) \/ \E d \in Entry : Drafted(p, d)
<1>1. doing[p] = "read" /\ Watch!Legible
  BY DEF Watch!Read
<1>2. PICK thesis \in Thesis \cup {Nothing}, to \in State \cup {Nothing} :
        LET e == Watch!Found(p, thesis)
        IN \/ /\ to = Nothing
              /\ draft' = [draft EXCEPT ![p] = e]
              /\ doing' = [doing EXCEPT ![p] = "truncate"]
              /\ UNCHANGED at
           \/ /\ to # Nothing /\ Watch!MayMove(e, to, at[p])
              /\ draft' = [draft EXCEPT ![p] = Watch!Moved(e, to, at[p])]
              /\ doing' = [doing EXCEPT ![p] = "truncate"]
              /\ UNCHANGED at
           \/ /\ to # Nothing /\ ~Watch!MayMove(e, to, at[p])
              /\ Watch!Leave(p)
  BY DEF Watch!Read
<1>3. PICK e \in Entry :
        /\ e = Watch!Found(p, thesis) /\ FollowsPath(e)
        /\ Readable => Extends(e, entry)
  BY <1>1, FoundIsProper
<1>4. CASE /\ draft' = [draft EXCEPT ![p] = e]
           /\ doing' = [doing EXCEPT ![p] = "truncate"] /\ at' = at
  BY <1>3, <1>4 DEF Drafted
<1>5. CASE /\ Watch!MayMove(e, to, at[p])
           /\ draft' = [draft EXCEPT ![p] = Watch!Moved(e, to, at[p])]
           /\ doing' = [doing EXCEPT ![p] = "truncate"] /\ at' = at
  <2>1. at[p] \in Time /\ at[p] \in Nat
    BY ClockIsBounded DEF PathInv, Watch!TypeOK, Time
  <2>2. PICK d \in Entry :
          /\ d = Watch!Moved(e, to, at[p]) /\ FollowsPath(d) /\ Extends(d, e)
    BY <1>3, <1>5, <2>1, MovedIsProper, MovedExtends
  <2>3. Readable => Extends(d, entry)
    <3> SUFFICES ASSUME Readable PROVE Extends(d, entry)
      OBVIOUS
    <3>1. entry.timeline \in Seq(Event) /\ e.timeline \in Seq(Event) /\ d.timeline \in Seq(Event)
      BY DEF Readable, Entry
    <3> QED BY <1>3, <2>2, <3>1 DEF Extends
  <2>4. Drafted(p, d)
    BY <1>5, <2>2, <2>3 DEF Drafted
  <2> QED BY <2>4
<1> QED BY <1>2, <1>3, <1>4, <1>5

LEMMA PathInit == Watch!Init => PathInv
<1> SUFFICES ASSUME Watch!Init PROVE PathInv
  OBVIOUS
<1>1. Watch!TypeOK
  BY ClockIsBounded DEF Watch!Init, Watch!TypeOK, Watch!Steps, Time
<1>2. DraftsFollow /\ TimelineTellsState
  BY MarksDistinct DEF Watch!Init, DraftsFollow, Holds, TimelineTellsState, Readable
<1> QED BY <1>1, <1>2 DEF PathInv

LEMMA PathStep == PathInv /\ [Watch!Next]_watchVars => PathInv'
<1> SUFFICES ASSUME PathInv, [Watch!Next]_watchVars PROVE PathInv'
  OBVIOUS
<1>0. single' = single
  BY DEF Watch!Next, watchVars
<1> USE <1>0 DEF PathInv, Watch!TypeOK, Readable
<1>1. CASE Watch!Tick
  <2>1. clock' \in Time
    BY <1>1, ClockIsBounded DEF Watch!Tick, Time
  <2> QED BY <1>1, <2>1 DEF Watch!Tick, DraftsFollow, Holds, TimelineTellsState
<1>2. ASSUME NEW p \in Shell, Watch!Ask(p) PROVE PathInv'
  BY <1>2 DEF Watch!Ask, DraftsFollow, Holds, TimelineTellsState, Watch!Steps
<1>3. ASSUME NEW p \in Shell, Watch!Read(p) PROVE PathInv'
  <2>1. entry' = entry /\ clock' = clock
    BY <1>3 DEF Watch!Read
  <2>2. CASE Watch!Leave(p)
    BY <2>1, <2>2, ClockIsBounded DEF Watch!Leave, Time, DraftsFollow, Holds, TimelineTellsState, Watch!Steps
  <2>3. ASSUME NEW d \in Entry, Drafted(p, d) PROVE PathInv'
    BY <2>1, <2>3 DEF Drafted, DraftsFollow, Holds, TimelineTellsState, Watch!Steps
  <2> QED BY <1>3, <2>2, <2>3, ReadDrafts
<1>4. ASSUME NEW p \in Shell, Watch!ReadFails(p) PROVE PathInv'
  BY <1>4, ClockIsBounded DEF Watch!ReadFails, Watch!Leave, Time, DraftsFollow, Holds, TimelineTellsState, Watch!Steps
<1>5. ASSUME NEW p \in Shell, Watch!Truncate(p) PROVE PathInv'
  BY <1>5, MarksDistinct DEF Watch!Truncate, DraftsFollow, Holds, TimelineTellsState, Watch!Steps
<1>6. ASSUME NEW p \in Shell, Watch!Fill(p) PROVE PathInv'
  <2>1. draft[p] \in Entry /\ FollowsPath(draft[p])
    BY <1>6 DEF Watch!Fill, DraftsFollow, Holds
  <2>2. entry' \in {draft[p], Mangled}
    BY <1>6 DEF Watch!Fill
  <2>3. TimelineTellsState'
    BY <2>1, <2>2, MarksDistinct DEF TimelineTellsState
  <2> QED BY <1>6, ClockIsBounded, <2>1, <2>2, <2>3 DEF Watch!Fill, Watch!Leave, Time, DraftsFollow, Holds, Watch!Steps
<1>7. ASSUME NEW p \in Shell, Watch!Crash(p) PROVE PathInv'
  <2>1. entry' \in {entry, Mangled}
    BY <1>7 DEF Watch!Crash
  <2>2. TimelineTellsState'
    BY <2>1, MarksDistinct DEF TimelineTellsState
  <2> QED BY <1>7, ClockIsBounded, <2>1, <2>2 DEF Watch!Crash, Watch!Leave, Time, DraftsFollow, Holds, Watch!Steps
<1>8. CASE UNCHANGED watchVars
  BY <1>8 DEF watchVars, DraftsFollow, Holds, TimelineTellsState
<1> QED BY <1>1, <1>2, <1>3, <1>4, <1>5, <1>6, <1>7, <1>8 DEF Watch!Next, Watch!Step

LEMMA PathCorrect == Watch!Spec => []PathInv
BY PathInit, PathStep, PTL DEF Watch!Spec

(* Every reachable state is well typed; no entry is in a reserved state.   *)
THEOREM WatchTypeCorrect == Watch!Spec => []Watch!TypeOK
<1>1. PathInv => Watch!TypeOK
  BY DEF PathInv
<1> QED BY <1>1, PathCorrect, PTL

(* A readable entry tells in its timeline how it came to its state.        *)
THEOREM TimelinesAreTrue == Watch!Spec => []TimelineTellsState
<1>1. PathInv => TimelineTellsState
  BY DEF PathInv
<1> QED BY <1>1, PathCorrect, PTL

(* A wrecked record is never taken for an untracked symbol. *)
THEOREM WrecksStay == Watch!Spec => WreckStays
<1>1. PathInv /\ [Watch!Next]_watchVars => [Abandoned => Abandoned']_watchVars
  <2> SUFFICES ASSUME PathInv, Watch!Next, Abandoned PROVE Abandoned'
    OBVIOUS
  <2>1. ~Watch!Legible
    BY MarksDistinct DEF Abandoned, Watch!Legible, Readable
  <2> QED BY <2>1 DEF Watch!Next, Watch!Step, Watch!Leave, Watch!Tick, Watch!Ask, Watch!Read, Watch!ReadFails, Watch!Truncate, Watch!Fill, Watch!Crash, Abandoned,
                      PathInv, Watch!TypeOK
<1> QED BY <1>1, PathCorrect, PTL DEF Watch!Spec, WreckStays

-----------------------------------------------------------------------------
(* One command at a time, killed at any point. *)

NoOverlap == \A p, q \in Shell : p # q => doing[p] = "idle" \/ doing[q] = "idle"

(* A command that is going to write has kept what it read.                 *)
NothingDropped ==
  \A p \in Shell : doing[p] = "truncate" /\ Readable => Extends(draft[p], entry)

KeepInv == single => NoOverlap /\ NothingDropped

LEMMA KeepInit == Watch!Init => KeepInv
BY DEF Watch!Init, KeepInv, NoOverlap, NothingDropped

LEMMA KeepStep ==
  ASSUME PathInv, KeepInv, [Watch!Next]_watchVars
  PROVE  KeepInv'
<1>. SUFFICES ASSUME single PROVE (NoOverlap /\ NothingDropped)'
  BY DEF KeepInv, Watch!Next, watchVars
<1>. USE DEF KeepInv, NoOverlap, NothingDropped, PathInv, Watch!TypeOK
<1>1. CASE Watch!Tick
  BY <1>1 DEF Watch!Tick, Readable
<1>2. ASSUME NEW p \in Shell, Watch!Ask(p) PROVE (NoOverlap /\ NothingDropped)'
  BY <1>2 DEF Watch!Ask, Readable
<1>3. ASSUME NEW p \in Shell, Watch!Read(p) PROVE (NoOverlap /\ NothingDropped)'
  <2>0. doing[p] = "read" /\ entry' = entry
    BY <1>3 DEF Watch!Read
  <2>1. CASE Watch!Leave(p)
    BY <2>0, <2>1 DEF Watch!Leave, Readable
  <2>2. ASSUME NEW d \in Entry, Drafted(p, d) PROVE (NoOverlap /\ NothingDropped)'
    BY <2>0, <2>2 DEF Drafted, Readable
  <2>. QED BY <1>3, <2>1, <2>2, ReadDrafts
<1>4. ASSUME NEW p \in Shell, Watch!ReadFails(p) PROVE (NoOverlap /\ NothingDropped)'
  BY <1>4 DEF Watch!ReadFails, Watch!Leave, Readable
<1>5. ASSUME NEW p \in Shell, Watch!Truncate(p) PROVE (NoOverlap /\ NothingDropped)'
  BY <1>5, MarksDistinct DEF Watch!Truncate, Readable
<1>6. ASSUME NEW p \in Shell, Watch!Fill(p) PROVE (NoOverlap /\ NothingDropped)'
  BY <1>6 DEF Watch!Fill, Watch!Leave
<1>7. ASSUME NEW p \in Shell, Watch!Crash(p) PROVE (NoOverlap /\ NothingDropped)'
  BY <1>7 DEF Watch!Crash, Watch!Leave
<1>8. CASE UNCHANGED watchVars
  BY <1>8 DEF watchVars, Readable
<1>. QED BY <1>1, <1>2, <1>3, <1>4, <1>5, <1>6, <1>7, <1>8 DEF Watch!Next, Watch!Step

(* With one command at a time no recorded state change is written over.    *)
THEOREM NoChangeIsLost == Watch!Spec => ChangesAreKept
<1>1. PathInv /\ KeepInv /\ [Watch!Next]_watchVars => KeepInv'
  BY KeepStep
<1>2. KeepInv /\ [Watch!Next]_watchVars
        => [single => \A p \in Shell :
              Readable /\ doing[p] = "truncate" /\ doing'[p] = "fill"
                => Extends(draft[p], entry)]_watchVars
  BY DEF KeepInv, NothingDropped
<1> QED BY KeepInit, <1>1, <1>2, PathCorrect, PTL DEF Watch!Spec, ChangesAreKept

-----------------------------------------------------------------------------
(* What the rules of each profile make of the facts. *)

(* The best of what is known is a number, if anything is known.            *)
LEMMA BestOfKnown ==
  ASSUME NEW D, IsFiniteSet(D), NEW f, \A x \in D : f[x] \in Int
  PROVE  LET best == Verdict!Best({f[x] : x \in D})
         IN  IF D = {} THEN best = Unknown ELSE best \in Int
<1>. DEFINE g == [x \in D |-> f[x]]
            S == {f[x] : x \in D}
<1>1. IsFiniteSet(S)
  <2>1. IsFiniteSet({g[x] : x \in D}) /\ {g[x] : x \in D} = S
    <3>1. DOMAIN g = D
      OBVIOUS
    <3>. HIDE DEF g
    <3>2. IsFiniteSet({g[x] : x \in D})
      BY <3>1, ImageIsFinite
    <3>. QED BY <3>2 DEF g
  <2>. QED BY <2>1
<1>2. S \subseteq Int /\ (S = {} <=> D = {})
  OBVIOUS
<1>3. S # {} => Max(S) \in Int
  <2>. HIDE DEF S
  <2>. QED BY <1>1, <1>2, MaxIsMember
<1>. HIDE DEF S
<1>. QED BY <1>2, <1>3 DEF Verdict!Best, Verdict!Max, Max, S

(* The rules of an event.                                                  *)
LEMMA EventRules ==
  ASSUME Verdict!VerdictAssumption, NEW f \in Cases, f.profile = "EVENT"
  PROVE  /\ DOMAIN Verdict!Rules(f) =
              {"sector_strength", "relative_strength", "price_confirmation", "risk_plan"}
         /\ \A d \in DOMAIN Verdict!Rules(f) :
              Verdict!Known(Verdict!Rules(f)[d]) => Verdict!Rules(f)[d] \in Int
<1>. DEFINE R == Verdict!Rules(f)
            sector == Verdict!Today(f, "sector")
            stock == Verdict!Today(f, "stock")
<1>1. /\ DOMAIN R = {"sector_strength", "relative_strength", "price_confirmation", "risk_plan"}
      /\ R["sector_strength"] \in {0, 4, Unknown}
      /\ R["price_confirmation"] \in {0, 4, Unknown}
      /\ R["risk_plan"] \in {0, 4}
      /\ R["relative_strength"] =
           Verdict!When(Verdict!Known(stock) /\ Verdict!Known(sector),
                        IF sector > 0 THEN Verdict!Clamp((4 * stock) \div sector)
                        ELSE Verdict!Yes(stock > sector))
  BY DEF Verdict!Rules, Verdict!When, Verdict!Yes
<1>2. /\ Verdict!Known(stock) => stock \in Int
      /\ Verdict!Known(sector) => sector \in Int
  BY DEF Verdict!VerdictAssumption
<1>3. R["relative_strength"] \in Int \cup {Unknown}
  <2>. HIDE DEF R, stock, sector
  <2>. QED BY <1>1, <1>2 DEF Verdict!When, Verdict!Yes, Verdict!Clamp
<1>. HIDE DEF R
<1>4. \A d \in DOMAIN R : R[d] \in Int \cup {Unknown}
  BY <1>1, <1>3
<1>. QED BY <1>1, <1>4 DEF R, Verdict!Known

(* The rules of a swing trade; each that has something to say was given    *)
(* what it asks for.                                                       *)
LEMMA SwingRules ==
  ASSUME Verdict!VerdictAssumption, NEW f \in Cases, f.profile = "SWING"
  PROVE  /\ DOMAIN Verdict!Rules(f) = DOMAIN Verdict!Weights["SWING"]
         /\ \A d \in DOMAIN Verdict!Rules(f) :
              Verdict!Known(Verdict!Rules(f)[d]) => Verdict!Rules(f)[d] \in Int
         /\ (\A d \in DOMAIN Verdict!Rules(f) : Verdict!Known(Verdict!Rules(f)[d]))
              => Verdict!Complete(f)
<1>. DEFINE R == Verdict!Rules(f)
            confirmed == Verdict!Today(f, "confirmed")
            volume == IF Verdict!Known(f.volume) THEN f.volume ELSE Verdict!Today(f, "volume")
            some == IF Verdict!Qualified(f) # <<>> THEN Verdict!Best(Verdict!Range(Verdict!Qualified(f)))
                    ELSE Verdict!Best(Verdict!Range(f.percentile))
<1>1. /\ DOMAIN R = {"fundamental_support", "sector_trend", "stock_trend", "key_level",
                     "volume_confirmation", "relative_strength", "risk_reward"}
      /\ R["fundamental_support"] = some
      /\ R["sector_trend"] = Verdict!When(Verdict!Known(Verdict!Market(f)),
               CASE Verdict!Market(f) = "CONFIRMED" -> 4
                 [] Verdict!Market(f) = "NEUTRAL" -> 2
                 [] Verdict!Market(f) = "CONTRADICTED" -> 0)
      /\ R["stock_trend"] = Verdict!When(Verdict!Known(f.ret20) /\ Verdict!Known(f.ret60),
               (Verdict!Yes(f.ret20 > 0) + Verdict!Yes(f.ret60 > 0)) \div 2)
      /\ R["key_level"] = Verdict!When(Verdict!Known(confirmed), Verdict!Yes(confirmed))
      /\ R["volume_confirmation"] = Verdict!When(Verdict!Known(volume), Verdict!Clamp(volume))
      /\ R["relative_strength"] = Verdict!When(Verdict!Known(f.strength60), Verdict!Yes(f.strength60 > 0))
      /\ R["risk_reward"] = Verdict!When(Verdict!Known(f.reward) /\ f.reward > 0,
               (4 * f.reward) \div (f.reward + f.loss))
  BY DEF Verdict!Rules
<1>2. /\ Verdict!Known(volume) => volume \in Int
      /\ Verdict!Known(f.reward) => f.reward \in Int
      /\ f.loss \in Int /\ f.loss > 0
      /\ Verdict!Market(f) \in {"CONFIRMED", "NEUTRAL", "CONTRADICTED", Unknown}
  BY DEF Verdict!VerdictAssumption
<1>3. /\ some \in Int \cup {Unknown}
      /\ Verdict!Known(some) => f.percentile # <<>> \/ Verdict!Qualified(f) # <<>>
  <2>1. \A known \in {f.percentile, Verdict!Qualified(f)} :
          LET best == Verdict!Best(Verdict!Range(known))
          IN  best \in Int \cup {Unknown} /\ (known = <<>> => best = Unknown)
    <3>. SUFFICES ASSUME NEW known \in {f.percentile, Verdict!Qualified(f)}
                  PROVE  LET best == Verdict!Best(Verdict!Range(known))
                         IN  best \in Int \cup {Unknown} /\ (known = <<>> => best = Unknown)
      OBVIOUS
    <3>1. IsFiniteSet(DOMAIN known) /\ \A x \in DOMAIN known : known[x] \in Int
      BY DEF Verdict!VerdictAssumption, Verdict!IsFiniteSet, IsFiniteSet
    <3>2. Verdict!Range(known) = {known[x] : x \in DOMAIN known}
      BY DEF Verdict!Range
    <3>3. known = <<>> => DOMAIN known = {}
      OBVIOUS
    <3>. QED BY <3>1, <3>2, <3>3, BestOfKnown
  <2>. QED BY <2>1 DEF Verdict!Known
<1>. HIDE DEF R, some, volume, confirmed
<1>4. \A d \in DOMAIN R : R[d] \in Int \cup {Unknown}
  <2>1. R["sector_trend"] \in Int \cup {Unknown}
    BY <1>1, <1>2 DEF Verdict!When, Verdict!Known
  <2>2. R["stock_trend"] \in Int \cup {Unknown}
    BY <1>1 DEF Verdict!When, Verdict!Yes
  <2>3. R["volume_confirmation"] \in Int \cup {Unknown}
    BY <1>1, <1>2 DEF Verdict!When, Verdict!Clamp
  <2>4. R["risk_reward"] \in Int \cup {Unknown}
    BY <1>1, <1>2 DEF Verdict!When
  <2>5. R["key_level"] \in Int \cup {Unknown} /\ R["relative_strength"] \in Int \cup {Unknown}
    BY <1>1 DEF Verdict!When, Verdict!Yes
  <2>. QED BY <1>1, <1>3, <2>1, <2>2, <2>3, <2>4, <2>5
<1>5. ASSUME \A d \in DOMAIN R : Verdict!Known(R[d])
      PROVE  Verdict!Complete(f)
  <2>1. /\ Verdict!Known(some) /\ Verdict!Known(Verdict!Market(f))
        /\ Verdict!Known(f.ret20) /\ Verdict!Known(f.ret60) /\ Verdict!Known(f.strength60)
        /\ Verdict!Known(confirmed) /\ Verdict!Known(volume)
        /\ Verdict!Known(f.reward) /\ f.reward > 0
    BY <1>1, <1>5 DEF Verdict!When, Verdict!Known
  <2>2. Verdict!Known(f.volume) \/ Verdict!Known(Verdict!Today(f, "volume"))
    BY <2>1 DEF volume
  <2>. QED BY <1>3, <2>1, <2>2 DEF Verdict!Complete, confirmed
<1>6. DOMAIN R = DOMAIN Verdict!Weights["SWING"]
  BY <1>1 DEF Verdict!Weights
<1>. QED BY <1>4, <1>5, <1>6 DEF R, Verdict!Known

(* The rules of a position.                                                *)
LEMMA PositionRules ==
  ASSUME Verdict!VerdictAssumption, NEW f \in Cases, f.profile = "POSITION"
  PROVE  /\ DOMAIN Verdict!Rules(f) =
              {"financial_quality", "earnings_growth", "valuation", "long_term_trend", "execution"}
         /\ \A d \in DOMAIN Verdict!Rules(f) :
              Verdict!Known(Verdict!Rules(f)[d]) => Verdict!Rules(f)[d] \in Int
         /\ (\A d \in DOMAIN Verdict!Rules(f) : Verdict!Known(Verdict!Rules(f)[d]))
              => /\ Verdict!Known(f.ret60)
                 /\ {"quality"} \cap DOMAIN f.percentile # {}
                 /\ {"growth", "garp"} \cap DOMAIN f.percentile # {}
                 /\ {"value", "garp"} \cap DOMAIN f.percentile # {}
<1>. DEFINE R == Verdict!Rules(f)
            named(S) == Verdict!Best({f.percentile[s] : s \in S \cap DOMAIN f.percentile})
<1>1. /\ DOMAIN R = {"financial_quality", "earnings_growth", "valuation", "long_term_trend", "execution"}
      /\ R["financial_quality"] = named({"quality"})
      /\ R["earnings_growth"] = named({"growth", "garp"})
      /\ R["valuation"] = named({"value", "garp"})
      /\ R["long_term_trend"] = Verdict!When(Verdict!Known(f.ret60), Verdict!Yes(f.ret60 > 0))
      /\ R["execution"] \in {0, 4}
  BY DEF Verdict!Rules, Verdict!Yes
<1>2. IsFiniteSet(DOMAIN f.percentile) /\ \A x \in DOMAIN f.percentile : f.percentile[x] \in Int
  BY DEF Verdict!VerdictAssumption, Verdict!IsFiniteSet, IsFiniteSet
<1>3. ASSUME NEW S
      PROVE  named(S) \in Int \cup {Unknown}
             /\ (Verdict!Known(named(S)) => S \cap DOMAIN f.percentile # {})
  <2>1. IsFiniteSet(S \cap DOMAIN f.percentile)
    BY <1>2, FS_Subset
  <2>. QED BY <1>2, <2>1, BestOfKnown DEF Verdict!Known
<1>. HIDE DEF R, named
<1>4. \A d \in DOMAIN R : R[d] \in Int \cup {Unknown}
  BY <1>1, <1>3 DEF Verdict!When, Verdict!Yes
<1>. QED BY <1>1, <1>3, <1>4 DEF R, Verdict!Known, Verdict!When

-----------------------------------------------------------------------------
(* What a profile makes of them. *)

(* Every ratio that counts lies between nothing and all of its weight.     *)
LEMMA ScoredInRange ==
  ASSUME Verdict!VerdictAssumption, NEW f \in Cases
  PROVE  /\ DOMAIN Verdict!Scored(f) \subseteq DOMAIN Verdict!Weights[f.profile]
         /\ \A d \in DOMAIN Verdict!Scored(f) : Verdict!Scored(f)[d] \in 0 .. 4
<1>. DEFINE R == Verdict!Rules(f)
            J == Verdict!Judged(f)
            Q == Verdict!Ratios(f)
<1>1. f.profile \in {"EVENT", "SWING", "POSITION"}
  BY DEF Verdict!VerdictAssumption
<1>2. \A d \in DOMAIN R : Verdict!Known(R[d]) => R[d] \in Int
  BY <1>1, EventRules, SwingRules, PositionRules
<1>3. \A d \in DOMAIN J : J[d] \in Int
  BY DEF Verdict!VerdictAssumption, Verdict!Judged, Verdict!Outranking
<1>4. ASSUME NEW d \in DOMAIN Q, Verdict!Known(Q[d]) PROVE Q[d] \in Int
  <2>. HIDE DEF R, J
  <2>1. CASE f.profile = "SWING"
    <3>1. Q = R
      BY <2>1 DEF Verdict!Ratios, R
    <3>. QED BY <1>2, <1>4, <3>1
  <2>2. CASE f.profile # "SWING"
    <3>1. Q = [x \in DOMAIN R \cup DOMAIN J |-> IF x \in DOMAIN R THEN R[x] ELSE J[x]]
      BY <2>2 DEF Verdict!Ratios, R, J, Verdict!Outranking
    <3>. QED BY <1>2, <1>3, <1>4, <3>1
  <2>. QED BY <2>1, <2>2
<1>. HIDE DEF R, J, Q
<1>5. \A d \in DOMAIN Verdict!Scored(f) :
        d \in DOMAIN Verdict!Weights[f.profile] /\ d \in DOMAIN Q /\ Verdict!Known(Q[d])
        /\ Verdict!Scored(f)[d] = Verdict!Clamp(Q[d])
  BY DEF Verdict!Scored, Q
<1>6. \A x \in Int : Verdict!Clamp(x) \in 0 .. 4
  BY DEF Verdict!Clamp
<1>. QED BY <1>4, <1>5, <1>6

(* A profile without data missing was given every input it weighs.         *)
LEMMA NothingMissing ==
  ASSUME Verdict!VerdictAssumption, NEW f \in Cases, Verdict!Missing(f) = {}
  PROVE  Verdict!Complete(f)
<1>. DEFINE R == Verdict!Rules(f)
            J == Verdict!Judged(f)
            Q == Verdict!Ratios(f)
<1>1. f.profile \in {"EVENT", "SWING", "POSITION"}
  BY DEF Verdict!VerdictAssumption
<1>2. \A d \in DOMAIN Verdict!Weights[f.profile] : d \in DOMAIN Q /\ Verdict!Known(Q[d])
  BY DEF Verdict!Missing, Verdict!Scored
<1>3. f.profile # "SWING" =>
        Q = [x \in DOMAIN R \cup DOMAIN J |-> IF x \in DOMAIN R THEN R[x] ELSE J[x]]
  BY DEF Verdict!Ratios, Verdict!Outranking
<1>4. DOMAIN J = DOMAIN f.audit \cup DOMAIN f.independent
  BY DEF Verdict!Judged, Verdict!Outranking
<1>. HIDE DEF Q, R, J
<1>5. CASE f.profile = "EVENT"
  <2>1. /\ DOMAIN R = {"sector_strength", "relative_strength", "price_confirmation", "risk_plan"}
        /\ DOMAIN Verdict!Weights["EVENT"] =
             {"catalyst_quality", "expectation_gap", "directness", "sector_strength",
              "relative_strength", "price_confirmation", "risk_plan"}
    BY <1>5, EventRules DEF Verdict!Weights, R
  <2>2. {"catalyst_quality", "expectation_gap", "directness"} \subseteq DOMAIN J
    BY <1>2, <1>3, <1>5, <2>1
  <2>3. \A x \in {"stock", "sector", "benchmark", "confirmed"} :
          Verdict!Known(Verdict!Today(f, x))
    BY <1>5 DEF Verdict!Missing
  <2>. QED BY <1>4, <1>5, <2>2, <2>3 DEF Verdict!Complete
<1>6. CASE f.profile = "SWING"
  <2>1. Q = R
    BY <1>6 DEF Verdict!Ratios, Q, R
  <2>. QED BY <1>2, <1>6, <2>1, SwingRules DEF R
<1>7. CASE f.profile = "POSITION"
  <2>1. /\ DOMAIN R = {"financial_quality", "earnings_growth", "valuation", "long_term_trend",
                       "execution"}
        /\ DOMAIN Verdict!Weights["POSITION"] =
             {"industry_trend", "competitiveness", "financial_quality", "earnings_growth",
              "valuation", "long_term_trend", "risk_resilience", "execution"}
    BY <1>7, PositionRules DEF Verdict!Weights, R
  <2>2. {"industry_trend", "competitiveness", "risk_resilience"} \subseteq DOMAIN J
    BY <1>2, <1>3, <1>7, <2>1
  <2>3. \A d \in DOMAIN R : Verdict!Known(R[d])
    BY <1>2, <1>3, <1>7, <2>1
  <2>. QED BY <1>4, <1>7, <2>2, <2>3, PositionRules DEF Verdict!Complete, R
<1>. QED BY <1>1, <1>5, <1>6, <1>7

(* A hard veto hits what is forbidden, under every profile.                *)
LEMMA HardVetoes ==
  ASSUME Verdict!VerdictAssumption, NEW f \in Cases
  PROVE  Verdict!Hits(f) \cap Verdict!HardVeto # {} <=> Verdict!Forbidden(f)
<1>1. f.profile \in {"EVENT", "SWING", "POSITION"}
  BY DEF Verdict!VerdictAssumption
<1>2. Verdict!HardVeto \subseteq Verdict!Enabled[f.profile]
  BY <1>1 DEF Verdict!Enabled
<1>. QED BY <1>2 DEF Verdict!Hits, Verdict!Forbidden, Verdict!HardVeto

(* The sums of the two are the same.                                       *)
LEMMA SameSum ==
  ASSUME NEW v
  PROVE  Verdict!SumFunction(v) = SumFunction(v)
BY DEF Verdict!SumFunction, SumFunction, Verdict!SumFunctionOnSet, SumFunctionOnSet,
       Verdict!FoldFunctionOnSet, FoldFunctionOnSet, Verdict!MapThenFoldSet, MapThenFoldSet

(* The weights of each profile add up to a hundred.                        *)
LEMMA WeightsAddUp ==
  ASSUME NEW p \in {"EVENT", "SWING", "POSITION"}
  PROVE  LET W == Verdict!Weights[p]
         IN  /\ IsFiniteSet(DOMAIN W) /\ \A d \in DOMAIN W : W[d] \in Nat
             /\ SumFunction(W) = 100
<1>. DEFINE W == Verdict!Weights[p]
<1>1. ASSUME p = "EVENT"
      PROVE  IsFiniteSet(DOMAIN W) /\ SumFunction(W) = 100
  <2>. DEFINE names == <<"catalyst_quality", "expectation_gap", "directness", "sector_strength",
                         "relative_strength", "price_confirmation", "risk_plan">>
  <2>1. /\ \A i, j \in 1 .. 7 : names[i] = names[j] => i = j
        /\ W \in [{names[i] : i \in 1 .. 7} -> Int] /\ DOMAIN W = {names[i] : i \in 1 .. 7}
        /\ W[names[1]] = 20 /\ W[names[2]] = 20 /\ W[names[3]] = 15 /\ W[names[4]] = 15
        /\ W[names[5]] = 15 /\ W[names[6]] = 10 /\ W[names[7]] = 5
    BY <1>1 DEF Verdict!Weights
  <2>. HIDE DEF W, names
  <2>. QED BY <2>1, SumOfSeven
<1>2. ASSUME p = "SWING"
      PROVE  IsFiniteSet(DOMAIN W) /\ SumFunction(W) = 100
  <2>. DEFINE names == <<"fundamental_support", "sector_trend", "stock_trend", "key_level",
                         "volume_confirmation", "relative_strength", "risk_reward">>
  <2>1. /\ \A i, j \in 1 .. 7 : names[i] = names[j] => i = j
        /\ W \in [{names[i] : i \in 1 .. 7} -> Int] /\ DOMAIN W = {names[i] : i \in 1 .. 7}
        /\ W[names[1]] = 15 /\ W[names[2]] = 15 /\ W[names[3]] = 20 /\ W[names[4]] = 20
        /\ W[names[5]] = 10 /\ W[names[6]] = 10 /\ W[names[7]] = 10
    BY <1>2 DEF Verdict!Weights
  <2>. HIDE DEF W, names
  <2>. QED BY <2>1, SumOfSeven
<1>3. ASSUME p = "POSITION"
      PROVE  IsFiniteSet(DOMAIN W) /\ SumFunction(W) = 100
  <2>. DEFINE names == <<"industry_trend", "competitiveness", "financial_quality", "earnings_growth",
                           "valuation", "long_term_trend", "risk_resilience">>
              E == {names[i] : i \in 1 .. 7}
              u == [y \in E |-> W[y]]
  <2>1. /\ \A i, j \in 1 .. 7 : names[i] = names[j] => i = j
        /\ "execution" \notin E /\ W \in [E \cup {"execution"} -> Int]
        /\ DOMAIN W = E \cup {"execution"}
        /\ W[names[1]] = 20 /\ W[names[2]] = 20 /\ W[names[3]] = 15 /\ W[names[4]] = 15
        /\ W[names[5]] = 15 /\ W[names[6]] = 5 /\ W[names[7]] = 5 /\ W["execution"] = 5
    BY <1>3 DEF Verdict!Weights
  <2>. HIDE DEF W, names
  <2>2. u \in [E -> Int] /\ DOMAIN u = E /\ \A i \in 1 .. 7 : u[names[i]] = W[names[i]]
    BY <2>1
  <2>3. IsFiniteSet(E) /\ SumFunction(u) = 95
    <3>. HIDE DEF u
    <3>. QED BY <2>1, <2>2, SumOfSeven
  <2>. HIDE DEF E
  <2>4. SumFunction(W) = W["execution"] + SumFunction(u)
    BY <2>1, <2>3, SumOfOneMore
  <2>5. IsFiniteSet(DOMAIN W)
    <3>. HIDE DEF u
    <3>. QED BY <2>1, <2>3, FS_AddElement
  <2>. HIDE DEF u
  <2>. QED BY <2>1, <2>3, <2>4, <2>5
<1>4. \A d \in DOMAIN W : W[d] \in Nat
  BY DEF Verdict!Weights
<1>. QED BY <1>1, <1>2, <1>3, <1>4

(* A score of dimensions the profile knows is out of a hundred.            *)
LEMMA ScoreBounded ==
  ASSUME NEW W, IsFiniteSet(DOMAIN W), \A d \in DOMAIN W : W[d] \in Nat,
         SumFunction(W) = 100, W = [d \in DOMAIN W |-> W[d]],
         NEW S, DOMAIN S \subseteq DOMAIN W, \A d \in DOMAIN S : S[d] \in 0 .. 4
  PROVE  SumFunction([d \in DOMAIN S |-> W[d] * S[d]]) \in 0 .. 400
<1>. DEFINE w == [d \in DOMAIN S |-> W[d] * S[d]]
<1>1. \A d \in DOMAIN S : W[d] * S[d] \in Nat /\ W[d] * S[d] <= 4 * W[d]
  <2>. SUFFICES ASSUME NEW d \in DOMAIN S
                PROVE  W[d] * S[d] \in Nat /\ W[d] * S[d] <= 4 * W[d]
    OBVIOUS
  <2>1. W[d] \in Nat /\ S[d] \in {0, 1, 2, 3, 4}
    OBVIOUS
  <2>. QED BY <2>1
<1>2. W \in [DOMAIN W -> Nat] /\ w \in [DOMAIN S -> Nat] /\ \A d \in DOMAIN S : w[d] <= 4 * W[d]
  BY <1>1
<1>. HIDE DEF w
<1>3. SumFunction(w) \in Nat /\ SumFunction(w) <= 4 * SumFunction(W)
  BY <1>2, SumOfPart
<1>. QED BY <1>3 DEF w

-----------------------------------------------------------------------------
(* The inductive invariant. *)

(* A verdict is the engine's on the intent; a replay that passes had       *)
(* nothing against it whatever the weights, and its score is that of the   *)
(* stored ratios under the weights it was given.                           *)
VerdictInv ==
  /\ case \in Cases
  /\ evaluation # Unknown => evaluation = Verdict!Evaluation(case)
  /\ evaluation = Unknown => replay = Unknown
  /\ Verdict!ReplayPassIsEarned
  /\ replay # Unknown =>
       /\ replay.weights \in {Verdict!Weights[case.profile]} \cup Revisions[case.profile]
       /\ replay.score = Verdict!Total(evaluation.ratios, Verdict!Reweighted(replay.weights))

(* Nothing is said at first.                                               *)
LEMMA InitVerdict == Verdict!Init => VerdictInv
BY DEF Verdict!Init, VerdictInv, Verdict!ReplayPassIsEarned

(* Neither the engine nor a replay says more than the facts earn.          *)
LEMMA StepVerdict ==
  VerdictInv /\ [Verdict!Next]_Verdict!vars => VerdictInv'
<1>. SUFFICES ASSUME VerdictInv, [Verdict!Next]_Verdict!vars PROVE VerdictInv'
  OBVIOUS
<1>1. CASE Verdict!Evaluate
  <2>1. evaluation = Unknown /\ evaluation' = Verdict!Evaluation(case) /\ UNCHANGED <<case, replay>>
    BY <1>1 DEF Verdict!Evaluate
  <2>2. (Verdict!Evaluation(case))' = Verdict!Evaluation(case)'
    OBVIOUS
  <2>3. replay = Unknown
    BY <2>1 DEF VerdictInv
  <2>. QED BY <2>1, <2>3 DEF VerdictInv, Verdict!ReplayPassIsEarned
<1>2. ASSUME NEW weights \in {Verdict!Weights[case.profile]} \cup Revisions[case.profile],
             Verdict!Replay(weights)
      PROVE  VerdictInv'
  <2>. DEFINE score == Verdict!Total(evaluation.ratios, Verdict!Reweighted(weights))
  <2>1. /\ evaluation # Unknown /\ evaluation = Verdict!Evaluation(case)
        /\ UNCHANGED <<case, evaluation>>
        /\ replay' = [evaluation EXCEPT
                        !.weights = weights, !.score = score,
                        !.decision = Verdict!DecideAgain(evaluation.vetoes, evaluation.missing, score)]
    BY <1>2 DEF Verdict!Replay, VerdictInv
  <2>4. (Verdict!Reweighted(weights))' = Verdict!Reweighted(weights)
    BY <2>1 DEF Verdict!Reweighted
  <2>. HIDE DEF score
  <2>5. replay'.weights = weights /\ replay'.score = score
    BY <2>1 DEF Verdict!Evaluation
  <2>6. replay'.score = Verdict!Total(evaluation.ratios, Verdict!Reweighted(replay'.weights))
    BY <2>5 DEF score
  <2>7. /\ replay'.weights \in {Verdict!Weights[case.profile]} \cup Revisions[case.profile]
        /\ Verdict!Reweighted(replay.weights)' = Verdict!Reweighted(replay'.weights)
    BY <2>1, <2>5 DEF Verdict!Reweighted
  <2>2. replay'.decision = Verdict!DecideAgain(evaluation.vetoes, evaluation.missing, score)
    BY <2>1 DEF Verdict!Evaluation
  <2>3. replay'.decision = "PASS" => evaluation.vetoes = {} /\ evaluation.missing = {}
    BY <2>2 DEF Verdict!DecideAgain
  <2>. QED BY <2>1, <2>3, <2>6, <2>7 DEF VerdictInv, Verdict!ReplayPassIsEarned
<1>3. CASE UNCHANGED Verdict!vars
  BY <1>3 DEF VerdictInv, Verdict!vars, Verdict!ReplayPassIsEarned, Verdict!Reweighted
<1>. QED BY <1>1, <1>2, <1>3 DEF Verdict!Next

(* The engine's score is out of a hundred.                                 *)
LEMMA EngineScores ==
  ASSUME Verdict!VerdictAssumption, NEW f \in Cases
  PROVE  Verdict!Total(Verdict!Scored(f), Verdict!Weights[f.profile]) \in 0 .. 400
<1>. DEFINE W == Verdict!Weights[f.profile]
            S == Verdict!Scored(f)
<1>1. f.profile \in {"EVENT", "SWING", "POSITION"}
  BY DEF Verdict!VerdictAssumption
<1>2. /\ IsFiniteSet(DOMAIN W) /\ \A d \in DOMAIN W : W[d] \in Nat
      /\ SumFunction(W) = 100 /\ W = [d \in DOMAIN W |-> W[d]]
  <2>1. W = [d \in DOMAIN W |-> W[d]]
    BY <1>1 DEF Verdict!Weights
  <2>. QED BY <1>1, <2>1, WeightsAddUp
<1>3. DOMAIN S \subseteq DOMAIN W /\ \A d \in DOMAIN S : S[d] \in 0 .. 4
  BY ScoredInRange
<1>4. Verdict!Total(S, W) = SumFunction([d \in DOMAIN S |-> W[d] * S[d]])
  BY SameSum DEF Verdict!Total
<1>. HIDE DEF S, W
<1>5. SumFunction([d \in DOMAIN S |-> W[d] * S[d]]) \in 0 .. 400
  BY <1>2, <1>3, ScoreBounded
<1>. QED BY <1>4, <1>5 DEF S, W

(* So is that of a replay whose profile knows every stored dimension.      *)
LEMMA ReplayScores ==
  ASSUME Verdict!VerdictAssumption, VerdictInv, evaluation # Unknown, replay # Unknown,
         DOMAIN evaluation.ratios \subseteq DOMAIN replay.weights
  PROVE  replay.score \in 0 .. 400
<1>. DEFINE W == replay.weights
            S == evaluation.ratios
            again == Verdict!Reweighted(W)
<1>1. /\ case \in Cases /\ case.profile \in {"EVENT", "SWING", "POSITION"}
      /\ S = Verdict!Scored(case)
      /\ W \in {Verdict!Weights[case.profile]} \cup Revisions[case.profile]
      /\ replay.score = Verdict!Total(S, again)
  BY DEF VerdictInv, Verdict!Evaluation, Verdict!VerdictAssumption
<1>2. \A d \in DOMAIN S : S[d] \in 0 .. 4
  BY <1>1, ScoredInRange
<1>3. /\ IsFiniteSet(DOMAIN W) /\ \A d \in DOMAIN W : W[d] \in Nat
      /\ SumFunction(W) = 100 /\ W = [d \in DOMAIN W |-> W[d]]
  <2>1. CASE W = Verdict!Weights[case.profile]
    <3>1. W = [d \in DOMAIN W |-> W[d]]
      BY <1>1, <2>1 DEF Verdict!Weights
    <3>. QED BY <1>1, <2>1, <3>1, WeightsAddUp
  <2>2. CASE W \in Revisions[case.profile]
    <3>1. IsFiniteSet(DOMAIN W) /\ W \in [DOMAIN W -> Nat] /\ Verdict!SumFunction(W) = 100
      BY <1>1, <2>2 DEF Verdict!VerdictAssumption, Verdict!IsFiniteSet, IsFiniteSet
    <3>2. SumFunction(W) = 100
      BY <3>1, SameSum
    <3>3. W = [d \in DOMAIN W |-> W[d]] /\ \A d \in DOMAIN W : W[d] \in Nat
      BY <3>1
    <3>. QED BY <3>1, <3>2, <3>3
  <2>. QED BY <1>1, <2>1, <2>2
<1>4. \A d \in DOMAIN S : again[d] = W[d]
  BY DEF Verdict!Reweighted
<1>5. Verdict!Total(S, again) = SumFunction([d \in DOMAIN S |-> W[d] * S[d]])
  <2>1. [d \in DOMAIN S |-> again[d] * S[d]] = [d \in DOMAIN S |-> W[d] * S[d]]
    BY <1>4
  <2>. QED BY <2>1, SameSum DEF Verdict!Total
<1>6. DOMAIN S \subseteq DOMAIN W
  OBVIOUS
<1>7. replay.score = SumFunction([d \in DOMAIN S |-> W[d] * S[d]])
  BY <1>1, <1>5
<1>. HIDE DEF S, W
<1>8. SumFunction([d \in DOMAIN S |-> W[d] * S[d]]) \in 0 .. 400
  BY <1>2, <1>3, <1>6, ScoreBounded
<1>. QED BY <1>7, <1>8

(* What the engine says of an intent is earned by its facts.               *)
LEMMA EngineEarns ==
  ASSUME Verdict!VerdictAssumption, VerdictInv, evaluation # Unknown
  PROVE  /\ Verdict!PassIsEarned /\ Verdict!UnknownIsNeverNeutral
         /\ Verdict!RulesOutrankAi /\ Verdict!ScoreInRange
<1>. DEFINE score == Verdict!Total(Verdict!Scored(case), Verdict!Weights[case.profile])
<1>1. /\ case \in Cases /\ case.profile \in {"EVENT", "SWING", "POSITION"}
      /\ evaluation.ratios = Verdict!Scored(case) /\ evaluation.score = score
      /\ evaluation.decision = Verdict!Decide(Verdict!Hits(case), Verdict!Missing(case), score)
  BY DEF VerdictInv, Verdict!Evaluation, Verdict!VerdictAssumption
<1>2. score \in 0 .. 400
  BY <1>1, EngineScores
<1>. HIDE DEF score
<1>3. Verdict!Hits(case) \cap Verdict!HardVeto # {} <=> Verdict!Forbidden(case)
  BY <1>1, HardVetoes
<1>4. ~Verdict!Complete(case) => Verdict!Missing(case) # {}
  BY <1>1, NothingMissing
<1>5. Verdict!UnknownIsNeverNeutral
  BY <1>1, <1>3, <1>4 DEF Verdict!UnknownIsNeverNeutral, Verdict!Decide
<1>6. Verdict!ScoreInRange
  BY <1>1, <1>2, ReplayScores DEF Verdict!ScoreInRange
<1>7. ASSUME evaluation.decision = "PASS"
      PROVE  Verdict!Hits(case) = {} /\ Verdict!Missing(case) = {}
  BY <1>1, <1>7 DEF Verdict!Decide
<1>8. Verdict!PassIsEarned
  <2>. SUFFICES ASSUME evaluation.decision = "PASS"
                PROVE  /\ ~Verdict!Forbidden(case)
                       /\ case.fomo < Verdict!FomoThreshold
                       /\ case.profile \in {"EVENT", "SWING"} => Verdict!Today(case, "confirmed") = TRUE
                       /\ case.profile = "EVENT" =>
                            /\ ~case.pricedIn
                            /\ Verdict!Today(case, "sector") > 0 => Verdict!Today(case, "stock") > 0
    BY DEF Verdict!PassIsEarned
  <2>1. Verdict!Hits(case) = {} /\ Verdict!Missing(case) = {}
    BY <1>7
  <2>2. ~Verdict!Forbidden(case)
    BY <1>3, <2>1
  <2>3. /\ "EXTREME_FOMO" \notin Verdict!Hits(case)
        /\ "NO_PRICE_CONFIRMATION" \notin Verdict!Hits(case)
        /\ "EXPECTATION_ALREADY_PRICED" \notin Verdict!Hits(case)
        /\ "RELATIVE_WEAKNESS" \notin Verdict!Hits(case)
    BY <2>1
  <2>4. /\ "EXTREME_FOMO" \in Verdict!Enabled[case.profile]
        /\ case.profile \in {"EVENT", "SWING"} =>
             "NO_PRICE_CONFIRMATION" \in Verdict!Enabled[case.profile]
        /\ case.profile = "EVENT" =>
             /\ "EXPECTATION_ALREADY_PRICED" \in Verdict!Enabled[case.profile]
             /\ "RELATIVE_WEAKNESS" \in Verdict!Enabled[case.profile]
    BY <1>1 DEF Verdict!Enabled
  <2>5. case.fomo < Verdict!FomoThreshold
    <3>1. case.fomo \in Int
      BY <1>1 DEF Verdict!VerdictAssumption
    <3>2. ~(case.fomo >= Verdict!FomoThreshold)
      BY <2>3, <2>4 DEF Verdict!Hits
    <3>. QED BY <3>1, <3>2 DEF Verdict!FomoThreshold
  <2>6. case.profile \in {"EVENT", "SWING"} => Verdict!Today(case, "confirmed") = TRUE
    BY <2>3, <2>4 DEF Verdict!Hits
  <2>7. ASSUME case.profile = "EVENT"
        PROVE  /\ ~case.pricedIn
               /\ Verdict!Today(case, "sector") > 0 => Verdict!Today(case, "stock") > 0
    <3>. DEFINE sector == Verdict!Today(case, "sector")
                stock == Verdict!Today(case, "stock")
    <3>1. ~case.pricedIn
      BY <2>3, <2>4, <2>7 DEF Verdict!Hits
    <3>2. Verdict!Known(sector) /\ Verdict!Known(stock)
      BY <2>1, <2>7 DEF Verdict!Missing
    <3>3. sector \in Int /\ stock \in Int
      BY <1>1, <3>2 DEF Verdict!VerdictAssumption
    <3>4. ~(sector > 0 /\ stock <= 0)
      BY <2>3, <2>4, <2>7, <3>2 DEF Verdict!Hits
    <3>. HIDE DEF sector, stock
    <3>5. sector > 0 => stock > 0
      BY <3>3, <3>4
    <3>. QED BY <3>1, <3>5 DEF sector, stock
  <2>. QED BY <2>2, <2>5, <2>6, <2>7
<1>9. Verdict!RulesOutrankAi
  <2>. DEFINE R == Verdict!Rules(case)
              J == Verdict!Judged(case)
              Q == Verdict!Ratios(case)
  <2>. SUFFICES ASSUME NEW d \in DOMAIN R
                PROVE  IF Verdict!Known(R[d]) THEN evaluation.ratios[d] = Verdict!Clamp(R[d])
                       ELSE d \notin DOMAIN evaluation.ratios
    BY DEF Verdict!RulesOutrankAi
  <2>1. d \in DOMAIN Q /\ Q[d] = R[d]
    BY DEF Verdict!Ratios, Verdict!Outranking
  <2>2. d \in DOMAIN Verdict!Weights[case.profile]
    <3>1. CASE case.profile = "EVENT"
      BY <1>1, <3>1, EventRules DEF Verdict!Weights
    <3>2. CASE case.profile = "SWING"
      BY <1>1, <3>2, SwingRules
    <3>3. CASE case.profile = "POSITION"
      BY <1>1, <3>3, PositionRules DEF Verdict!Weights
    <3>. QED BY <1>1, <3>1, <3>2, <3>3
  <2>3. d \in DOMAIN evaluation.ratios <=> Verdict!Known(Q[d])
    BY <1>1, <2>1, <2>2 DEF Verdict!Scored
  <2>4. Verdict!Known(Q[d]) => evaluation.ratios[d] = Verdict!Clamp(Q[d])
    BY <1>1, <2>1, <2>2 DEF Verdict!Scored
  <2>. HIDE DEF R, Q, J
  <2>. QED BY <2>1, <2>3, <2>4
<1>. QED BY <1>5, <1>6, <1>8, <1>9

(* What the trade gate passes is earned by the facts, under each profile   *)
(* and however a replay weighs them; what is not known never counts as     *)
(* neutral; the AI cannot change or fill in what a rule computes; and a    *)
(* score is out of a hundred, a replay's while its profile knows every     *)
(* stored dimension (engine.py, veto.py, scoring.py, replay.py).           *)
THEOREM VerdictsAreEarned ==
  ASSUME Verdict!VerdictAssumption
  PROVE  Verdict!Spec => []VerdictIsEarned
<1>1. VerdictInv => Verdict!VerdictIsEarned
  BY EngineEarns DEF VerdictInv, Verdict!VerdictIsEarned, Verdict!PassIsEarned,
     Verdict!UnknownIsNeverNeutral, Verdict!RulesOutrankAi, Verdict!ScoreInRange
<1>2. Verdict!VerdictIsEarned => VerdictIsEarned
  <2>1. /\ Verdict!Rules(case) = Rules(case) /\ \A q : Verdict!Clamp(q) = Clamp(q)
        /\ \A x : Verdict!Known(x) = Known(x)
    BY DEF Verdict!Rules, Rules, Verdict!Today, Today, Verdict!Market, Market, Verdict!Qualified,
         Qualified, Verdict!Known, Known, Verdict!When, When, Verdict!Yes, Yes, Verdict!Clamp,
         Clamp, Verdict!Best, Best, Verdict!Max, Max, Verdict!Range, Range
  <2>2. /\ Verdict!Complete(case) = Complete(case) /\ Verdict!Forbidden(case) = Forbidden(case)
        /\ \A field : Verdict!Today(case, field) = Today(case, field)
    BY DEF Verdict!Complete, Complete, Verdict!Forbidden, Forbidden, Verdict!Today, Today,
         Verdict!Market, Market, Verdict!SignalOf, SignalOf, Verdict!Qualified, Qualified,
         Verdict!Known, Known
  <2>. QED BY <2>1, <2>2 DEF Verdict!VerdictIsEarned, VerdictIsEarned, Verdict!PassIsEarned, PassIsEarned,
         Verdict!UnknownIsNeverNeutral, UnknownIsNeverNeutral, Verdict!RulesOutrankAi,
         RulesOutrankAi, Verdict!ScoreInRange, ScoreInRange, Verdict!ReplayPassIsEarned,
         ReplayPassIsEarned, Verdict!FomoThreshold, FomoThreshold
<1>. QED BY <1>1, <1>2, InitVerdict, StepVerdict, PTL DEF Verdict!Spec
=============================================================================
