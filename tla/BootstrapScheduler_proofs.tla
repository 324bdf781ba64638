---------------------- MODULE BootstrapScheduler_proofs ----------------------
(***************************************************************************)
(* Theorems about the two ends of a bootstrap call: BootstrapScheduler,    *)
(* which keeps the calls within their width and their seconds, for any     *)
(* finite set of symbols, any width and both kinds of workers; and         *)
(* Providers, what one fetch asks its source for and reports (Fetch        *)
(* below), for any boards, symbols, requests, batch size and attempts.     *)
(***************************************************************************)
EXTENDS BootstrapScheduler, FetchReport, Sequences, SetLemmas

CONSTANTS Symbols, NoSuffix, Requests, BatchSize, Attempts

Fetch == INSTANCE Providers

-----------------------------------------------------------------------------
(* Facts about the size of the table of calls in flight. *)

(* Any subset of the symbols can be counted. *)
LEMMA SizeType ==
  ASSUME NEW S \in SUBSET Called
  PROVE  IsFiniteSet(S) /\ Cardinality(S) \in Nat
BY CalledFinite, FS_Subset, FS_CardinalityType

(* A symbol that is not in a set makes it one larger. *)
LEMMA SizeAdd ==
  ASSUME NEW S \in SUBSET Called, NEW s \in Called, s \notin S
  PROVE  Cardinality(S \cup {s}) = Cardinality(S) + 1
BY SizeType, FS_AddElement

(* Taking a member out makes a set one smaller. *)
LEMMA SizeRemove ==
  ASSUME NEW S \in SUBSET Called, NEW s \in S
  PROVE  Cardinality(S \ {s}) = Cardinality(S) - 1
BY SizeType, FS_RemoveElement

(* An empty table holds no call. *)
LEMMA SizeEmpty == Cardinality({}) = 0
BY FS_EmptySet

(* Whether the workers are processes is an argument of the call. *)
LEMMA CallStaysItsKind == [Next]_callVars => processIsolated' = processIsolated
BY DEF Next, callVars

-----------------------------------------------------------------------------
(* Every reachable state is well typed: in particular what a poll still    *)
(* visits is in the table, although entries leave it during the poll.      *)
THEOREM TypeCorrect == Spec => []TypeOK
<1> USE NobodyIsNone DEF TypeOK, Messages, Nothing, Timeout
<1>1. Init => TypeOK
  <2> SUFFICES ASSUME Init PROVE TypeOK
    OBVIOUS
  <2>1. mailbox \in [Called -> Messages \cup {Nothing}]
    BY DEF Init
  <2>2. verdict \in [Called -> Messages \cup {Nothing, Timeout}]
    BY DEF Init
  <2> QED BY <2>1, <2>2 DEF Init
<1>2. TypeOK /\ [Next]_callVars => TypeOK'
  <2> SUFFICES ASSUME TypeOK, [Next]_callVars PROVE TypeOK'
    OBVIOUS
  <2> USE CallStaysItsKind
  <2>1. ASSUME NEW s \in Called, Submit(s) PROVE TypeOK'
    <3>1. active' \in SUBSET Called
      BY <2>1 DEF Submit
    <3>2. Cardinality(active') \in Nat
      BY <3>1, SizeType
    <3> QED BY <2>1, <3>1, <3>2 DEF Submit
  <2>2. ASSUME NEW s \in Called, NEW v \in Messages \cup {Timeout}, Retire(s, v)
        PROVE  /\ active' \subseteq Called /\ unpolled' \subseteq active'
               /\ running' \subseteq Called /\ looking' = Nobody
               /\ verdict' \in [Called -> Messages \cup {Nothing, Timeout}]
               /\ completed' \in Nat /\ timedOut' \in Nat
               /\ sourceErrors' \in Nat
    BY <2>2 DEF Retire, InFlightWithout, Unvisited, Stopped, Told
  <2>3. ASSUME NEW s \in Called, TakeMessage(s) PROVE TypeOK'
    <3>1. mailbox[s] \in Messages \cup {Timeout}
      BY <2>3 DEF TakeMessage
    <3>2. Retire(s, mailbox[s])
      BY <2>3 DEF TakeMessage
    <3> QED BY <2>2, <2>3, <3>1, <3>2 DEF TakeMessage, Retire
  <2>4. ASSUME NEW s \in Called, GiveUp(s) PROVE TypeOK'
    BY <2>2, <2>4 DEF GiveUp, Retire
  <2>5. ASSUME NEW s \in Called, FindNoMessage(s) PROVE TypeOK'
    BY <2>5 DEF FindNoMessage, Visiting, workerVars, stats
  <2>6. ASSUME NEW s \in Called, KeepWaiting(s) PROVE TypeOK'
    BY <2>6 DEF KeepWaiting, Unvisited, workerVars, stats
  <2>7. CASE Exhaust
    BY <2>7 DEF Exhaust, workerVars, stats
  <2>8. CASE BeginRound
    BY <2>8 DEF BeginRound, workerVars, stats
  <2>9. CASE EndRound
    BY <2>9 DEF EndRound, SourceGone, SilentRound, workerVars, stats
  <2>10. CASE Return
    BY <2>10 DEF Return, workerVars, stats
  <2>11. ASSUME NEW s \in Called, NEW m \in Messages, Answer(s, m) PROVE TypeOK'
    BY <2>11 DEF Answer, loopVars, stats
  <2>12. ASSUME NEW s \in Called, DeadlinePasses(s) PROVE TypeOK'
    BY <2>12 DEF DeadlinePasses, loopVars, stats
  <2>13. CASE UNCHANGED callVars
    BY <2>13 DEF callVars, loopVars, workerVars, stats
  <2> QED BY <2>1, <2>3, <2>4, <2>5, <2>6, <2>7, <2>8, <2>9, <2>10, <2>11,
             <2>12, <2>13 DEF Next, Scheduler, Environment
<1> QED BY <1>1, <1>2, PTL DEF Spec

-----------------------------------------------------------------------------
(* The inductive invariant behind the width and the promise. The two       *)
(* accounts are what makes giving up honest: while symbols are left and no *)
(* answer has come, the timeouts so far and the calls still in flight make *)
(* up a full width.                                                        *)

Width == Cardinality(active) <= MaxInflight

FullWidth == unheard + Cardinality(active) >= MaxInflight

SilenceAccounted ==
  pending # {} /\ ~exhausted =>
    /\ phase = "poll" /\ ~roundCompleted => FullWidth
    /\ (phase = "submit" /\ draining) \/ phase = "done" => FullWidth

ExhaustionAccounted ==
  pending # {} /\ exhausted => active = {} /\ unheard >= MaxInflight

DoneIsIdle == phase = "done" => active = {}

SchedulerInv ==
  Width /\ NoSymbolLost /\ SilenceAccounted /\ ExhaustionAccounted /\ DoneIsIdle

(* One symbol leaves the table with a verdict: what every way of retiring  *)
(* a call does to the places a symbol can be in.                           *)
LEMMA RetireKeepsPlaces ==
  ASSUME TypeOK, Width, NoSymbolLost,
         NEW s \in active, NEW v \in Messages \cup {Timeout}, Retire(s, v)
  PROVE  /\ Width'
         /\ NoSymbolLost'
         /\ Cardinality(active') = Cardinality(active) - 1
<1>1. s \in Called /\ v # Nothing
  BY DEF TypeOK, Messages, Timeout, Nothing
<1>2. active' = active \ {s} /\ pending' = pending
      /\ verdict' = [verdict EXCEPT ![s] = v]
  BY DEF Retire, InFlightWithout, Told
<1>3. Cardinality(active') = Cardinality(active) - 1
  BY <1>2, SizeRemove DEF TypeOK
<1>4. Width'
  BY <1>3, SizeType, MaxInflightPositive DEF Width, TypeOK
<1>5. NoSymbolLost'
  BY <1>1, <1>2 DEF NoSymbolLost, Reported, TypeOK
<1> QED BY <1>3, <1>4, <1>5

(* SchedulerInv holds initially and is kept by every step. *)
LEMMA InvInductive ==
  /\ Init => SchedulerInv
  /\ TypeOK /\ SchedulerInv /\ [Next]_callVars => SchedulerInv'
<1>1. ASSUME Init PROVE SchedulerInv
  BY <1>1, SizeEmpty, MaxInflightPositive
  DEF Init, SchedulerInv, Width, NoSymbolLost, Reported, SilenceAccounted,
      ExhaustionAccounted, DoneIsIdle, Nothing
<1>2. ASSUME TypeOK, SchedulerInv, [Next]_callVars PROVE SchedulerInv'
  <2> USE <1>2, MaxInflightPositive
  <2>0. Cardinality(active) \in Nat /\ unheard \in Nat
        /\ Width /\ NoSymbolLost
    BY SizeType DEF TypeOK, SchedulerInv
  <2>1. ASSUME NEW s \in Called, Submit(s) PROVE SchedulerInv'
    <3>1. Cardinality(active') = Cardinality(active) + 1
      <4>1. s \notin active
        BY <2>0, <2>1 DEF Submit, NoSymbolLost
      <4> QED BY <4>1, <2>1, SizeAdd DEF Submit, TypeOK
    <3>2. Width'
      BY <2>0, <2>1, <3>1 DEF Submit, MaySubmit, Width
    <3>3. NoSymbolLost'
      BY <2>0, <2>1 DEF Submit, NoSymbolLost, Reported
    <3>4. SilenceAccounted' /\ ExhaustionAccounted' /\ DoneIsIdle'
      BY <2>1 DEF Submit, MaySubmit, SilenceAccounted, ExhaustionAccounted,
                  DoneIsIdle
    <3> QED BY <3>2, <3>3, <3>4 DEF SchedulerInv
  <2>2. ASSUME NEW s \in Called, TakeMessage(s) PROVE SchedulerInv'
    <3>1. s \in active /\ mailbox[s] \in Messages
      BY <2>2 DEF TakeMessage, Visiting, TypeOK
    <3>2. Width' /\ NoSymbolLost'
      BY <2>0, <2>2, <3>1, RetireKeepsPlaces DEF TakeMessage
    <3>3. SilenceAccounted' /\ ExhaustionAccounted' /\ DoneIsIdle'
      BY <2>2, <3>1 DEF TakeMessage, Visiting, Retire, SchedulerInv,
                  SilenceAccounted, ExhaustionAccounted, DoneIsIdle
    <3> QED BY <3>2, <3>3 DEF SchedulerInv
  <2>3. ASSUME NEW s \in Called, GiveUp(s) PROVE SchedulerInv'
    <3>1. s \in active
      BY <2>3, NobodyIsNone DEF GiveUp, TypeOK
    <3>2. Width' /\ NoSymbolLost' /\ Cardinality(active') = Cardinality(active) - 1
      BY <2>0, <2>3, <3>1, RetireKeepsPlaces DEF GiveUp
    <3>3. FullWidth => FullWidth'
      BY <2>0, <2>3, <3>2 DEF GiveUp, FullWidth
    <3>4. SilenceAccounted' /\ ExhaustionAccounted' /\ DoneIsIdle'
      BY <2>3, <3>1, <3>3 DEF GiveUp, Retire, SchedulerInv, SilenceAccounted,
                  ExhaustionAccounted, DoneIsIdle
    <3> QED BY <3>2, <3>4 DEF SchedulerInv
  <2>4. CASE EndRound
    <3>1. Width' /\ NoSymbolLost' /\ DoneIsIdle'
      BY <2>0, <2>4 DEF EndRound, Width, NoSymbolLost, Reported, DoneIsIdle
    <3>2. SilenceAccounted'
      BY <2>4 DEF EndRound, SilentRound, SchedulerInv, SilenceAccounted, FullWidth
    <3>3. ASSUME pending # {}, ~exhausted, SourceGone
          PROVE  active = {} /\ unheard >= MaxInflight
      <4>1. FullWidth /\ active = {}
        BY <2>4, <3>3 DEF EndRound, SourceGone, SilentRound, SchedulerInv,
                          SilenceAccounted
      <4>2. Cardinality(active) = 0
        BY <4>1, SizeEmpty
      <4> QED BY <2>0, <4>1, <4>2 DEF FullWidth
    <3>4. ExhaustionAccounted'
      BY <2>4, <3>3 DEF EndRound, SchedulerInv, ExhaustionAccounted
    <3> QED BY <3>1, <3>2, <3>4 DEF SchedulerInv
  <2>5. CASE BeginRound
    <3>1. Width' /\ NoSymbolLost' /\ DoneIsIdle' /\ ExhaustionAccounted'
      BY <2>0, <2>5 DEF BeginRound, Width, NoSymbolLost, Reported, DoneIsIdle,
                        SchedulerInv, ExhaustionAccounted
    <3>2. SilenceAccounted'
      BY <2>0, <2>5 DEF BeginRound, MaySubmit, SchedulerInv, SilenceAccounted,
                        FullWidth
    <3> QED BY <3>1, <3>2 DEF SchedulerInv
  <2>6. CASE Return
    <3>1. Width' /\ NoSymbolLost' /\ DoneIsIdle' /\ ExhaustionAccounted'
      BY <2>0, <2>6 DEF Return, Width, NoSymbolLost, Reported, DoneIsIdle,
                        SchedulerInv, ExhaustionAccounted
    <3>2. SilenceAccounted'
      BY <2>0, <2>6, SizeEmpty DEF Return, MaySubmit, SchedulerInv,
                        SilenceAccounted, FullWidth
    <3> QED BY <3>1, <3>2 DEF SchedulerInv
  <2>7. CASE Exhaust
    BY <2>0, <2>7 DEF Exhaust, SchedulerInv, Width, NoSymbolLost, Reported,
          SilenceAccounted, ExhaustionAccounted, DoneIsIdle, FullWidth
  <2>8. ASSUME NEW s \in Called,
               FindNoMessage(s) \/ KeepWaiting(s) \/ DeadlinePasses(s)
                 \/ \E m \in Messages : Answer(s, m)
        PROVE  SchedulerInv'
    <3>1. UNCHANGED <<pending, active, verdict, unheard, phase, exhausted,
                      draining, roundCompleted>>
      BY <2>8 DEF FindNoMessage, KeepWaiting, DeadlinePasses, Answer, loopVars
    <3> QED BY <3>1 DEF SchedulerInv, Width, NoSymbolLost, Reported, FullWidth,
                        SilenceAccounted, ExhaustionAccounted, DoneIsIdle
  <2>9. CASE UNCHANGED callVars
    BY <2>9 DEF callVars, loopVars, SchedulerInv, Width, NoSymbolLost, Reported,
            FullWidth, SilenceAccounted, ExhaustionAccounted, DoneIsIdle
  <2> QED BY <2>1, <2>2, <2>3, <2>4, <2>5, <2>6, <2>7, <2>8, <2>9
          DEF Next, Scheduler, Environment
<1> QED BY <1>1, <1>2

(* No symbol is lost: in every reachable state each is waiting to be       *)
(* submitted, in flight, or reported, and only one of the three.           *)
THEOREM NothingLost == Spec => []NoSymbolLost
<1>1. SchedulerInv => NoSymbolLost
  BY DEF SchedulerInv
<1> QED BY <1>1, TypeCorrect, InvInductive, PTL DEF Spec

(* Giving up is honest: symbols that were never submitted are left over    *)
(* only after a full width of timeouts with no answer between them.        *)
THEOREM SilenceBeforeGivingUp == Spec => []GivesUpOnlyOnSilence
<1>1. TypeOK /\ SchedulerInv => GivesUpOnlyOnSilence
  BY SizeEmpty DEF TypeOK, SchedulerInv, SilenceAccounted, ExhaustionAccounted,
                   DoneIsIdle, FullWidth, GivesUpOnlyOnSilence
<1> QED BY <1>1, TypeCorrect, InvInductive, PTL DEF Spec

-----------------------------------------------------------------------------
(* The inductive invariant behind the counters: each is the size of a set  *)
(* of symbols at every moment, not only when the call returns.             *)

Submitted == Called \ pending
Heard == {s \in Called : verdict[s] # Nothing}
GivenUp == {s \in Called : verdict[s] = Timeout}
Failed == {s \in Called : verdict[s] \in {"error", Timeout}}

CountersCount ==
  /\ submitted = Cardinality(Submitted)
  /\ completed = Cardinality(Heard)
  /\ timedOut = Cardinality(GivenUp)
  /\ sourceErrors = Cardinality(Failed)

PeakInWidth == maxObserved <= MaxInflight

NothingOutlivesItsCall == processIsolated => running \subseteq active

StatsInv == CountersCount /\ PeakInWidth /\ NothingOutlivesItsCall

(* A symbol nobody was told about joins the sets its verdict belongs to.   *)
LEMMA RetireCounts ==
  ASSUME TypeOK, CountersCount,
         NEW s \in Called, NEW v \in Messages \cup {Timeout}, Retire(s, v),
         verdict[s] = Nothing
  PROVE  CountersCount'
<1>1. verdict' = [verdict EXCEPT ![s] = v] /\ pending' = pending /\ submitted' = submitted
  BY DEF Retire, Told
<1>2. v # Nothing /\ (v = Timeout => v # "error")
  BY DEF Messages, Timeout, Nothing
<1>3. Heard' = Heard \cup {s} /\ s \notin Heard /\ Heard \in SUBSET Called
  BY <1>1, <1>2 DEF Heard, TypeOK
<1>4. completed' = Cardinality(Heard')
  BY <1>3, SizeAdd DEF Retire, CountersCount
<1>5. GivenUp \in SUBSET Called /\ s \notin GivenUp
      /\ Failed \in SUBSET Called /\ s \notin Failed
  BY DEF GivenUp, Failed, Nothing, Timeout
<1>6. GivenUp' = IF v = Timeout THEN GivenUp \cup {s} ELSE GivenUp
  BY <1>1, <1>5 DEF GivenUp, TypeOK
<1>7. Failed' = IF v \in {"error", Timeout} THEN Failed \cup {s} ELSE Failed
  BY <1>1, <1>5 DEF Failed, TypeOK
<1>8. timedOut' = Cardinality(GivenUp')
  BY <1>5, <1>6, SizeAdd DEF Retire, CountersCount
<1>9. sourceErrors' = Cardinality(Failed')
  BY <1>5, <1>7, SizeAdd DEF Retire, IsSourceError, CountersCount
<1>10. submitted' = Cardinality(Submitted')
  BY <1>1 DEF Submitted, CountersCount
<1> QED BY <1>4, <1>8, <1>9, <1>10 DEF CountersCount

(* StatsInv holds initially and is kept by every step. *)
LEMMA StatsInductive ==
  /\ Init => StatsInv
  /\ TypeOK /\ SchedulerInv /\ SchedulerInv' /\ StatsInv /\ [Next]_callVars => StatsInv'
<1>1. ASSUME Init PROVE StatsInv
  <2>1. Submitted = {} /\ Heard = {} /\ GivenUp = {} /\ Failed = {}
    BY <1>1 DEF Init, Submitted, Heard, GivenUp, Failed, Nothing, Timeout
  <2> QED BY <1>1, <2>1, SizeEmpty, MaxInflightPositive
          DEF Init, StatsInv, CountersCount, PeakInWidth, NothingOutlivesItsCall
<1>2. ASSUME TypeOK, SchedulerInv, SchedulerInv', StatsInv, [Next]_callVars PROVE StatsInv'
  <2> USE <1>2, CallStaysItsKind
  <2>0. CountersCount /\ PeakInWidth /\ NothingOutlivesItsCall
        /\ NoSymbolLost /\ Width'
    BY DEF StatsInv, SchedulerInv
  <2>1. ASSUME NEW s \in Called, Submit(s) PROVE StatsInv'
    <3>1. Submitted' = Submitted \cup {s} /\ s \notin Submitted
          /\ Submitted \in SUBSET Called
      BY <2>1 DEF Submit, Submitted
    <3>2. submitted' = Cardinality(Submitted')
      BY <2>0, <2>1, <3>1, SizeAdd DEF Submit, CountersCount
    <3>3. CountersCount'
      BY <2>0, <2>1, <3>2 DEF Submit, CountersCount, Heard, GivenUp, Failed
    <3>4. PeakInWidth' /\ NothingOutlivesItsCall'
      BY <2>0, <2>1 DEF Submit, PeakInWidth, Width, NothingOutlivesItsCall
    <3> QED BY <3>3, <3>4 DEF StatsInv
  <2>2. ASSUME NEW s \in active, NEW v \in Messages \cup {Timeout}, Retire(s, v)
        PROVE  StatsInv'
    <3>1. s \in Called /\ verdict[s] = Nothing
      BY <2>0 DEF TypeOK, NoSymbolLost, Reported
    <3>2. CountersCount'
      BY <2>0, <2>2, <3>1, RetireCounts
    <3>3. PeakInWidth' /\ NothingOutlivesItsCall'
      BY <2>0, <2>2 DEF Retire, InFlightWithout, Stopped, PeakInWidth,
                        NothingOutlivesItsCall
    <3> QED BY <3>2, <3>3 DEF StatsInv
  <2>3. ASSUME NEW s \in Called, TakeMessage(s) PROVE StatsInv'
    <3>1. s \in active /\ mailbox[s] \in Messages
      BY <2>3 DEF TakeMessage, Visiting, TypeOK
    <3> QED BY <2>2, <2>3, <3>1 DEF TakeMessage
  <2>4. ASSUME NEW s \in Called, GiveUp(s) PROVE StatsInv'
    <3>1. s \in active
      BY <2>4, NobodyIsNone DEF GiveUp, TypeOK
    <3> QED BY <2>2, <2>4, <3>1 DEF GiveUp
  <2>5. ASSUME UNCHANGED <<pending, active, verdict, stats>>, running' \subseteq running
        PROVE  StatsInv'
    BY <2>0, <2>5 DEF StatsInv, CountersCount, PeakInWidth, NothingOutlivesItsCall,
                      Submitted, Heard, GivenUp, Failed, stats
  <2>6. ASSUME NEW s \in Called,
               FindNoMessage(s) \/ KeepWaiting(s) \/ DeadlinePasses(s)
                 \/ \E m \in Messages : Answer(s, m)
        PROVE  StatsInv'
    BY <2>5, <2>6 DEF FindNoMessage, KeepWaiting, DeadlinePasses, Answer, loopVars,
                      workerVars
  <2>7. ASSUME Exhaust \/ BeginRound \/ EndRound \/ Return \/ UNCHANGED callVars
        PROVE  StatsInv'
    BY <2>5, <2>7 DEF Exhaust, BeginRound, EndRound, Return, callVars, loopVars, workerVars
  <2> QED BY <2>1, <2>3, <2>4, <2>6, <2>7 DEF Next, Scheduler, Environment
<1> QED BY <1>1, <1>2

(* The books of every call balance: no symbol is lost, no more calls than  *)
(* the width are ever in flight, no process outlives its call, and the     *)
(* counters that are returned describe exactly what the caller was told.   *)
THEOREM BooksAlwaysBalance == Spec => []BooksBalance
<1>1. ASSUME TypeOK, SchedulerInv, StatsInv PROVE BooksBalance
  <2>1. phase = "done" => Submitted = Heard
    BY <1>1 DEF SchedulerInv, DoneIsIdle, NoSymbolLost, Reported, Submitted, Heard
  <2>2. StatsHonest
    BY <1>1, <2>1 DEF StatsInv, CountersCount, StatsHonest, Reported, Heard, GivenUp, Failed
  <2>3. InflightBounded
    BY <1>1 DEF SchedulerInv, Width, StatsInv, PeakInWidth, NothingOutlivesItsCall,
                InflightBounded
  <2> QED BY <1>1, <2>2, <2>3 DEF SchedulerInv, BooksBalance
<1> QED BY <1>1, TypeCorrect, InvInductive, StatsInductive, PTL DEF Spec

(* The scheduler implements FetchRound, so its callers may be reasoned     *)
(* about with the promise alone.                                           *)
THEOREM KeepsPromise == Spec => ImplementsFetchRound
<1>1. Init => Promise!Init
  BY DEF Init, Promise!Init
<1>2. TypeOK /\ SchedulerInv /\ [Next]_callVars => [Promise!Next]_(Promise!vars)
  <2> SUFFICES ASSUME TypeOK, SchedulerInv, [Next]_callVars
               PROVE  [Promise!Next]_(Promise!vars)
    OBVIOUS
  <2>1. ASSUME NEW s \in active, NEW v \in Messages \cup {Timeout}, Retire(s, v),
               phase = "poll"
        PROVE  Promise!Report(s) /\ s \in Called
    <3>1. s \in Called /\ v # Nothing
      BY DEF TypeOK, Messages, Timeout, Nothing
    <3>2. ~Reported(s) /\ verdict' = [verdict EXCEPT ![s] = v] /\ phase' = phase
      BY <2>1, <3>1 DEF Retire, Told, SchedulerInv, NoSymbolLost
    <3>3. {t \in Called : ~Reported(t)}' = {t \in Called : ~Reported(t)} \ {s}
      BY <3>1, <3>2 DEF Reported, TypeOK
    <3> QED BY <2>1, <3>1, <3>2, <3>3 DEF Promise!Report
  <2>2. ASSUME NEW s \in Called, TakeMessage(s) PROVE Promise!Next
    <3>1. s \in active /\ mailbox[s] \in Messages /\ phase = "poll"
      BY <2>2 DEF TakeMessage, Visiting, TypeOK
    <3>2. Promise!Answered(s)
      BY <2>1, <2>2, <3>1 DEF TakeMessage, Promise!Answered
    <3> QED BY <3>2 DEF Promise!Next
  <2>3. ASSUME NEW s \in Called, GiveUp(s) PROVE Promise!Next
    <3>1. s \in active /\ phase = "poll"
      BY <2>3, NobodyIsNone DEF GiveUp, TypeOK
    <3>2. Promise!TimedOut(s)
      BY <2>1, <2>3, <3>1 DEF GiveUp, Promise!TimedOut
    <3> QED BY <3>2 DEF Promise!Next
  <2>4. CASE Return
    <3>1. pending # {} => unheard >= MaxInflight
      BY <2>4, SizeEmpty, MaxInflightPositive
      DEF Return, MaySubmit, TypeOK, SchedulerInv, SilenceAccounted,
          ExhaustionAccounted, FullWidth
    <3>2. pending = {} => {s \in Called : ~Reported(s)} = {}
      BY <2>4 DEF Return, SchedulerInv, NoSymbolLost
    <3>3. UNCHANGED <<{s \in Called : ~Reported(s)}, unheard>>
      BY <2>4 DEF Return, Reported
    <3> QED BY <2>4, <3>1, <3>2, <3>3
            DEF Return, Promise!Next, Promise!Close, Promise!SourceIsSilent
  <2>5. ASSUME UNCHANGED <<verdict, unheard>>, (phase # "done") = (phase' # "done")
        PROVE  UNCHANGED Promise!vars
    BY <2>5 DEF Promise!vars, Reported
  <2>6. ASSUME NEW s \in Called,
               Submit(s) \/ FindNoMessage(s) \/ KeepWaiting(s)
                 \/ DeadlinePasses(s) \/ \E m \in Messages : Answer(s, m)
        PROVE  UNCHANGED Promise!vars
    BY <2>5, <2>6 DEF Submit, FindNoMessage, KeepWaiting, DeadlinePasses, Answer,
                      loopVars
  <2>7. ASSUME Exhaust \/ BeginRound \/ EndRound \/ UNCHANGED callVars
        PROVE  UNCHANGED Promise!vars
    BY <2>5, <2>7 DEF Exhaust, BeginRound, EndRound, callVars, loopVars
  <2> QED BY <2>2, <2>3, <2>4, <2>6, <2>7 DEF Next, Scheduler, Environment
<1> QED BY <1>1, <1>2, TypeCorrect, InvInductive, PTL
        DEF Spec, ImplementsFetchRound, Promise!Spec

-----------------------------------------------------------------------------
(* What the calls of a request name. *)

(* The keys of the calls still to be made.                                 *)
Queued(calls) == {k \in Fetch!Keys : \E i \in DOMAIN calls : \E j \in DOMAIN calls[i] : calls[i][j] = k}

(* The call a place of a list falls into.                                  *)
LEMMA PlaceInCall ==
  ASSUME NEW B \in Nat, B > 0, NEW n \in Nat, n > 0
  PROVE  /\ (n - 1) \div B \in Nat
         /\ ((n - 1) \div B) * B <= n - 1
         /\ n - 1 < ((n - 1) \div B) * B + B
OBVIOUS

(* A list without its repetitions names the values it is asked to keep.    *)
LEMMA InOrderKeeps ==
  ASSUME NEW S, NEW s \in Seq(S), NEW values
  PROVE  /\ Fetch!InOrder(s, values) \in Seq(S)
         /\ \A x \in S : (\E n \in DOMAIN Fetch!InOrder(s, values) : Fetch!InOrder(s, values)[n] = x)
                           <=> (x \in values /\ \E i \in DOMAIN s : s[i] = x)
<1>. DEFINE P == {i \in DOMAIN s : s[i] \in values /\ \A j \in 1..(i - 1) : s[j] # s[i]}
            upTo(i) == {j \in P : j <= i}
            at(n) == CHOOSE i \in P : Cardinality(upTo(i)) = n
            list == [n \in 1..Cardinality(P) |-> s[at(n)]]
<1>1. P \in SUBSET (1..Len(s)) /\ Len(s) \in Nat
  OBVIOUS
<1>2. /\ Cardinality(P) \in Nat
      /\ \A i \in P : Cardinality(upTo(i)) \in 1..Cardinality(P)
      /\ \A i, k \in P : Cardinality(upTo(i)) = Cardinality(upTo(k)) => i = k
      /\ \A m \in 1..Cardinality(P) : \E i \in P : Cardinality(upTo(i)) = m
  <2>. HIDE DEF P
  <2>. QED BY <1>1, PlacesAreNumbered
<1>3. Fetch!InOrder(s, values) = list
  BY DEF Fetch!InOrder, Fetch!Cardinality, Cardinality
<1>4. \A m \in 1..Cardinality(P) : at(m) \in P
  <2>. HIDE DEF P
  <2>. QED BY <1>2
<1>5. \A m \in 1..Cardinality(P) : s[at(m)] \in S /\ s[at(m)] \in values
  <2>. HIDE DEF at
  <2>. QED BY <1>4
<1>6. list \in Seq(S) /\ DOMAIN list = 1..Cardinality(P)
  <2>. HIDE DEF P, at
  <2>. QED BY <1>2, <1>5
<1>7. ASSUME NEW i \in DOMAIN s, s[i] \in values
      PROVE  \E n \in DOMAIN list : list[n] = s[i]
  <2>. DEFINE places == {j \in DOMAIN s : s[j] = s[i]}
  <2>1. places \subseteq Nat /\ places # {}
    OBVIOUS
  <2>2. Min(places) \in places /\ \A j \in places : Min(places) <= j
    <3>. HIDE DEF places
    <3>. QED BY <2>1, MinIsMember
  <2>. DEFINE m == Min(places)
  <2>. HIDE DEF m
  <2>3. m \in DOMAIN s /\ s[m] = s[i] /\ \A j \in DOMAIN s : s[j] = s[i] => m <= j
    BY <2>2 DEF m
  <2>4. m \in P
    <3>1. m \in 1..Len(s) /\ Len(s) \in Nat
      BY <2>3
    <3>2. \A j \in 1..(m - 1) : j \in DOMAIN s /\ ~(m <= j)
      BY <3>1
    <3>. QED BY <1>7, <2>3, <3>2
  <2>5. at(Cardinality(upTo(m))) = m
    <3>. HIDE DEF P
    <3>. QED BY <1>2, <2>4
  <2>6. Cardinality(upTo(m)) \in DOMAIN list
    <3>. HIDE DEF P, at, upTo
    <3>. QED BY <1>2, <1>6, <2>4
  <2>. HIDE DEF P, at, upTo
  <2>. QED BY <1>6, <2>3, <2>5, <2>6
<1>8. \A n \in DOMAIN list : list[n] \in values /\ \E i \in DOMAIN s : s[i] = list[n]
  <2>. SUFFICES ASSUME NEW n \in DOMAIN list
                PROVE  list[n] \in values /\ \E i \in DOMAIN s : s[i] = list[n]
    OBVIOUS
  <2>1. n \in 1..Cardinality(P)
    BY <1>6
  <2>2. list[n] = s[at(n)] /\ at(n) \in DOMAIN s
    <3>1. at(n) \in P
      BY <1>4, <2>1
    <3>. HIDE DEF at
    <3>. QED BY <2>1, <3>1
  <2>. HIDE DEF P, at, list
  <2>. QED BY <1>5, <2>1, <2>2
<1>9. \A x \in S : (\E n \in DOMAIN list : list[n] = x)
                      <=> (x \in values /\ \E i \in DOMAIN s : s[i] = x)
  <2>. HIDE DEF list
  <2>. QED BY <1>7, <1>8
<1>. HIDE DEF list
<1>. QED BY <1>3, <1>6, <1>9

(* Cutting a list into calls loses none of it, and no call names nothing.  *)
LEMMA ChunksCover ==
  ASSUME NEW S, NEW s \in Seq(S), BatchSize \in Nat, BatchSize > 0
  PROVE  /\ Fetch!Chunks(s) \in Seq(Seq(S))
         /\ \A i \in DOMAIN Fetch!Chunks(s) : Fetch!Chunks(s)[i] # <<>>
         /\ \A x : (\E i \in DOMAIN Fetch!Chunks(s) : \E j \in DOMAIN Fetch!Chunks(s)[i] :
                       Fetch!Chunks(s)[i][j] = x)
                     <=> \E n \in DOMAIN s : s[n] = x
<1>. DEFINE chunks == Fetch!Chunks(s)
            many == (Len(s) + BatchSize - 1) \div BatchSize
            from(i) == (i - 1) * BatchSize + 1
            to(i) == IF i * BatchSize < Len(s) THEN i * BatchSize ELSE Len(s)
<1>1. Len(s) \in Nat /\ many \in Nat
  OBVIOUS
<1>2. chunks = [i \in 1..many |-> SubSeq(s, from(i), to(i))]
  BY DEF Fetch!Chunks
<1>3. \A i \in 1..many :
        /\ from(i) \in Nat /\ to(i) \in Nat
        /\ 1 <= from(i) /\ from(i) <= to(i) /\ to(i) <= Len(s)
  <2>. SUFFICES ASSUME NEW i \in 1..many
                PROVE  /\ from(i) \in Nat /\ to(i) \in Nat
                       /\ 1 <= from(i) /\ from(i) <= to(i) /\ to(i) <= Len(s)
    OBVIOUS
  <2>1. i * BatchSize <= Len(s) + BatchSize - 1
    OBVIOUS
  <2>2. (i - 1) * BatchSize = i * BatchSize - BatchSize /\ (i - 1) * BatchSize \in Nat
    OBVIOUS
  <2>. QED BY <1>1, <2>1, <2>2
<1>4. \A i \in 1..many :
        /\ chunks[i] \in Seq(S) /\ Len(chunks[i]) = to(i) - from(i) + 1
        /\ \A j \in 1..Len(chunks[i]) : chunks[i][j] = s[from(i) + j - 1]
  <2>. SUFFICES ASSUME NEW i \in 1..many
                PROVE  /\ chunks[i] \in Seq(S) /\ Len(chunks[i]) = to(i) - from(i) + 1
                       /\ \A j \in 1..Len(chunks[i]) : chunks[i][j] = s[from(i) + j - 1]
    OBVIOUS
  <2>1. chunks[i] = SubSeq(s, from(i), to(i))
    BY <1>2
  <2>. HIDE DEF chunks, from, to, many
  <2>. QED BY <1>1, <1>3, <2>1
<1>5. chunks \in Seq(Seq(S)) /\ DOMAIN chunks = 1..many
  <2>. HIDE DEF many, from, to
  <2>. DEFINE c == chunks
  <2>1. c \in [1..many -> Seq(S)]
    BY <1>2, <1>4
  <2>. HIDE DEF c
  <2>. QED BY <1>1, <2>1 DEF c
<1>6. ASSUME NEW i \in 1..many, NEW j \in DOMAIN chunks[i]
      PROVE  \E n \in DOMAIN s : s[n] = chunks[i][j]
  <2>1. j \in 1..Len(chunks[i])
    <3>1. chunks[i] \in Seq(S)
      BY <1>4
    <3>. HIDE DEF chunks
    <3>. QED BY <3>1
  <2>2. from(i) + j - 1 \in 1..Len(s)
    <3>. HIDE DEF chunks, from, to, many
    <3>. QED BY <1>1, <1>3, <1>4, <2>1
  <2>. HIDE DEF chunks, from, to, many
  <2>. QED BY <1>4, <2>1, <2>2
<1>7. ASSUME NEW n \in DOMAIN s
      PROVE  \E i \in 1..many : \E j \in DOMAIN chunks[i] : chunks[i][j] = s[n]
  <2>. DEFINE before == (n - 1) \div BatchSize
              i == before + 1
  <2>0. n \in 1..Len(s)
    OBVIOUS
  <2>1. before \in Nat /\ before * BatchSize <= n - 1 /\ n - 1 < before * BatchSize + BatchSize
    BY <2>0, PlaceInCall
  <2>. HIDE DEF before
  <2>2. i \in 1..many
    <3>1. i * BatchSize = before * BatchSize + BatchSize /\ before * BatchSize \in Nat
      BY <2>1
    <3>2. i \in Nat /\ 1 <= i /\ i * BatchSize <= Len(s) + BatchSize - 1
      BY <1>1, <2>0, <2>1, <3>1
    <3>. HIDE DEF i
    <3>. QED BY <1>1, <3>2
  <2>7. (i - 1) * BatchSize = before * BatchSize /\ i * BatchSize = before * BatchSize + BatchSize
         /\ i * BatchSize \in Nat /\ before * BatchSize \in Nat
    BY <2>1
  <2>. HIDE DEF i
  <2>3. from(i) <= n /\ n <= to(i)
    BY <1>1, <2>0, <2>1, <2>7
  <2>. HIDE DEF chunks, from, to, many
  <2>4. n - from(i) + 1 \in 1..Len(chunks[i])
    BY <1>1, <1>3, <1>4, <2>0, <2>2, <2>3
  <2>5. chunks[i][n - from(i) + 1] = s[n]
    BY <1>1, <1>3, <1>4, <2>0, <2>2, <2>4
  <2>. QED BY <1>4, <2>2, <2>4, <2>5
<1>8. \A i \in 1..many : chunks[i] # <<>>
  <2>. HIDE DEF chunks, from, to, many
  <2>. QED BY <1>1, <1>3, <1>4
<1>9. \A x : (\E i \in DOMAIN chunks : \E j \in DOMAIN chunks[i] : chunks[i][j] = x)
                <=> \E n \in DOMAIN s : s[n] = x
  <2>. HIDE DEF chunks, many
  <2>1. \A i \in DOMAIN chunks : \A j \in DOMAIN chunks[i] : \E n \in DOMAIN s : s[n] = chunks[i][j]
    BY <1>5, <1>6
  <2>2. \A n \in DOMAIN s : \E i \in DOMAIN chunks : \E j \in DOMAIN chunks[i] : chunks[i][j] = s[n]
    BY <1>5, <1>7
  <2>. QED BY <2>1, <2>2
<1>10. \A i \in DOMAIN chunks : chunks[i] # <<>>
  <2>. HIDE DEF chunks, many
  <2>. QED BY <1>5, <1>8
<1>. QED BY <1>5, <1>9, <1>10

(* A set listed by SetToSeq is a list of its members, all of them.         *)
LEMMA ListedWhole ==
  ASSUME NEW S, IsFiniteSet(S)
  PROVE  /\ Fetch!SetToSeq(S) \in Seq(S)
         /\ \A x \in S : \E i \in DOMAIN Fetch!SetToSeq(S) : Fetch!SetToSeq(S)[i] = x
<1>. DEFINE list == CHOOSE f \in [1..Cardinality(S) -> S] : IsInjective(f)
<1>1. Fetch!SetToSeq(S) = list
  BY DEF Fetch!SetToSeq, Fetch!Cardinality, Cardinality, Fetch!IsInjective, IsInjective
<1>2. /\ Cardinality(S) \in Nat
      /\ \E f \in [1..Cardinality(S) -> S] : IsInjective(f)
      /\ \A f \in [1..Cardinality(S) -> S] :
           IsInjective(f) => \A x \in S : \E i \in 1..Cardinality(S) : f[i] = x
  BY SetsAreListed
<1>3. list \in [1..Cardinality(S) -> S] /\ IsInjective(list)
  BY <1>2
<1>. HIDE DEF list
<1>4. \A x \in S : \E i \in 1..Cardinality(S) : list[i] = x
  BY <1>2, <1>3
<1>5. list \in Seq(S) /\ DOMAIN list = 1..Cardinality(S)
  BY <1>2, <1>3
<1>. QED BY <1>1, <1>4, <1>5

(* The calls of a request name what it asks for, each of a batching        *)
(* service at least something.                                             *)
LEMMA CallsCover ==
  ASSUME Fetch!ProvidersAssumption, NEW r \in Fetch!Wanted, r.service # "local"
  PROVE  /\ Fetch!Calls(r) \in Seq(Seq(Fetch!Keys))
         /\ Queued(Fetch!Calls(r)) = Fetch!RequestedKeys(r)
         /\ Fetch!Batched(r) => \A i \in DOMAIN Fetch!Calls(r) : Fetch!Calls(r)[i] # <<>>
<1>. DEFINE list == r.symbols
            K == Fetch!Keys
<1>1. list \in Seq(Symbols) /\ Symbols \subseteq K /\ Boards \subseteq K
  BY DEF Fetch!Wanted, Fetch!ProvidersAssumption, Fetch!Keys
<1>2. BatchSize \in Nat /\ BatchSize > 0
  BY DEF Fetch!ProvidersAssumption
<1>3. CASE Fetch!Batched(r)
  <2>. DEFINE once == Fetch!InOrder(list, Fetch!ToSet(list))
  <2>1. Fetch!Calls(r) = Fetch!Chunks(once)
    <3>1. Fetch!Batched(r) /\ r.dataset # "securities"
      BY <1>3 DEF Fetch!Batched, Fetch!Wanted
    <3>. QED BY <3>1 DEF Fetch!Calls
  <2>2. once \in Seq(K) /\ \A x \in K : (\E n \in DOMAIN once : once[n] = x)
                                         <=> (x \in Fetch!ToSet(list) /\ \E i \in DOMAIN list : list[i] = x)
    <3>1. list \in Seq(K)
      BY <1>1
    <3>. HIDE DEF list, K
    <3>. QED BY <3>1, InOrderKeeps
  <2>3. Fetch!RequestedKeys(r) = {x \in K : \E i \in DOMAIN list : list[i] = x}
    <3>1. Fetch!RequestedKeys(r) = {list[i] : i \in DOMAIN list}
      BY <1>3 DEF Fetch!RequestedKeys, Fetch!Batched, Fetch!Wanted
    <3>2. \A i \in DOMAIN list : list[i] \in K
      BY <1>1
    <3>. QED BY <3>1, <3>2
  <2>. HIDE DEF once, K
  <2>4. /\ Fetch!Chunks(once) \in Seq(Seq(K))
        /\ \A i \in DOMAIN Fetch!Chunks(once) : Fetch!Chunks(once)[i] # <<>>
        /\ \A x : (\E i \in DOMAIN Fetch!Chunks(once) : \E j \in DOMAIN Fetch!Chunks(once)[i] :
                      Fetch!Chunks(once)[i][j] = x)
                    <=> \E n \in DOMAIN once : once[n] = x
    BY <1>2, <2>2, ChunksCover
  <2>5. Queued(Fetch!Chunks(once)) = {x \in K : \E n \in DOMAIN once : once[n] = x}
    BY <2>4 DEF Queued, K
  <2>6. \A x \in K : x \in Fetch!ToSet(list) <=> \E i \in DOMAIN list : list[i] = x
    BY DEF Fetch!ToSet
  <2>. QED BY <2>1, <2>2, <2>3, <2>4, <2>5, <2>6 DEF K
<1>4. CASE ~Fetch!Batched(r) /\ r.dataset = "securities"
  <2>. DEFINE lists == {<<board>> : board \in Boards}
              calls == Fetch!SetToSeq(lists)
  <2>1. IsFiniteSet(lists)
    <3>1. IsFiniteSet(Boards)
      BY DEF Fetch!ProvidersAssumption, Fetch!IsFiniteSet, IsFiniteSet
    <3>. DEFINE f == [board \in Boards |-> <<board>>]
    <3>2. IsFiniteSet({f[board] : board \in Boards})
      <4>1. DOMAIN f = Boards
        OBVIOUS
      <4>. HIDE DEF f
      <4>. QED BY <3>1, <4>1, ImageIsFinite
    <3>3. {f[board] : board \in Boards} = lists
      OBVIOUS
    <3>. QED BY <3>2, <3>3
  <2>2. calls \in Seq(lists) /\ \A x \in lists : \E i \in DOMAIN calls : calls[i] = x
    <3>. HIDE DEF lists
    <3>. QED BY <2>1, ListedWhole
  <2>3. Fetch!Calls(r) = calls
    BY <1>4 DEF Fetch!Calls
  <2>4. \A x \in lists : x \in Seq(K) /\ DOMAIN x = {1} /\ x[1] \in Boards /\ x = <<x[1]>>
    <3>1. \A b \in Boards : <<b>> \in Seq(K) /\ DOMAIN <<b>> = {1} /\ <<b>>[1] = b
      BY <1>1
    <3>. QED BY <3>1
  <2>5. calls \in Seq(Seq(K))
    <3>1. lists \subseteq Seq(K)
      BY <2>4
    <3>. HIDE DEF lists, calls, K
    <3>. QED BY <2>2, <3>1
  <2>6. \A i \in DOMAIN calls : calls[i] \in lists
    <3>. HIDE DEF lists, calls
    <3>. QED BY <2>2
  <2>7. \A k \in Boards : \E i \in DOMAIN calls : calls[i] = <<k>>
    <3>1. \A k \in Boards : <<k>> \in lists
      OBVIOUS
    <3>. HIDE DEF lists, calls
    <3>. QED BY <2>2, <3>1
  <2>. HIDE DEF lists, calls
  <2>8. \A k \in Queued(calls) : k \in Boards
    BY <2>4, <2>6 DEF Queued
  <2>9. \A k \in Boards : k \in Queued(calls)
    <3>. SUFFICES ASSUME NEW k \in Boards PROVE k \in Queued(calls)
      OBVIOUS
    <3>1. PICK i \in DOMAIN calls : calls[i] = <<k>>
      BY <2>7
    <3>2. 1 \in DOMAIN calls[i] /\ calls[i][1] = k
      BY <3>1
    <3>. QED BY <1>1, <3>2 DEF Queued
  <2>10. Fetch!RequestedKeys(r) = Boards
    BY <1>4 DEF Fetch!RequestedKeys
  <2>. QED BY <1>4, <2>3, <2>5, <2>8, <2>9, <2>10
<1>5. CASE ~Fetch!Batched(r) /\ r.dataset # "securities"
  <2>. DEFINE calls == [i \in 1..Len(list) |-> <<list[i]>>]
  <2>1. Fetch!Calls(r) = calls
    BY <1>5 DEF Fetch!Calls
  <2>2. \A i \in 1..Len(list) : list[i] \in K /\ <<list[i]>> \in Seq(K)
    BY <1>1
  <2>3. calls \in Seq(Seq(K)) /\ DOMAIN calls = DOMAIN list
    BY <1>1, <2>2
  <2>4. Queued(calls) = {k \in K : \E i \in DOMAIN list : list[i] = k}
    <3>1. \A i \in DOMAIN list : DOMAIN calls[i] = {1} /\ calls[i][1] = list[i]
      BY <1>1
    <3>. HIDE DEF calls, list
    <3>. QED BY <2>3, <3>1 DEF Queued
  <2>5. Fetch!RequestedKeys(r) = {k \in K : \E i \in DOMAIN list : list[i] = k}
    BY <1>1, <1>5, <2>2 DEF Fetch!RequestedKeys
  <2>. QED BY <1>5, <2>1, <2>3, <2>4, <2>5
<1>. QED BY <1>3, <1>4, <1>5

(* The calls of the second pass name the symbols that are missing.         *)
LEMMA MissingCallsCover ==
  ASSUME Fetch!ProvidersAssumption, NEW r \in Fetch!Wanted, Fetch!Batched(r), NEW rows
  PROVE  /\ Fetch!MissingCalls(r, rows) \in Seq(Seq(Fetch!Keys))
         /\ Queued(Fetch!MissingCalls(r, rows)) = Fetch!MissingOf(r, rows)
         /\ \A i \in DOMAIN Fetch!MissingCalls(r, rows) : Fetch!MissingCalls(r, rows)[i] # <<>>
<1>. DEFINE list == r.symbols
            K == Fetch!Keys
            missing == Fetch!MissingOf(r, rows)
            some == Fetch!InOrder(list, missing)
<1>1. list \in Seq(K)
  BY DEF Fetch!Wanted, Fetch!ProvidersAssumption, Fetch!Keys
<1>2. BatchSize \in Nat /\ BatchSize > 0
  BY DEF Fetch!ProvidersAssumption
<1>3. Fetch!MissingCalls(r, rows) = Fetch!Chunks(some)
  BY DEF Fetch!MissingCalls
<1>4. missing \subseteq {x \in K : \E i \in DOMAIN list : list[i] = x}
  <2>1. Fetch!RequestedKeys(r) = {list[i] : i \in DOMAIN list}
    BY DEF Fetch!RequestedKeys, Fetch!Batched, Fetch!Wanted
  <2>2. \A i \in DOMAIN list : list[i] \in K
    BY <1>1
  <2>. QED BY <2>1, <2>2 DEF Fetch!MissingOf
<1>5. some \in Seq(K) /\ \A x \in K : (\E n \in DOMAIN some : some[n] = x)
                                       <=> (x \in missing /\ \E i \in DOMAIN list : list[i] = x)
  <2>. HIDE DEF list, K, missing
  <2>. QED BY <1>1, InOrderKeeps
<1>. HIDE DEF list, K, missing, some
<1>6. /\ Fetch!Chunks(some) \in Seq(Seq(K))
      /\ \A i \in DOMAIN Fetch!Chunks(some) : Fetch!Chunks(some)[i] # <<>>
      /\ \A x : (\E i \in DOMAIN Fetch!Chunks(some) : \E j \in DOMAIN Fetch!Chunks(some)[i] :
                    Fetch!Chunks(some)[i][j] = x)
                  <=> \E n \in DOMAIN some : some[n] = x
  BY <1>2, <1>5, ChunksCover
<1>7. Queued(Fetch!Chunks(some)) = missing
  BY <1>4, <1>5, <1>6 DEF Queued, K
<1>. QED BY <1>3, <1>6, <1>7 DEF K, missing

(* Making the call at the head leaves the rest to be made.                 *)
LEMMA QueueMoves ==
  ASSUME NEW q \in Seq(Seq(Fetch!Keys)), q # <<>>
  PROVE  /\ Head(q) \in Seq(Fetch!Keys) /\ Tail(q) \in Seq(Seq(Fetch!Keys))
         /\ Queued(q) = Fetch!ToSet(Head(q)) \cup Queued(Tail(q))
         /\ (\A i \in DOMAIN q : q[i] # <<>>) =>
              /\ Fetch!ToSet(Head(q)) # {}
              /\ \A i \in DOMAIN Tail(q) : Tail(q)[i] # <<>>
<1>. DEFINE K == Fetch!Keys
            rest == Tail(q)
<1>. HIDE DEF K
<1>1. Head(q) \in Seq(K) /\ rest \in Seq(Seq(K)) /\ Head(q) = q[1] /\ 1 \in DOMAIN q
  BY DEF K
<1>2. /\ \A i \in DOMAIN rest : i + 1 \in DOMAIN q /\ rest[i] = q[i + 1]
      /\ \A i \in DOMAIN q : i = 1 \/ (i - 1 \in DOMAIN rest /\ rest[i - 1] = q[i])
  BY DEF K
<1>3. Fetch!ToSet(Head(q)) = {k \in K : \E j \in DOMAIN q[1] : q[1][j] = k}
  BY <1>1 DEF Fetch!ToSet
<1>. HIDE DEF rest
<1>4. Queued(q) = Fetch!ToSet(Head(q)) \cup Queued(rest)
  <2>1. \A k \in Queued(q) : k \in Fetch!ToSet(Head(q)) \/ k \in Queued(rest)
    BY <1>2, <1>3 DEF Queued, K
  <2>2. \A k \in Queued(rest) : k \in Queued(q)
    BY <1>2 DEF Queued
  <2>3. \A k \in Fetch!ToSet(Head(q)) : k \in Queued(q)
    BY <1>1, <1>3 DEF Queued, K
  <2>. QED BY <2>1, <2>2, <2>3
<1>5. ASSUME \A i \in DOMAIN q : q[i] # <<>>
      PROVE  /\ Fetch!ToSet(Head(q)) # {}
             /\ \A i \in DOMAIN rest : rest[i] # <<>>
  <2>1. Head(q) # <<>>
    BY <1>1, <1>5
  <2>2. 1 \in DOMAIN Head(q)
    BY <1>1, <2>1
  <2>. QED BY <1>2, <1>5, <2>2 DEF Fetch!ToSet
<1>. QED BY <1>1, <1>4, <1>5 DEF K, rest

-----------------------------------------------------------------------------
(* The invariant. As long as no failure is to be told, every symbol of a   *)
(* batching request was named by a call or is still to be, and in the      *)
(* second pass every symbol no row is about by a second one.               *)

Reached ==
  IF again
  THEN \A s \in Fetch!MissingOf(request, got) :
         asked[s] = 2 \/ (s \in Queued(queue) /\ asked[s] >= 1)
  ELSE \A s \in Fetch!RequestedKeys(request) : asked[s] >= 1 \/ s \in Queued(queue)

Underway ==
  /\ Fetch!Batched(request) =>
       /\ \A i \in DOMAIN queue : queue[i] # <<>>
       /\ ~failures => Reached
  /\ request.service = "akshare" => got \cup Queued(queue) = Fetch!RequestedKeys(request)
  /\ request.service = "local" => queue = <<>>

FetchInv ==
  /\ Fetch!TypeOK
  /\ got = heard
  /\ ~content => heard = {}
  /\ again => content
  /\ refused # {} => failures
  /\ failures /\ ~again => refused # {}
  /\ request = None => /\ answer = None /\ queue = <<>> /\ ~again /\ attempt = 0
                       /\ got = {} /\ ~content /\ ~failures /\ refused = {}
  /\ request # None /\ answer = None => Underway
  /\ Fetch!ReportIsTrue

(* A call counts for what it names.                                        *)
LEMMA NamedCounts ==
  ASSUME asked \in [Fetch!Keys -> 0..2], NEW batch, Fetch!Named(batch)
  PROVE  /\ asked' \in [Fetch!Keys -> 0..2]
         /\ \A k \in Fetch!Keys : asked'[k] >= asked[k]
         /\ \A k \in Fetch!Keys : k \in Fetch!ToSet(batch) =>
              asked'[k] >= 1 /\ (asked[k] >= 1 => asked'[k] = 2)
BY DEF Fetch!Named

(* What a request asks for is among the keys, and so is what it misses.    *)
LEMMA KeysAsked ==
  ASSUME Fetch!ProvidersAssumption, NEW r \in Fetch!Wanted
  PROVE  /\ Fetch!RequestedKeys(r) \subseteq Fetch!Keys
         /\ \A rows : Fetch!MissingOf(r, rows) \subseteq Fetch!RequestedKeys(r)
         /\ \A rows, more : rows \subseteq more => Fetch!MissingOf(r, more) \subseteq Fetch!MissingOf(r, rows)
<1>1. r.symbols \in Seq(Symbols)
  BY DEF Fetch!Wanted, Fetch!ProvidersAssumption
<1>2. \A i \in DOMAIN r.symbols : r.symbols[i] \in Symbols
  BY <1>1
<1>. QED BY <1>2 DEF Fetch!RequestedKeys, Fetch!MissingOf, Fetch!Keys

(* Before a call was made nothing is queued and nothing was told.          *)
LEMMA NothingYet ==
  ASSUME Fetch!ProvidersAssumption, FetchInv, request # None
  PROVE  request \in Fetch!Wanted
BY DEF FetchInv, Fetch!TypeOK

(* Whatever is returned, nothing is done any more.                         *)
LEMMA ReturnKeeps ==
  ASSUME Fetch!ProvidersAssumption, FetchInv, request # None,
         NEW a \in Fetch!Answers, Fetch!Return(a), asked' \in [Fetch!Keys -> 0..2],
         Fetch!ReportIsTrue'
  PROVE  FetchInv'
<1>1. a # None
  BY DEF Fetch!ProvidersAssumption
<1>2. Fetch!TypeOK'
  BY DEF FetchInv, Fetch!TypeOK, Fetch!Return
<1>. QED BY <1>1, <1>2 DEF FetchInv, Fetch!Return

(* After the call at the head, whatever came of it, the others are to be   *)
(* made, and nothing is out of reach that was not.                         *)
LEMMA CallMade ==
  ASSUME Fetch!ProvidersAssumption, FetchInv, Fetch!Calling({"westock", "neodata"}),
         queue' = Tail(queue), UNCHANGED <<request, again, answer>>,
         got' \subseteq Fetch!Keys, got \subseteq got',
         failures => failures', ~failures' => Fetch!Named(Head(queue))
  PROVE  /\ Underway'
         /\ queue' \in Seq(Seq(Fetch!Keys)) /\ queue \in Seq(Seq(Fetch!Keys)) /\ queue # <<>>
         /\ Fetch!ToSet(Head(queue)) \subseteq Fetch!Keys
         /\ Fetch!ToSet(Head(queue)) # {}
<1>1. /\ request \in Fetch!Wanted /\ request # None /\ answer = None
      /\ queue \in Seq(Seq(Fetch!Keys)) /\ queue # <<>>
      /\ asked \in [Fetch!Keys -> 0..2]
      /\ request.service \in {"westock", "neodata"}
  BY DEF Fetch!Calling, FetchInv, Fetch!TypeOK
<1>2. Fetch!Batched(request) /\ request.service # "akshare" /\ request.service # "local"
  BY <1>1 DEF Fetch!Batched
<1>3. Underway
  BY <1>1 DEF FetchInv
<1>4. /\ Head(queue) \in Seq(Fetch!Keys) /\ queue' \in Seq(Seq(Fetch!Keys))
      /\ Queued(queue) = Fetch!ToSet(Head(queue)) \cup Queued(queue')
      /\ Fetch!ToSet(Head(queue)) # {}
      /\ \A i \in DOMAIN queue' : queue'[i] # <<>>
  <2>1. \A i \in DOMAIN queue : queue[i] # <<>>
    BY <1>2, <1>3 DEF Underway, Fetch!Batched
  <2>2. /\ Head(queue) \in Seq(Fetch!Keys) /\ Tail(queue) \in Seq(Seq(Fetch!Keys))
        /\ Queued(queue) = Fetch!ToSet(Head(queue)) \cup Queued(Tail(queue))
        /\ Fetch!ToSet(Head(queue)) # {}
        /\ \A i \in DOMAIN Tail(queue) : Tail(queue)[i] # <<>>
    BY <1>1, <2>1, QueueMoves
  <2>. QED BY <2>2
<1>5. Fetch!ToSet(Head(queue)) \subseteq Fetch!Keys
  <2>1. \A i \in DOMAIN Head(queue) : Head(queue)[i] \in Fetch!Keys
    BY <1>4
  <2>. QED BY <2>1 DEF Fetch!ToSet
<1>6. ASSUME ~failures' PROVE Reached'
  <2>1. Reached
    <3>1. ~failures
      BY <1>6
    <3>. QED BY <1>2, <1>3, <3>1 DEF Underway, Fetch!Batched
  <2>2. /\ \A k \in Fetch!Keys : asked'[k] >= asked[k]
        /\ \A k \in Fetch!Keys : k \in Fetch!ToSet(Head(queue)) =>
             asked'[k] >= 1 /\ (asked[k] >= 1 => asked'[k] = 2)
        /\ asked' \in [Fetch!Keys -> 0..2]
    BY <1>1, <1>6, NamedCounts
  <2>3. /\ Fetch!RequestedKeys(request) \subseteq Fetch!Keys
        /\ Fetch!MissingOf(request, got) \subseteq Fetch!RequestedKeys(request)
        /\ Fetch!MissingOf(request, got') \subseteq Fetch!MissingOf(request, got)
    BY <1>1, KeysAsked
  <2>4. CASE again
    <3>1. \A s \in Fetch!MissingOf(request, got) :
            asked'[s] = 2 \/ (s \in Queued(queue') /\ asked'[s] >= 1)
      <4>. SUFFICES ASSUME NEW s \in Fetch!MissingOf(request, got)
                    PROVE  asked'[s] = 2 \/ (s \in Queued(queue') /\ asked'[s] >= 1)
        OBVIOUS
      <4>1. s \in Fetch!Keys /\ asked[s] \in 0..2 /\ asked'[s] \in 0..2 /\ asked'[s] >= asked[s]
        BY <1>1, <2>2, <2>3
      <4>2. asked[s] = 2 \/ (s \in Queued(queue) /\ asked[s] >= 1)
        BY <2>1, <2>4 DEF Reached
      <4>3. s \in Queued(queue) => s \in Fetch!ToSet(Head(queue)) \/ s \in Queued(queue')
        BY <1>4
      <4>. QED BY <2>2, <4>1, <4>2, <4>3
    <3>2. \A s \in Fetch!MissingOf(request, got') :
            asked'[s] = 2 \/ (s \in Queued(queue') /\ asked'[s] >= 1)
      BY <2>3, <3>1
    <3>. QED BY <2>4, <3>2 DEF Reached
  <2>5. CASE ~again
    <3>1. \A s \in Fetch!RequestedKeys(request) : asked'[s] >= 1 \/ s \in Queued(queue')
      <4>. SUFFICES ASSUME NEW s \in Fetch!RequestedKeys(request)
                    PROVE  asked'[s] >= 1 \/ s \in Queued(queue')
        OBVIOUS
      <4>1. s \in Fetch!Keys /\ asked[s] \in 0..2 /\ asked'[s] \in 0..2 /\ asked'[s] >= asked[s]
        BY <1>1, <2>2, <2>3
      <4>2. asked[s] >= 1 \/ s \in Queued(queue)
        BY <2>1, <2>5 DEF Reached
      <4>3. s \in Queued(queue) => s \in Fetch!ToSet(Head(queue)) \/ s \in Queued(queue')
        BY <1>4
      <4>. QED BY <2>2, <4>1, <4>2, <4>3
    <3>. QED BY <2>5, <3>1 DEF Reached
  <2>. QED BY <2>4, <2>5
<1>7. Underway'
  BY <1>2, <1>4, <1>6 DEF Underway, Fetch!Batched
<1>. QED BY <1>1, <1>4, <1>5, <1>7

LEMMA InitFetch ==
  ASSUME Fetch!ProvidersAssumption, Fetch!Init
  PROVE  FetchInv
<1>1. 0 \in 0..(Attempts - 1) /\ <<>> \in Seq(Seq(Fetch!Keys))
  BY DEF Fetch!ProvidersAssumption
<1>2. Fetch!TypeOK
  <2>1. [k \in Fetch!Keys |-> 0] \in [Fetch!Keys -> 0..2]
    OBVIOUS
  <2>2. asked \in [Fetch!Keys -> 0..2] /\ queue \in Seq(Seq(Fetch!Keys)) /\ attempt \in 0..(Attempts - 1)
    BY <1>1, <2>1 DEF Fetch!Init
  <2>. QED BY <2>2 DEF Fetch!Init, Fetch!TypeOK
<1>3. Fetch!ReportIsTrue
  BY DEF Fetch!Init, Fetch!ReportIsTrue
<1>. QED BY <1>2, <1>3 DEF Fetch!Init, FetchInv

LEMMA BeginKeeps ==
  ASSUME Fetch!ProvidersAssumption, FetchInv, Fetch!Begin
  PROVE  FetchInv'
<1>1. PICK r \in Fetch!Wanted :
        /\ request' = r
        /\ queue' = IF Fetch!CallerError(r) \/ r.service = "local" THEN <<>> ELSE Fetch!Calls(r)
        /\ answer' = IF Fetch!CallerError(r) THEN Fetch!Raised ELSE None
  BY DEF Fetch!Begin
<1>2. /\ request = None /\ UNCHANGED <<again, attempt, got, content, failures, asked, heard, refused>>
      /\ r # None /\ <<>> \in Seq(Seq(Fetch!Keys))
  BY DEF Fetch!Begin, Fetch!ProvidersAssumption
<1>3. r.service # "local" =>
        /\ Fetch!Calls(r) \in Seq(Seq(Fetch!Keys))
        /\ Queued(Fetch!Calls(r)) = Fetch!RequestedKeys(r)
        /\ Fetch!Batched(r) => \A i \in DOMAIN Fetch!Calls(r) : Fetch!Calls(r)[i] # <<>>
  BY CallsCover
<1>4. Fetch!Raised \in Fetch!Answers /\ Fetch!Raised.status = "raised"
  BY DEF Fetch!Raised, Fetch!Answer, Fetch!Answers
<1>5. Fetch!TypeOK'
  <2>1. queue' \in Seq(Seq(Fetch!Keys)) /\ request' \in Fetch!Wanted
    BY <1>1, <1>2, <1>3
  <2>2. answer' \in Fetch!Answers \cup {None}
    BY <1>1, <1>4
  <2>. QED BY <1>2, <2>1, <2>2 DEF FetchInv, Fetch!TypeOK
<1>6. answer' = None => Underway'
  <2>. SUFFICES ASSUME answer' = None PROVE Underway'
    OBVIOUS
  <2>1. ~Fetch!CallerError(r)
    BY <1>1, <1>4 DEF Fetch!ProvidersAssumption
  <2>2. got' = {} /\ ~again' /\ request' = r
    BY <1>1, <1>2 DEF FetchInv
  <2>3. CASE r.service = "local"
    <3>1. queue' = <<>>
      BY <1>1, <2>3
    <3>2. request'.service = "local"
      BY <2>2, <2>3
    <3>. QED BY <3>1, <3>2 DEF Underway, Fetch!Batched
  <2>4. CASE r.service # "local"
    <3>1. queue' = Fetch!Calls(r)
      BY <1>1, <2>1, <2>4
    <3>2. /\ Queued(queue') = Fetch!RequestedKeys(r)
          /\ Fetch!Batched(r) => \A i \in DOMAIN queue' : queue'[i] # <<>>
      BY <1>3, <2>4, <3>1
    <3>3. Reached'
      BY <2>2, <3>2 DEF Reached, Fetch!RequestedKeys
    <3>4. got' \cup Queued(queue') = Fetch!RequestedKeys(request')
      BY <2>2, <3>2
    <3>5. Fetch!Batched(request') => \A i \in DOMAIN queue' : queue'[i] # <<>>
      BY <2>2, <3>2
    <3>. QED BY <2>2, <2>4, <3>3, <3>4, <3>5 DEF Underway, Fetch!Batched, Fetch!RequestedKeys
  <2>. QED BY <2>3, <2>4
<1>7. Fetch!ReportIsTrue'
  BY <1>1, <1>4 DEF Fetch!ReportIsTrue, Fetch!CoverageIsHonest, Fetch!EmptyIsExplained, Fetch!AllOrNothing
<1>. QED BY <1>1, <1>2, <1>5, <1>6, <1>7 DEF FetchInv

(* Rows of an answer are told of when they are collected.                  *)
LEMMA BatchAnsweredKeeps ==
  ASSUME Fetch!ProvidersAssumption, FetchInv, Fetch!BatchAnswered
  PROVE  FetchInv'
<1>1. PICK rows \in BOOLEAN, codes \in SUBSET Fetch!ToSet(Head(queue)) :
        /\ codes # {} => rows
        /\ got' = got \cup codes /\ heard' = heard \cup codes
        /\ content' = (content \/ rows)
  BY DEF Fetch!BatchAnswered
<1>2. /\ Fetch!Calling({"westock", "neodata"}) /\ Fetch!Named(Head(queue))
      /\ queue' = Tail(queue) /\ attempt' = 0
      /\ UNCHANGED <<request, again, failures, answer, refused>>
  BY DEF Fetch!BatchAnswered
<1>3. queue \in Seq(Seq(Fetch!Keys)) /\ queue # <<>> /\ asked \in [Fetch!Keys -> 0..2]
      /\ got \subseteq Fetch!Keys /\ heard \subseteq Fetch!Keys /\ request # None /\ answer = None
  BY <1>2 DEF FetchInv, Fetch!TypeOK, Fetch!Calling
<1>4. Fetch!ToSet(Head(queue)) \subseteq Fetch!Keys
  <2>1. Head(queue) \in Seq(Fetch!Keys)
    BY <1>3
  <2>2. \A i \in DOMAIN Head(queue) : Head(queue)[i] \in Fetch!Keys
    BY <2>1
  <2>. QED BY <2>2 DEF Fetch!ToSet
<1>5. got' \subseteq Fetch!Keys /\ got \subseteq got' /\ heard' \subseteq Fetch!Keys
  BY <1>1, <1>3, <1>4
<1>6. Underway' /\ queue' \in Seq(Seq(Fetch!Keys))
  BY <1>2, <1>5, CallMade
<1>7. asked' \in [Fetch!Keys -> 0..2]
  BY <1>2, <1>3, NamedCounts
<1>8. content' \in BOOLEAN /\ attempt' \in 0..(Attempts - 1)
  BY <1>1, <1>2 DEF FetchInv, Fetch!TypeOK, Fetch!ProvidersAssumption
<1>9. Fetch!TypeOK'
  BY <1>2, <1>5, <1>6, <1>7, <1>8 DEF FetchInv, Fetch!TypeOK
<1>10. Fetch!ReportIsTrue'
  BY <1>2, <1>3 DEF Fetch!ReportIsTrue
<1>11. got' = heard' /\ (~content' => heard' = {}) /\ (again' => content')
  BY <1>1, <1>2 DEF FetchInv
<1>. QED BY <1>2, <1>3, <1>6, <1>9, <1>10, <1>11 DEF FetchInv

(* A call that is given up is mentioned, unless it was made to top up.     *)
LEMMA GiveUpKeeps ==
  ASSUME Fetch!ProvidersAssumption, FetchInv, Fetch!Calling({"westock", "neodata"}),
         Fetch!GiveUp, UNCHANGED <<request, again, got, content, answer, heard>>,
         Fetch!Named(Head(queue)) \/ (request.service = "neodata" /\ UNCHANGED asked)
  PROVE  FetchInv'
<1>1. /\ failures' = (failures \/ ~again \/ request.service = "neodata")
      /\ refused' = IF again THEN refused ELSE refused \cup Fetch!ToSet(Head(queue))
      /\ queue' = Tail(queue) /\ attempt' = 0
  BY DEF Fetch!GiveUp
<1>2. /\ queue \in Seq(Seq(Fetch!Keys)) /\ queue # <<>> /\ asked \in [Fetch!Keys -> 0..2]
      /\ got \subseteq Fetch!Keys /\ request # None /\ answer = None
      /\ failures \in BOOLEAN /\ refused \subseteq Fetch!Keys
  BY DEF FetchInv, Fetch!TypeOK, Fetch!Calling
<1>3. /\ Underway' /\ queue' \in Seq(Seq(Fetch!Keys))
      /\ Fetch!ToSet(Head(queue)) \subseteq Fetch!Keys /\ Fetch!ToSet(Head(queue)) # {}
  BY <1>1, <1>2, CallMade
<1>4. asked' \in [Fetch!Keys -> 0..2]
  BY <1>2, NamedCounts
<1>5. failures' \in BOOLEAN /\ refused' \subseteq Fetch!Keys
  BY <1>1, <1>2, <1>3
<1>6. attempt' \in 0..(Attempts - 1)
  BY <1>1 DEF Fetch!ProvidersAssumption
<1>7. Fetch!TypeOK'
  BY <1>3, <1>4, <1>5, <1>6 DEF FetchInv, Fetch!TypeOK
<1>8. Fetch!ReportIsTrue'
  BY <1>2 DEF Fetch!ReportIsTrue
<1>9. (refused' # {} => failures') /\ (failures' /\ ~again' => refused' # {})
  BY <1>1, <1>3 DEF FetchInv
<1>. QED BY <1>2, <1>3, <1>7, <1>8, <1>9 DEF FetchInv

(* A failed call is made again, and counted, or given up.                  *)
LEMMA BatchFailedKeeps ==
  ASSUME Fetch!ProvidersAssumption, FetchInv, Fetch!BatchFailed
  PROVE  FetchInv'
<1>1. /\ Fetch!Calling({"westock", "neodata"}) /\ Fetch!Named(Head(queue))
      /\ UNCHANGED <<request, again, got, content, answer, heard>>
  BY DEF Fetch!BatchFailed
<1>2. CASE attempt + 1 < Attempts
  <2>1. attempt' = attempt + 1 /\ UNCHANGED <<queue, failures, refused>>
    BY <1>2 DEF Fetch!BatchFailed
  <2>2. /\ queue \in Seq(Seq(Fetch!Keys)) /\ queue # <<>> /\ asked \in [Fetch!Keys -> 0..2]
        /\ request # None /\ answer = None /\ request \in Fetch!Wanted
        /\ attempt \in 0..(Attempts - 1) /\ Attempts \in Nat
    BY <1>1 DEF FetchInv, Fetch!TypeOK, Fetch!Calling, Fetch!ProvidersAssumption
  <2>3. asked' \in [Fetch!Keys -> 0..2] /\ \A k \in Fetch!Keys : asked'[k] >= asked[k]
    BY <1>1, <2>2, NamedCounts
  <2>4. attempt' \in 0..(Attempts - 1)
    BY <1>2, <2>1, <2>2
  <2>5. Fetch!TypeOK'
    BY <1>1, <2>1, <2>3, <2>4 DEF FetchInv, Fetch!TypeOK
  <2>6. Fetch!ReportIsTrue'
    BY <1>1, <2>2 DEF Fetch!ReportIsTrue
  <2>7. Underway
    BY <2>2 DEF FetchInv
  <2>8. Reached => Reached'
    <3>. SUFFICES ASSUME Reached PROVE Reached'
      OBVIOUS
    <3>1. Fetch!RequestedKeys(request) \subseteq Fetch!Keys
          /\ Fetch!MissingOf(request, got) \subseteq Fetch!RequestedKeys(request)
      BY <2>2, KeysAsked
    <3>2. \A k \in Fetch!Keys : /\ asked[k] \in 0..2 /\ asked'[k] \in 0..2
                                /\ asked[k] >= 1 => asked'[k] >= 1
                                /\ asked[k] = 2 => asked'[k] = 2
      BY <2>2, <2>3
    <3>3. CASE again
      <4>1. ASSUME NEW s \in Fetch!MissingOf(request, got)
            PROVE  asked'[s] = 2 \/ (s \in Queued(queue) /\ asked'[s] >= 1)
        <5>1. s \in Fetch!Keys
          BY <3>1
        <5>2. asked[s] = 2 \/ (s \in Queued(queue) /\ asked[s] >= 1)
          BY <3>3 DEF Reached
        <5>3. (asked[s] >= 1 => asked'[s] >= 1) /\ (asked[s] = 2 => asked'[s] = 2)
          BY <3>2, <5>1
        <5>. QED BY <5>2, <5>3
      <4>. QED BY <1>1, <2>1, <3>3, <4>1 DEF Reached, Fetch!MissingOf, Fetch!RequestedKeys, Fetch!BySymbol
    <3>4. CASE ~again
      <4>1. ASSUME NEW s \in Fetch!RequestedKeys(request)
            PROVE  asked'[s] >= 1 \/ s \in Queued(queue)
        <5>1. s \in Fetch!Keys
          BY <3>1
        <5>2. asked[s] >= 1 \/ s \in Queued(queue)
          BY <3>4 DEF Reached
        <5>3. asked[s] >= 1 => asked'[s] >= 1
          BY <3>2, <5>1
        <5>. QED BY <5>2, <5>3
      <4>. QED BY <1>1, <2>1, <3>4, <4>1 DEF Reached, Fetch!RequestedKeys
    <3>. QED BY <3>3, <3>4
  <2>9. Underway'
    BY <1>1, <2>1, <2>7, <2>8 DEF Underway, Fetch!Batched, Fetch!RequestedKeys, Queued
  <2>. QED BY <1>1, <2>1, <2>2, <2>5, <2>6, <2>9 DEF FetchInv
<1>3. CASE ~(attempt + 1 < Attempts)
  <2>1. Fetch!GiveUp
    BY <1>3 DEF Fetch!BatchFailed
  <2>. QED BY <1>1, <2>1, GiveUpKeeps
<1>. QED BY <1>2, <1>3

(* A second pass is over the symbols no row is about.                      *)
LEMMA TopUpKeeps ==
  ASSUME Fetch!ProvidersAssumption, FetchInv, Fetch!TopUp
  PROVE  FetchInv'
<1>1. /\ request # None /\ answer = None /\ queue = <<>> /\ Fetch!Batched(request)
      /\ content /\ ~again /\ again' = TRUE
      /\ queue' = Fetch!MissingCalls(request, got)
      /\ UNCHANGED <<request, attempt, got, content, failures, answer, asked, heard, refused>>
  BY DEF Fetch!TopUp, Fetch!Through
<1>2. request \in Fetch!Wanted /\ asked \in [Fetch!Keys -> 0..2]
  BY <1>1 DEF FetchInv, Fetch!TypeOK
<1>3. Underway
  BY <1>1 DEF FetchInv
<1>4. /\ queue' \in Seq(Seq(Fetch!Keys))
      /\ Queued(queue') = Fetch!MissingOf(request, got)
      /\ \A i \in DOMAIN queue' : queue'[i] # <<>>
  BY <1>1, <1>2, MissingCallsCover
<1>5. ~failures => Reached'
  <2>. SUFFICES ASSUME ~failures PROVE Reached'
    OBVIOUS
  <2>1. Reached
    BY <1>1, <1>3 DEF Underway
  <2>2. Queued(queue) = {}
    BY <1>1 DEF Queued
  <2>3. \A s \in Fetch!RequestedKeys(request) : asked[s] >= 1
    BY <1>1, <2>1, <2>2 DEF Reached
  <2>4. Fetch!MissingOf(request, got) \subseteq Fetch!RequestedKeys(request)
    BY <1>2, KeysAsked
  <2>5. \A s \in Fetch!MissingOf(request, got) : s \in Queued(queue') /\ asked'[s] >= 1
    BY <1>1, <1>4, <2>3, <2>4
  <2>. QED BY <1>1, <2>5 DEF Reached, Fetch!MissingOf, Fetch!RequestedKeys, Fetch!BySymbol
<1>6. Underway'
  <2>1. request.service # "akshare" /\ request.service # "local"
    BY <1>1 DEF Fetch!Batched
  <2>. QED BY <1>1, <1>4, <1>5, <2>1 DEF Underway
<1>7. Fetch!TypeOK'
  BY <1>1, <1>4 DEF FetchInv, Fetch!TypeOK
<1>8. Fetch!ReportIsTrue'
  BY <1>1 DEF Fetch!ReportIsTrue
<1>. QED BY <1>1, <1>6, <1>7, <1>8 DEF FetchInv

(* A batching service delivers what was told, and names the rest.          *)
LEMMA DeliverKeeps ==
  ASSUME Fetch!ProvidersAssumption, FetchInv, Fetch!Deliver
  PROVE  FetchInv'
<1>. DEFINE a == Fetch!Answer("VALUE", got, Fetch!MissingOf(request, got), failures)
<1>1. /\ request # None /\ answer = None /\ queue = <<>> /\ Fetch!Batched(request)
      /\ again \/ Fetch!MissingOf(request, got) = {}
      /\ Fetch!Return(a) /\ UNCHANGED asked
  BY DEF Fetch!Deliver, Fetch!Through
<1>2. /\ request \in Fetch!Wanted /\ asked \in [Fetch!Keys -> 0..2]
      /\ got \subseteq Fetch!Keys /\ failures \in BOOLEAN
  BY <1>1 DEF FetchInv, Fetch!TypeOK
<1>3. Fetch!MissingOf(request, got) \subseteq Fetch!Keys
  BY <1>2, KeysAsked
<1>4. a \in Fetch!Answers
  BY <1>2, <1>3 DEF Fetch!Answer, Fetch!Answers
<1>5. ~failures => \A s \in Fetch!MissingOf(request, got) : asked[s] = 2
  <2>1. Underway
    BY <1>1 DEF FetchInv
  <2>2. Queued(queue) = {}
    BY <1>1 DEF Queued
  <2>. QED BY <1>1, <2>1, <2>2 DEF Underway, Reached
<1>6. Fetch!ReportIsTrue'
  <2>1. /\ answer' = a /\ a.status = "VALUE" /\ a.rows = got
        /\ a.missing = Fetch!MissingOf(request, got) /\ a.message = failures
        /\ UNCHANGED <<request, asked, got, heard, refused, failures>>
    BY <1>1 DEF Fetch!Return, Fetch!Answer
  <2>2. got = heard /\ (refused # {} => failures)
    BY DEF FetchInv
  <2>3. request.service # "akshare"
    BY <1>1 DEF Fetch!Batched
  <2>4. Fetch!CoverageIsHonest'
    <3>. SUFFICES ASSUME Fetch!BySymbol(request)
                  PROVE  /\ answer'.rows = heard
                         /\ answer'.missing = Fetch!RequestedKeys(request) \ heard
                         /\ refused # {} => answer'.message
                         /\ ~answer'.message => \A s \in answer'.missing : asked[s] = 2
      BY <2>1 DEF Fetch!CoverageIsHonest, Fetch!BySymbol, Fetch!RequestedKeys
    <3>1. Fetch!MissingOf(request, got) = Fetch!RequestedKeys(request) \ heard
      BY <2>2 DEF Fetch!MissingOf
    <3>. QED BY <1>5, <2>1, <2>2, <3>1
  <2>. QED BY <2>1, <2>3, <2>4 DEF Fetch!ReportIsTrue, Fetch!EmptyIsExplained, Fetch!AllOrNothing
<1>. QED BY <1>1, <1>2, <1>4, <1>6, ReturnKeeps

(* Nothing came: of a source that answered, or of one that did not.        *)
LEMMA NothingCameKeeps ==
  ASSUME Fetch!ProvidersAssumption, FetchInv, Fetch!NothingCame
  PROVE  FetchInv'
<1>. DEFINE status == IF failures THEN "SOURCE_ERROR" ELSE "NULL"
            a == Fetch!Emptied(request, status)
<1>1. /\ request # None /\ Fetch!Batched(request) /\ ~content
      /\ Fetch!Return(a) /\ UNCHANGED asked
  BY DEF Fetch!NothingCame, Fetch!Through
<1>2. request \in Fetch!Wanted /\ asked \in [Fetch!Keys -> 0..2]
  BY <1>1 DEF FetchInv, Fetch!TypeOK
<1>3. Fetch!RequestedKeys(request) \subseteq Fetch!Keys
  BY <1>2, KeysAsked
<1>4. a \in Fetch!Answers /\ a.status = status
  BY <1>1, <1>3 DEF Fetch!Emptied, Fetch!Answer, Fetch!Answers
<1>5. /\ heard = {} /\ ~again
      /\ refused # {} => failures
      /\ failures => refused # {}
  BY <1>1 DEF FetchInv
<1>6. Fetch!ReportIsTrue'
  <2>1. answer' = a /\ UNCHANGED <<request, heard, refused>>
    BY <1>1 DEF Fetch!Return
  <2>2. answer'.status = status /\ status # "VALUE"
    BY <1>4, <2>1
  <2>. QED BY <1>5, <2>1, <2>2
           DEF Fetch!ReportIsTrue, Fetch!CoverageIsHonest, Fetch!EmptyIsExplained, Fetch!AllOrNothing
<1>. QED BY <1>1, <1>2, <1>4, <1>6, ReturnKeeps

(* What raises, and what akshare and the local file return.                *)
LEMMA PlainReturns ==
  ASSUME Fetch!ProvidersAssumption, FetchInv, request # None,
         NEW a \in Fetch!Answers, Fetch!Return(a), asked' \in [Fetch!Keys -> 0..2],
         \/ a.status = "raised"
         \/ ~Fetch!Batched(request) /\ (request.service = "akshare" => a.status # "VALUE")
         \/ request.service = "akshare" /\ a.rows = Fetch!RequestedKeys(request)
  PROVE  FetchInv'
<1>1. answer' = a /\ request' = request
  BY DEF Fetch!Return
<1>2. request.service = "akshare" => ~Fetch!Batched(request)
  BY DEF Fetch!Batched
<1>3. Fetch!ReportIsTrue'
  BY <1>1, <1>2 DEF Fetch!ReportIsTrue, Fetch!CoverageIsHonest, Fetch!EmptyIsExplained,
       Fetch!AllOrNothing, Fetch!Batched, Fetch!RequestedKeys
<1>. QED BY <1>3, ReturnKeeps

(* The symbols akshare has no rows about yet are still to be called for.   *)
LEMMA SymbolAnsweredKeeps ==
  ASSUME Fetch!ProvidersAssumption, FetchInv, Fetch!SymbolAnswered
  PROVE  FetchInv'
<1>1. /\ request # None /\ answer = None /\ queue # <<>> /\ request.service = "akshare"
      /\ Fetch!Named(Head(queue))
      /\ got' = got \cup Fetch!ToSet(Head(queue)) /\ content' = TRUE
      /\ heard' = heard \cup Fetch!ToSet(Head(queue))
      /\ queue' = Tail(queue)
      /\ UNCHANGED <<request, again, attempt, failures, answer, refused>>
  BY DEF Fetch!SymbolAnswered, Fetch!Calling
<1>2. /\ queue \in Seq(Seq(Fetch!Keys)) /\ asked \in [Fetch!Keys -> 0..2]
      /\ got \subseteq Fetch!Keys /\ heard \subseteq Fetch!Keys
  BY DEF FetchInv, Fetch!TypeOK
<1>3. /\ Head(queue) \in Seq(Fetch!Keys) /\ Tail(queue) \in Seq(Seq(Fetch!Keys))
      /\ Queued(queue) = Fetch!ToSet(Head(queue)) \cup Queued(Tail(queue))
  BY <1>1, <1>2, QueueMoves
<1>4. Fetch!ToSet(Head(queue)) \subseteq Fetch!Keys
  <2>1. \A i \in DOMAIN Head(queue) : Head(queue)[i] \in Fetch!Keys
    BY <1>3
  <2>. QED BY <2>1 DEF Fetch!ToSet
<1>5. asked' \in [Fetch!Keys -> 0..2]
  BY <1>1, <1>2, NamedCounts
<1>6. got' \subseteq Fetch!Keys /\ heard' \subseteq Fetch!Keys /\ queue' \in Seq(Seq(Fetch!Keys))
  BY <1>1, <1>2, <1>3, <1>4
<1>7. Fetch!TypeOK'
  BY <1>1, <1>5, <1>6 DEF FetchInv, Fetch!TypeOK
<1>8. got \cup Queued(queue) = Fetch!RequestedKeys(request)
  BY <1>1 DEF FetchInv, Underway
<1>9. got' \cup Queued(queue') = Fetch!RequestedKeys(request)
  BY <1>1, <1>3, <1>8
<1>10. Underway'
  BY <1>1, <1>9 DEF Underway, Fetch!Batched, Fetch!RequestedKeys
<1>11. Fetch!ReportIsTrue'
  BY <1>1 DEF Fetch!ReportIsTrue
<1>12. got' = heard'
  BY <1>1 DEF FetchInv
<1>. QED BY <1>1, <1>7, <1>10, <1>11, <1>12 DEF FetchInv

(* Every answer akshare or the local file may give is a record of its kind.*)
LEMMA AnswersTyped ==
  ASSUME Fetch!ProvidersAssumption, NEW r \in Fetch!Wanted
  PROVE  /\ Fetch!Raised \in Fetch!Answers /\ Fetch!Raised.status = "raised"
         /\ \A status \in {"NULL", "SOURCE_ERROR"} :
              /\ Fetch!Emptied(r, status) \in Fetch!Answers
              /\ Fetch!Emptied(r, status).status = status
<1>1. Fetch!RequestedKeys(r) \subseteq Fetch!Keys
  BY KeysAsked
<1>. QED BY <1>1 DEF Fetch!Raised, Fetch!Emptied, Fetch!Answer, Fetch!Answers

LEMMA ReadFileKeeps ==
  ASSUME Fetch!ProvidersAssumption, FetchInv, Fetch!ReadFile
  PROVE  FetchInv'
<1>1. request # None /\ request.service = "local" /\ UNCHANGED asked
  BY DEF Fetch!ReadFile, Fetch!Through
<1>2. request \in Fetch!Wanted /\ asked \in [Fetch!Keys -> 0..2]
  BY <1>1 DEF FetchInv, Fetch!TypeOK
<1>3. PICK file \in {"absent", "unreadable", "no_header", "no_symbol_column", "table"},
           rows \in SUBSET Symbols :
        LET kept == rows \cap Fetch!ToSet(request.symbols)
        IN  Fetch!Return(CASE file \in {"absent", "unreadable"} -> Fetch!Emptied(request, "SOURCE_ERROR")
                           [] file = "no_header" -> Fetch!Emptied(request, "NULL")
                           [] file = "no_symbol_column" -> Fetch!Raised
                           [] OTHER -> Fetch!Answer(IF kept = {} THEN "NULL" ELSE "VALUE",
                                                    kept, {}, FALSE))
  BY DEF Fetch!ReadFile
<1>. DEFINE kept == rows \cap Fetch!ToSet(request.symbols)
            table == Fetch!Answer(IF kept = {} THEN "NULL" ELSE "VALUE", kept, {}, FALSE)
            a == CASE file \in {"absent", "unreadable"} -> Fetch!Emptied(request, "SOURCE_ERROR")
                   [] file = "no_header" -> Fetch!Emptied(request, "NULL")
                   [] file = "no_symbol_column" -> Fetch!Raised
                   [] OTHER -> table
<1>4. table \in Fetch!Answers
  <2>1. kept \subseteq Fetch!Keys
    BY DEF Fetch!Keys
  <2>. QED BY <2>1 DEF Fetch!Answer, Fetch!Answers
<1>5. a \in Fetch!Answers
  <2>. HIDE DEF table
  <2>. QED BY <1>2, <1>4, AnswersTyped
<1>6. Fetch!Return(a)
  BY <1>3
<1>7. ~Fetch!Batched(request) /\ request.service # "akshare"
  BY <1>1 DEF Fetch!Batched
<1>. HIDE DEF a
<1>. QED BY <1>1, <1>2, <1>5, <1>6, <1>7, PlainReturns

LEMMA FetchStep ==
  ASSUME Fetch!ProvidersAssumption, FetchInv, [Fetch!Next]_pvars
  PROVE  FetchInv'
<1>1. ASSUME request # None
      PROVE  request \in Fetch!Wanted /\ asked \in [Fetch!Keys -> 0..2]
  BY <1>1 DEF FetchInv, Fetch!TypeOK
<1>2. CASE UNCHANGED pvars
  BY <1>2 DEF pvars, FetchInv, Fetch!TypeOK, Underway, Reached, Queued, Fetch!MissingOf,
       Fetch!Batched, Fetch!BySymbol, Fetch!RequestedKeys, Fetch!ReportIsTrue,
       Fetch!CoverageIsHonest, Fetch!EmptyIsExplained, Fetch!AllOrNothing
<1>3. CASE Fetch!Begin
  BY <1>3, BeginKeeps
<1>4. CASE Fetch!BatchAnswered
  BY <1>4, BatchAnsweredKeeps
<1>5. CASE Fetch!BatchFailed
  BY <1>5, BatchFailedKeeps
<1>6. CASE Fetch!BatchUnreadable
  BY <1>6, GiveUpKeeps DEF Fetch!BatchUnreadable
<1>7. CASE Fetch!TokenRefused
  <2>1. /\ Fetch!Calling({"neodata"}) /\ Fetch!GiveUp
        /\ UNCHANGED <<request, again, got, content, answer, asked, heard>>
    BY <1>7 DEF Fetch!TokenRefused
  <2>2. Fetch!Calling({"westock", "neodata"}) /\ request.service = "neodata"
    BY <2>1 DEF Fetch!Calling
  <2>. QED BY <2>1, <2>2, GiveUpKeeps
<1>8. CASE Fetch!BodyCutOff
  <2>1. request # None /\ Fetch!Named(Head(queue)) /\ Fetch!Return(Fetch!Raised)
    BY <1>8 DEF Fetch!BodyCutOff, Fetch!Calling
  <2>2. asked' \in [Fetch!Keys -> 0..2]
    BY <1>1, <2>1, NamedCounts
  <2>. QED BY <1>1, <2>1, <2>2, AnswersTyped, PlainReturns
<1>9. CASE Fetch!NothingCame
  BY <1>9, NothingCameKeeps
<1>10. CASE Fetch!TopUp
  BY <1>10, TopUpKeeps
<1>11. CASE Fetch!Deliver
  BY <1>11, DeliverKeeps
<1>12. CASE Fetch!SymbolAnswered
  BY <1>12, SymbolAnsweredKeeps
<1>13. CASE Fetch!SymbolFailed
  <2>1. /\ request # None /\ request.service = "akshare" /\ Fetch!Named(Head(queue))
        /\ Fetch!Return(Fetch!Emptied(request, "SOURCE_ERROR"))
    BY <1>13 DEF Fetch!SymbolFailed, Fetch!Calling
  <2>2. asked' \in [Fetch!Keys -> 0..2]
    BY <1>1, <2>1, NamedCounts
  <2>3. /\ Fetch!Emptied(request, "SOURCE_ERROR") \in Fetch!Answers
        /\ Fetch!Emptied(request, "SOURCE_ERROR").status = "SOURCE_ERROR"
    BY <1>1, <2>1, AnswersTyped
  <2>4. ~Fetch!Batched(request)
    BY <2>1 DEF Fetch!Batched
  <2>. QED BY <2>1, <2>2, <2>3, <2>4, PlainReturns
<1>14. CASE Fetch!PackageAbsent
  <2>1. request # None /\ Fetch!Return(Fetch!Raised) /\ UNCHANGED asked
    BY <1>14 DEF Fetch!PackageAbsent, Fetch!Calling
  <2>. QED BY <1>1, <2>1, AnswersTyped, PlainReturns
<1>15. CASE Fetch!AllListed
  <2>1. /\ request # None /\ answer = None /\ queue = <<>> /\ request.service = "akshare"
        /\ Fetch!Return(Fetch!Answer("VALUE", got, {}, FALSE)) /\ UNCHANGED asked
    BY <1>15 DEF Fetch!AllListed, Fetch!Through
  <2>2. got = Fetch!RequestedKeys(request)
    <3>1. Underway
      BY <2>1 DEF FetchInv
    <3>2. Queued(queue) = {}
      BY <2>1 DEF Queued
    <3>. QED BY <2>1, <3>1, <3>2 DEF Underway
  <2>3. Fetch!Answer("VALUE", got, {}, FALSE) \in Fetch!Answers
        /\ Fetch!Answer("VALUE", got, {}, FALSE).rows = got
    BY DEF FetchInv, Fetch!TypeOK, Fetch!Answer, Fetch!Answers
  <2>. QED BY <1>1, <2>1, <2>2, <2>3, PlainReturns
<1>16. CASE Fetch!ReadFile
  BY <1>16, ReadFileKeeps
<1>. QED BY <1>2, <1>3, <1>4, <1>5, <1>6, <1>7, <1>8, <1>9, <1>10, <1>11, <1>12, <1>13, <1>14,
            <1>15, <1>16 DEF Fetch!Next, Fetch!Timed, Fetch!Untimed

LEMMA FetchAlways ==
  ASSUME Fetch!ProvidersAssumption
  PROVE  Fetch!Spec => []FetchInv
<1>1. Fetch!Init => FetchInv
  BY InitFetch
<1>2. FetchInv /\ [Fetch!Next]_Fetch!pvars => FetchInv'
  BY FetchStep DEF pvars, Fetch!pvars
<1>. QED BY <1>1, <1>2, PTL DEF Fetch!Spec

(* Every fetch is somewhere in its calls, and returns a record of the      *)
(* contract's kind, for any symbols, requests, batches and attempts.       *)
THEOREM FetchTypeCorrect ==
  ASSUME Fetch!ProvidersAssumption
  PROVE  Fetch!Spec => []Fetch!TypeOK
<1>1. FetchInv => Fetch!TypeOK
  BY DEF FetchInv
<1>. QED BY <1>1, FetchAlways, PTL

(* What a fetch reports is what its source said, however its calls failed, *)
(* were left unanswered in part or were made again                         *)
(* (westock.py, neodata.py, akshare_provider.py).                          *)
THEOREM ReportsAreTrue ==
  ASSUME Fetch!ProvidersAssumption
  PROVE  Fetch!Spec => []ReportIsTrue
<1>1. FetchInv => ReportIsTrue
  BY DEF FetchInv, Fetch!ReportIsTrue, Fetch!CoverageIsHonest, Fetch!EmptyIsExplained,
       Fetch!AllOrNothing, Fetch!Batched, Fetch!BySymbol, Fetch!RequestedKeys, ReportIsTrue,
       CoverageIsHonest, EmptyIsExplained, AllOrNothing, Batched, BySymbol, RequestedKeys
<1>. QED BY <1>1, FetchAlways, PTL
=============================================================================
