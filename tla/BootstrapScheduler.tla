------------------------- MODULE BootstrapScheduler -------------------------
(***************************************************************************)
(* fetch_symbols_bounded (data/bootstrap_scheduler.py): the scheduler that *)
(* fetches many symbols with at most MaxInflight calls in flight and a     *)
(* wall-clock deadline per call.                                           *)
(*                                                                         *)
(* One thread of control submits and polls; the workers run concurrently   *)
(* with it and talk to it only through one result queue each.              *)
(*                                                                         *)
(* Simplifications: the order of the caller's list is arbitrary, so the    *)
(* next symbol to submit is any that was not submitted (a set also removes *)
(* the duplicates, as dict.fromkeys does); a poll visits the calls in      *)
(* flight in any order; time is the set of the calls whose deadline has    *)
(* passed, and each may pass at any moment.                                *)
(*                                                                         *)
(* A definition whose name ends in an underscore and a word                *)
(* (Stopped_LeftRunning) is a plausible slip in the definition after it.   *)
(* No action uses one; each shows that a property would notice it.         *)
(***************************************************************************)
EXTENDS FetchCall

-----------------------------------------------------------------------------
TypeOK ==
  /\ processIsolated \in BOOLEAN
  /\ phase \in {"submit", "poll", "done"}
  /\ pending \subseteq Called
  /\ active \subseteq Called
  /\ unpolled \subseteq active
  /\ looking \in active \cup {Nobody}
  /\ roundCompleted \in BOOLEAN
  /\ roundTimedOut \in BOOLEAN
  /\ draining \in BOOLEAN
  /\ exhausted \in BOOLEAN
  /\ running \subseteq Called
  /\ mailbox \in [Called -> Messages \cup {Nothing}]
  /\ expired \subseteq Called
  /\ verdict \in [Called -> Messages \cup {Nothing, Timeout}]
  /\ submitted \in Nat /\ completed \in Nat /\ timedOut \in Nat
  /\ sourceErrors \in Nat /\ maxObserved \in Nat
  /\ unheard \in Nat

Init ==
  /\ processIsolated \in BOOLEAN
  /\ phase = "submit"
  /\ pending = Called
  /\ active = {}
  /\ unpolled = {}
  /\ looking = Nobody
  /\ roundCompleted = FALSE
  /\ roundTimedOut = FALSE
  /\ draining = FALSE
  /\ exhausted = FALSE
  /\ running = {}
  /\ mailbox = [s \in Called |-> Nothing]
  /\ expired = {}
  /\ verdict = [s \in Called |-> Nothing]
  /\ submitted = 0 /\ completed = 0 /\ timedOut = 0
  /\ sourceErrors = 0 /\ maxObserved = 0
  /\ unheard = 0

-----------------------------------------------------------------------------
(* submit_until_full, one pass of its loop; it is only called when the     *)
(* scheduler is not draining.                                              *)

MaySubmit == ~draining /\ ~exhausted /\ Cardinality(active) < MaxInflight

Submit(s) ==
  /\ phase = "submit"
  /\ MaySubmit
  /\ s \in pending
  /\ pending' = pending \ {s}
  /\ active' = active \cup {s}
  /\ running' = running \cup {s}
  /\ submitted' = submitted + 1
  /\ maxObserved' = IF Cardinality(active') > maxObserved
                    THEN Cardinality(active') ELSE maxObserved
  /\ UNCHANGED <<phase, unpolled, looking, roundCompleted, roundTimedOut,
                 draining, exhausted, mailbox, expired, verdict, completed,
                 timedOut, sourceErrors, unheard>>

Exhaust ==  \* StopIteration
  /\ phase = "submit"
  /\ MaySubmit
  /\ pending = {}
  /\ exhausted' = TRUE
  /\ UNCHANGED <<phase, pending, active, unpolled, looking, roundCompleted,
                 roundTimedOut, draining, verdict, stats, unheard, workerVars>>

BeginRound ==
  /\ phase = "submit"
  /\ ~MaySubmit
  /\ active # {}
  /\ phase' = "poll"
  /\ unpolled' = active
  /\ roundCompleted' = FALSE
  /\ roundTimedOut' = FALSE
  /\ UNCHANGED <<pending, active, looking, draining, exhausted, verdict,
                 stats, unheard, workerVars>>

Return ==
  /\ phase = "submit"
  /\ ~MaySubmit
  /\ active = {}
  /\ phase' = "done"
  /\ UNCHANGED <<pending, active, unpolled, looking, roundCompleted,
                 roundTimedOut, draining, exhausted, verdict, stats, unheard,
                 workerVars>>

-----------------------------------------------------------------------------
(* One visit of the poll. _read_message and the deadline check are two     *)
(* steps: an answer may arrive between them, and is then lost.             *)

Visiting(s) == phase = "poll" /\ looking = Nobody /\ s \in unpolled

Stopped_LeftRunning(s) == running  \* the worker is not terminated

(* A worker process that was terminated or reaped executes nothing more; a *)
(* thread cannot be stopped and runs on.                                   *)
Stopped(s) == IF processIsolated THEN running \ {s} ELSE running

Unvisited(s) == unpolled \ {s}

InFlightWithout(s) == active \ {s}

Told(s, v) == [verdict EXCEPT ![s] = v]

IsSourceError(v) == v \in {"error", Timeout}

Overdue(s) == s \in expired

Retire(s, v) ==
  /\ active' = InFlightWithout(s)
  /\ unpolled' = Unvisited(s)
  /\ looking' = Nobody
  /\ running' = Stopped(s)
  /\ verdict' = Told(s, v)
  /\ completed' = completed + 1
  /\ timedOut' = IF v = Timeout THEN timedOut + 1 ELSE timedOut
  /\ sourceErrors' = IF IsSourceError(v) THEN sourceErrors + 1 ELSE sourceErrors
  /\ UNCHANGED <<phase, pending, draining, exhausted, mailbox, expired,
                 submitted, maxObserved>>

TakeMessage(s) ==
  /\ Visiting(s)
  /\ mailbox[s] # Nothing
  /\ Retire(s, mailbox[s])
  /\ roundCompleted' = TRUE
  /\ unheard' = 0
  /\ UNCHANGED roundTimedOut

FindNoMessage(s) ==
  /\ Visiting(s)
  /\ mailbox[s] = Nothing
  /\ looking' = s
  /\ UNCHANGED <<phase, pending, active, unpolled, roundCompleted,
                 roundTimedOut, draining, exhausted, verdict, stats, unheard,
                 workerVars>>

GiveUp(s) ==
  /\ phase = "poll" /\ looking = s
  /\ Overdue(s)
  /\ Retire(s, Timeout)
  /\ roundTimedOut' = TRUE
  /\ unheard' = unheard + 1
  /\ UNCHANGED roundCompleted

KeepWaiting(s) ==
  /\ phase = "poll" /\ looking = s
  /\ ~Overdue(s)
  /\ looking' = Nobody
  /\ unpolled' = Unvisited(s)
  /\ UNCHANGED <<phase, pending, active, roundCompleted, roundTimedOut,
                 draining, exhausted, verdict, stats, unheard, workerVars>>

SilentRound_AnyTimeout == roundTimedOut  \* answers of the poll are ignored

SilentRound == roundTimedOut /\ ~roundCompleted

SourceGone == SilentRound /\ active = {}

EndRound ==
  /\ phase = "poll"
  /\ looking = Nobody
  /\ unpolled = {}
  /\ phase' = "submit"
  /\ draining' = (SilentRound \/ (draining /\ ~roundCompleted))
  /\ exhausted' = (exhausted \/ SourceGone)
  /\ UNCHANGED <<pending, active, unpolled, looking, roundCompleted,
                 roundTimedOut, verdict, stats, unheard, workerVars>>

-----------------------------------------------------------------------------
(* The workers and the clock. A worker that never answers (a hung          *)
(* connection, a killed process) simply takes no step.                     *)

Answer(s, m) ==  \* _fetch_in_worker puts its one message
  /\ s \in running
  /\ mailbox[s] = Nothing
  /\ mailbox' = [mailbox EXCEPT ![s] = m]
  /\ running' = running \ {s}
  /\ UNCHANGED <<expired, loopVars>>

DeadlinePasses(s) ==
  /\ s \in active
  /\ s \notin expired
  /\ expired' = expired \cup {s}
  /\ UNCHANGED <<running, mailbox, loopVars>>

Scheduler ==
  \/ \E s \in Called : \/ Submit(s) \/ TakeMessage(s) \/ FindNoMessage(s)
                       \/ GiveUp(s) \/ KeepWaiting(s)
  \/ Exhaust \/ BeginRound \/ EndRound \/ Return

Environment ==
  \E s \in Called : DeadlinePasses(s) \/ \E m \in Messages : Answer(s, m)

Next == (Scheduler \/ Environment) /\ UNCHANGED processIsolated

(* The scheduler's loop never blocks and the clock never stops; nothing is *)
(* assumed of the workers.                                                 *)
Fairness ==
  /\ WF_callVars(Scheduler /\ UNCHANGED processIsolated)
  /\ \A s \in Called : WF_callVars(DeadlinePasses(s) /\ UNCHANGED processIsolated)

Spec == Init /\ [][Next]_callVars
FairSpec == Spec /\ Fairness

-----------------------------------------------------------------------------
(* What is asked of a call is in FetchCall; besides: *)

(* The call gives up on symbols it never submitted only after a full width *)
(* of calls timed out with no answer between them.                         *)
GivesUpOnlyOnSilence ==
  phase = "done" /\ pending # {} => unheard >= MaxInflight

(* However many workers hang, the call returns. *)
AlwaysReturns == <>(phase = "done")
=============================================================================
