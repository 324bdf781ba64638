------------------------------- MODULE MCRecords ------------------------------
(***************************************************************************)
(* What a person keeps: the ledger of the trade gate and the watchlist.    *)
(* They have no file in common, so a behaviour is about one of them, and   *)
(* `scene` tells which:                                                    *)
(*   ledger   two processes, two contents under one id                     *)
(*   watch    two processes, one command at a time or any mix              *)
(* A process may be killed anywhere.                                       *)
(***************************************************************************)
EXTENDS TradeLedger, WatchEntry, TLC

CONSTANTS i1, e1, e2, l1, o1, x1, w1, c1, c2, p1, p2, t1

VARIABLE scene  \* never changes

Watch == INSTANCE Watchlist

(* Processes, evaluation ids and contents are interchangeable. *)
Interchangeable ==
  Permutations(Proc) \cup Permutations(Shell) \cup Permutations(EvaluationKey) \cup Permutations(Content)

ledgerVars == <<file, step, pending, answer>>

MCInit ==
  /\ scene \in {"ledger", "watch"}
  /\ Init
  /\ Watch!Init
  /\ scene # "watch" => single

MCNext ==
  /\ \/ scene = "ledger" /\ Next /\ UNCHANGED watchVars
     \/ scene = "watch" /\ Watch!Next /\ UNCHANGED ledgerVars
  /\ UNCHANGED scene

MCSpec == MCInit /\ [][MCNext]_<<scene, ledgerVars, watchVars>>

(* Every state is well typed.                                              *)
Typed == IF scene = "ledger" THEN TypeOK ELSE Watch!TypeOK
=============================================================================
