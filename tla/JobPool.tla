------------------------------- MODULE JobPool --------------------------------
(***************************************************************************)
(* What assignment_poller and its semaphore promise about jobs, without    *)
(* polls, tasks, waiters or callbacks: a job is in one place at a time, a  *)
(* job admitted for good is never admitted again, no more than Limit jobs  *)
(* run at once, and a closed pool admits nothing.                          *)
(***************************************************************************)
EXTENDS Integers, FiniteSets

CONSTANTS
  Jobs,   (* the jobs there may be                                         *)
  Limit   (* how many may run at once                                      *)

VARIABLES
  phase,  (* where each job is                                             *)
  spent,  (* jobs that will not be admitted again                          *)
  open    (* whether the pool still admits jobs                            *)

vars == <<phase, spent, open>>

Running == {j \in Jobs : phase[j] = "running"}

Init ==
  /\ phase = [j \in Jobs |-> "idle"]
  /\ spent = {}
  /\ open = TRUE

Move(j, from, to) ==
  /\ phase[j] = from
  /\ phase' = [phase EXCEPT ![j] = to]

(* A job comes in; a claim the coordinator confirmed spends it. *)
Admit(j) ==
  /\ open
  /\ j \notin spent
  /\ Move(j, "idle", "queued")
  /\ spent' \in {spent, spent \union {j}}
  /\ UNCHANGED open

Start(j) ==
  /\ Cardinality(Running) < Limit
  /\ Move(j, "queued", "running")
  /\ UNCHANGED <<spent, open>>

Finish(j) ==
  /\ Move(j, "running", "ended")
  /\ UNCHANGED <<spent, open>>

(* The pool forgets an ended job: it could be admitted again. *)
Forget(j) ==
  /\ Move(j, "ended", "idle")
  /\ UNCHANGED <<spent, open>>

Close ==
  /\ open
  /\ open' = FALSE
  /\ UNCHANGED <<phase, spent>>

(* Whatever a closed pool still holds is cut short. *)
Abort ==
  /\ ~open
  /\ phase' = [j \in Jobs |->
                 IF phase[j] \in {"queued", "running"} THEN "ended" ELSE phase[j]]
  /\ UNCHANGED <<spent, open>>

Next ==
  \/ \E j \in Jobs : Admit(j) \/ Start(j) \/ Finish(j) \/ Forget(j)
  \/ Close
  \/ Abort

Spec == Init /\ [][Next]_vars
===============================================================================
