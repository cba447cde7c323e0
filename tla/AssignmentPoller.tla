--------------------------- MODULE AssignmentPoller ---------------------------
(***************************************************************************)
(* The part of node_loop.py that turns assignments into job tasks:         *)
(* `assignment_poller`, one `_job_wrapper` task per job behind the shared  *)
(* semaphore, and the way `start_daemon` brings them all down.             *)
(*                                                                         *)
(* Everything runs on one asyncio event loop, so an action is what happens *)
(* between two awaits.  A call that blocks the loop (CoFHE, inference) is  *)
(* part of the step that makes it; CofheBridge.tla asks what happens when  *)
(* such a call never returns.                                              *)
(*                                                                         *)
(* The coordinator (ICL) is outside src/: it may list any jobs in any      *)
(* order, list one twice, list one again later, refuse a claim, forget the *)
(* node, or fail.                                                          *)
(***************************************************************************)
EXTENDS Integers, Sequences, FiniteSets

CONSTANTS
  Jobs,        (* job identifiers the ICL hands out                        *)
  NoId,        (* what a listed assignment without a jobId reads as        *)
  Tasks,       (* task objects; a collected one is free for reuse          *)
  MaxPermits,  (* asyncio.Semaphore(2) of start_daemon                     *)
  MaxBatch     (* bound: longest list one poll returns                     *)

ASSUME PollerAssumption ==
  /\ NoId \notin Jobs
  /\ MaxPermits \in Nat \ {0}
  /\ MaxBatch \in Nat
  /\ IsFiniteSet(Tasks)

VARIABLES
  poller,    (* where assignment_poller stands                             *)
  rest,      (* listed jobs not yet dealt with; Head is the one claimed    *)
  inFlight,  (* `in_flight`                                                *)
  claimed,   (* `claimed`                                                  *)
  task,      (* life of every _job_wrapper task                            *)
  jobOf,     (* the job a task was created for                             *)
  queue,     (* the semaphore's waiters, first come first served           *)
  permits,   (* the semaphore's free permits                               *)
  shutdown,  (* the `shutdown` event                                       *)
  main       (* where start_daemon and the asyncio.run around it stand     *)

pollerVars == <<poller, rest, inFlight, claimed>>
taskVars   == <<task, jobOf, queue, permits>>
daemonVars == <<shutdown, main>>
vars       == <<pollerVars, taskVars, daemonVars>>

Ids == Jobs \union {NoId}

PollerStates == {"polling", "claiming", "reattesting", "sleeping", "done"}

(* created: scheduled, not yet run.  granted: woken with a permit, not yet *)
(* resumed.  cancelled: unwinding with its permit.  ended: finished, its   *)
(* done callback still to run.                                             *)
TaskStates == {"free", "created", "waiting", "granted", "running",
               "cancelled", "ended"}

MainStates == {"serving", "stopping", "closing", "closed"}

Batches == UNION {[1..n -> Ids] : n \in 0..MaxBatch}

TypeOK ==
  /\ poller \in PollerStates
  /\ rest \in Seq(Ids)
  /\ inFlight \in SUBSET Jobs
  /\ claimed \in SUBSET Jobs
  /\ task \in [Tasks -> TaskStates]
  /\ jobOf \in [Tasks -> Ids]
  /\ queue \in Seq(Tasks)
  /\ permits \in 0..MaxPermits
  /\ shutdown \in BOOLEAN
  /\ main \in MainStates

Init ==
  /\ poller = "polling"
  /\ rest = <<>>
  /\ inFlight = {}
  /\ claimed = {}
  /\ task = [t \in Tasks |-> "free"]
  /\ jobOf = [t \in Tasks |-> NoId]
  /\ queue = <<>>
  /\ permits = MaxPermits
  /\ shutdown = FALSE
  /\ main = "serving"

(***************************************************************************)
(* Derived sets.                                                           *)
(***************************************************************************)

(* Tasks whose coroutine has not finished. *)
Live == {t \in Tasks : task[t] \notin {"free", "ended"}}

(* Tasks that hold a permit of the semaphore. *)
Holders == {t \in Tasks : task[t] \in {"granted", "running", "cancelled"}}

(***************************************************************************)
(* assignment_poller.                                                      *)
(***************************************************************************)

(* Mutant of Busy: jobs whose claim failed are not remembered. *)
BusyForgetsInFlight(flying, taken) == taken \union {NoId}

(* Mutant of Busy: jobs already claimed are not remembered. *)
BusyForgetsClaimed(flying, taken) == flying \union {NoId}

(* The identifiers the for loop passes over. *)
Busy(flying, taken) == flying \union taken \union {NoId}

(* The for loop, from the list `s` up to its next await: entries that are  *)
(* busy now are skipped, the first that is not is claimed.  A shutdown     *)
(* seen at the loop's head breaks out of it.                               *)
NextJob(s, busy) ==
  IF shutdown
  THEN /\ rest' = <<>>
       /\ poller' = "sleeping"
  ELSE \E n \in 1..(Len(s) + 1) :
         /\ \A i \in 1..(n - 1) : s[i] \in busy
         /\ n <= Len(s) => s[n] \notin busy
         /\ rest' = SubSeq(s, n, Len(s))
         /\ poller' = IF n <= Len(s) THEN "claiming" ELSE "sleeping"

(* get_assignments answers with a list. *)
PollAnswered(batch) ==
  /\ poller = "polling"
  /\ NextJob(batch, Busy(inFlight, claimed))
  /\ UNCHANGED <<inFlight, claimed, taskVars, daemonVars>>

(* Mutant of PollFailed: the error is not caught and ends the poller. *)
PollFailedFatal(unknown) ==
  /\ poller = "polling"
  /\ poller' = IF unknown THEN "reattesting" ELSE "done"
  /\ UNCHANGED <<rest, inFlight, claimed, taskVars, daemonVars>>

(* get_assignments raises: an unknown node re-attests first, any other     *)
(* error is logged.                                                        *)
PollFailed(unknown) ==
  /\ poller = "polling"
  /\ poller' = IF unknown THEN "reattesting" ELSE "sleeping"
  /\ UNCHANGED <<rest, inFlight, claimed, taskVars, daemonVars>>

(* _re_attest returns, whatever its outcome. *)
Reattested ==
  /\ poller = "reattesting"
  /\ poller' = "sleeping"
  /\ UNCHANGED <<rest, inFlight, claimed, taskVars, daemonVars>>

(* claim_task answers or fails; the job's task is created either way, and  *)
(* the loop goes on to the next job.  The shutdown event is not looked at  *)
(* again before the task is created.                                       *)
ClaimAnswered(ok) ==
  /\ poller = "claiming"
  /\ LET job    == Head(rest)
         taken  == IF ok THEN claimed \union {job} ELSE claimed
         flying == inFlight \union {job}
     IN /\ claimed' = taken
        /\ inFlight' = flying
        /\ \E t \in Tasks :
             /\ task[t] = "free"
             /\ task' = [task EXCEPT ![t] = "created"]
             /\ jobOf' = [jobOf EXCEPT ![t] = job]
        /\ NextJob(Tail(rest), Busy(flying, taken))
  /\ UNCHANGED <<queue, permits, daemonVars>>

(* _sleep_or_shutdown ends: by the five seconds, or by the event. *)
Woken ==
  /\ poller = "sleeping"
  /\ poller' = IF shutdown THEN "done" ELSE "polling"
  /\ UNCHANGED <<rest, inFlight, claimed, taskVars, daemonVars>>

PollerStep ==
  \/ \E batch \in Batches : PollAnswered(batch)
  \/ \E unknown \in BOOLEAN : PollFailed(unknown)
  \/ Reattested
  \/ \E ok \in BOOLEAN : ClaimAnswered(ok)
  \/ Woken

(***************************************************************************)
(* _job_wrapper and the semaphore.                                         *)
(***************************************************************************)

(* Mutant of Enter: a created task starts whatever the semaphore holds. *)
EnterUnlimited(t) ==
  /\ task[t] = "created"
  /\ task' = [task EXCEPT ![t] = "running"]
  /\ permits' = permits - 1
  /\ UNCHANGED <<pollerVars, jobOf, queue, daemonVars>>

(* `async with sem`: a free permit is taken at once unless somebody is     *)
(* ahead, queued or woken and not yet resumed; otherwise the task queues.  *)
Enter(t) ==
  /\ task[t] = "created"
  /\ IF permits > 0 /\ queue = <<>> /\ \A u \in Tasks : task[u] # "granted"
     THEN /\ permits' = permits - 1
          /\ task' = [task EXCEPT ![t] = "running"]
          /\ UNCHANGED queue
     ELSE /\ queue' = Append(queue, t)
          /\ task' = [task EXCEPT ![t] = "waiting"]
          /\ UNCHANGED permits
  /\ UNCHANGED <<pollerVars, jobOf, daemonVars>>

(* Mutant of Resume: the woken waiter leaves the next one asleep. *)
ResumeWithoutWaking(t) ==
  /\ task[t] = "granted"
  /\ task' = [task EXCEPT ![t] = "running"]
  /\ UNCHANGED <<pollerVars, jobOf, queue, permits, daemonVars>>

(* A woken waiter resumes inside the semaphore and, should permits be left,*)
(* wakes the next one.                                                     *)
Resume(t) ==
  /\ task[t] = "granted"
  /\ IF permits > 0 /\ queue # <<>>
     THEN /\ permits' = permits - 1
          /\ task' = [task EXCEPT ![t] = "running", ![Head(queue)] = "granted"]
          /\ queue' = Tail(queue)
     ELSE /\ task' = [task EXCEPT ![t] = "running"]
          /\ UNCHANGED <<queue, permits>>
  /\ UNCHANGED <<pollerVars, jobOf, daemonVars>>

(* Mutant of EndAndRelease: the permit of an ended task is lost. *)
EndKeepingPermit(t) ==
  /\ task' = [task EXCEPT ![t] = "ended"]
  /\ UNCHANGED <<queue, permits>>

(* Mutant of EndAndRelease: the permit is put back and nobody is woken. *)
EndWithoutWaking(t) ==
  /\ permits' = permits + 1
  /\ task' = [task EXCEPT ![t] = "ended"]
  /\ UNCHANGED queue

(* Task t ends and leaves the `async with`: its permit goes to the first   *)
(* waiter, or back to the semaphore.                                       *)
EndAndRelease(t) ==
  IF queue = <<>>
  THEN /\ permits' = permits + 1
       /\ task' = [task EXCEPT ![t] = "ended"]
       /\ UNCHANGED queue
  ELSE /\ task' = [task EXCEPT ![t] = "ended", ![Head(queue)] = "granted"]
       /\ queue' = Tail(queue)
       /\ UNCHANGED permits

(* handle_job returns (it swallows its own failures) or wait_for cuts it   *)
(* off after 300 seconds: both leave the wrapper the same way.             *)
Leave(t) ==
  /\ task[t] = "running"
  /\ EndAndRelease(t)
  /\ UNCHANGED <<pollerVars, jobOf, daemonVars>>

(* A cancelled job finishes unwinding. *)
Unwind(t) ==
  /\ task[t] = "cancelled"
  /\ EndAndRelease(t)
  /\ UNCHANGED <<pollerVars, jobOf, daemonVars>>

(* Mutant of Collect: the callback is missing. *)
CollectWithoutDiscard(t) ==
  /\ task[t] = "ended"
  /\ task' = [task EXCEPT ![t] = "free"]
  /\ jobOf' = [jobOf EXCEPT ![t] = NoId]
  /\ UNCHANGED <<poller, rest, inFlight, claimed, queue, permits, daemonVars>>

(* The done callback: in_flight.discard, and the task object is dropped. *)
Collect(t) ==
  /\ task[t] = "ended"
  /\ inFlight' = inFlight \ {jobOf[t]}
  /\ task' = [task EXCEPT ![t] = "free"]
  /\ jobOf' = [jobOf EXCEPT ![t] = NoId]
  /\ UNCHANGED <<poller, rest, claimed, queue, permits, daemonVars>>

TaskStep(t) == Enter(t) \/ Resume(t) \/ Leave(t) \/ Unwind(t) \/ Collect(t)

(***************************************************************************)
(* start_daemon's way down, and asyncio.run's after it.                    *)
(***************************************************************************)

(* SIGINT or SIGTERM. *)
Signal ==
  /\ main = "serving"
  /\ ~shutdown
  /\ shutdown' = TRUE
  /\ UNCHANGED <<pollerVars, taskVars, main>>

(* Mutant of StopLoops: the poller is not cancelled. *)
StopWithoutCancel ==
  /\ main = "serving"
  /\ shutdown
  /\ main' = "stopping"
  /\ UNCHANGED <<pollerVars, taskVars, shutdown>>

(* start_daemon wakes up and cancels the loops: a cancelled poller does    *)
(* nothing more, whatever it was waiting for.                              *)
StopLoops ==
  /\ main = "serving"
  /\ shutdown
  /\ main' = "stopping"
  /\ poller' = "done"
  /\ rest' = <<>>
  /\ UNCHANGED <<inFlight, claimed, taskVars, shutdown>>

(* Mutant of CancelJobs: waiters are dropped from the queue, not cancelled. *)
CancelForgetsWaiters ==
  /\ main = "stopping"
  /\ main' = "closing"
  /\ task' = [t \in Tasks |->
                CASE task[t] = "created" -> "ended"
                  [] task[t] \in {"granted", "running"} -> "cancelled"
                  [] OTHER -> task[t]]
  /\ queue' = <<>>
  /\ UNCHANGED <<pollerVars, jobOf, permits, shutdown>>

(* start_daemon returned; asyncio.run cancels every job task still alive.  *)
(* One that does not run yet ends without touching the semaphore's permits.*)
CancelJobs ==
  /\ main = "stopping"
  /\ main' = "closing"
  /\ task' = [t \in Tasks |->
                CASE task[t] \in {"created", "waiting"} -> "ended"
                  [] task[t] \in {"granted", "running"} -> "cancelled"
                  [] OTHER -> task[t]]
  /\ queue' = <<>>
  /\ UNCHANGED <<pollerVars, jobOf, permits, shutdown>>

CloseLoop ==
  /\ main = "closing"
  /\ Live = {}
  /\ main' = "closed"
  /\ UNCHANGED <<pollerVars, taskVars, shutdown>>

DaemonStep == StopLoops \/ CancelJobs \/ CloseLoop

(* The process is gone: nothing happens any more. *)
Exited ==
  /\ main = "closed"
  /\ UNCHANGED vars

Next ==
  \/ PollerStep
  \/ \E t \in Tasks : TaskStep(t)
  \/ Signal
  \/ DaemonStep
  \/ Exited

(* The event loop runs whatever is ready, first come first served; every   *)
(* await of the poller is bounded by a client timeout or the sleep, and a  *)
(* job by wait_for.  No signal ever has to come.                           *)
Fairness ==
  /\ WF_vars(PollerStep)
  /\ \A t \in Tasks : WF_vars(TaskStep(t))
  /\ WF_vars(DaemonStep)

Spec == Init /\ [][Next]_vars

FairSpec == Spec /\ Fairness

(***************************************************************************)
(* Properties.                                                             *)
(***************************************************************************)

(* A job never has two tasks, listed twice in one answer, listed again by  *)
(* the next poll or after its claim failed: `in_flight` is read before the *)
(* await of claim_task and written after it, and cleared by a callback     *)
(* that runs later than the task it belongs to (node_loop.py 236-257).     *)
OneTaskPerJob ==
  \A t, u \in Tasks :
    /\ task[t] # "free"
    /\ task[u] # "free"
    /\ jobOf[t] = jobOf[u]
    => t = u

(* `in_flight` is the jobs of the tasks not yet collected: a job left in   *)
(* it would never run again, one missing from it could run twice.          *)
InFlightExact ==
  inFlight = {jobOf[t] : t \in {u \in Tasks : task[u] # "free"}}

(* The semaphore's permits are either free or with a task that will give   *)
(* them back, through returns, timeouts and cancellations alike.           *)
PermitConservation == permits + Cardinality(Holders) = MaxPermits

(* No lost wake-up: while a permit is free and somebody queues for it, a   *)
(* task that was woken is on its way to hand it on.                        *)
NoLostWakeup ==
  permits > 0 /\ queue # <<>> => \E t \in Tasks : task[t] = "granted"

(* A job whose claim the ICL confirmed is given to a task only once: no    *)
(* task is created for a job that is already in `claimed`.                 *)
ClaimedRunsOnce ==
  [][\A t \in Tasks :
       task[t] = "free" /\ task'[t] # "free" => jobOf'[t] \notin claimed]_vars

(* Once start_daemon has stopped its loops no job task is created, though  *)
(* a claim may be answered between the signal and that moment.             *)
NoSpawnWhenStopping ==
  [][main # "serving" =>
       \A t \in Tasks : task[t] = "free" => task'[t] = "free"]_vars

(* Every job task ends and is collected, the ones behind a full semaphore  *)
(* too: a job is cut off after five minutes and its permit handed on.      *)
EveryTaskIsCollected ==
  \A t \in Tasks : task[t] # "free" ~> task[t] = "free"

(* Failed polls, refused claims and re-attestations never stop the poller: *)
(* it asks the ICL again until it is shut down.                            *)
PollerKeepsPolling == poller # "polling" ~> poller = "polling" \/ shutdown

(* A signal brings the whole daemon down, whatever the jobs were doing.    *)
ShutdownCompletes == shutdown ~> main = "closed"

(* The docstring of assignment_poller (node_loop.py 214-216): an           *)
(* assignment is skipped as a duplicate because "the first task is still   *)
(* alive".                                                                 *)
SkippedJobIsAlive ==
  \A j \in Busy(inFlight, claimed) \ {NoId} :
    \E t \in Tasks : task[t] # "free" /\ jobOf[t] = j

(* The jobs as JobPool sees them: a woken waiter has not started, a        *)
(* cancelled task works no more.                                           *)
PhaseOf(j) ==
  LET own == {t \in Tasks : task[t] # "free" /\ jobOf[t] = j}
      state == task[CHOOSE t \in own : TRUE]
  IN CASE own = {} -> "idle"
       [] own # {} /\ state \in {"created", "waiting", "granted"} -> "queued"
       [] own # {} /\ state = "running" -> "running"
       [] OTHER -> "ended"

Pool == INSTANCE JobPool WITH
          Limit <- MaxPermits,
          phase <- [j \in Jobs |-> PhaseOf(j)],
          spent <- claimed,
          open  <- main = "serving"

(* The poller, its tasks and the semaphore implement the job pool. *)
ImplementsJobPool == Pool!Spec
===============================================================================
