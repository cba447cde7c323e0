------------------------ MODULE AssignmentPollerProofs ------------------------
(***************************************************************************)
(* The safety properties of AssignmentPoller, for every set of jobs and of *)
(* tasks, every number of permits and every length of an answer, and that  *)
(* the poller implements JobPool.                                          *)
(***************************************************************************)
EXTENDS AssignmentPoller, FiniteSetTheorems, FunctionTheorems, SequenceTheorems, TLAPS

(* The queue holds waiting tasks, each once. *)
QueueOK ==
  /\ \A i \in DOMAIN queue : task[queue[i]] = "waiting"
  /\ \A i, k \in DOMAIN queue : queue[i] = queue[k] => i = k

(* The job being claimed is one the loop would not pass over now: only the *)
(* poller adds to in_flight and claimed, and it is suspended.              *)
ClaimFresh ==
  poller = "claiming" => /\ rest # <<>>
                         /\ Head(rest) \notin Busy(inFlight, claimed)

(* A task that is not free belongs to a job. *)
TaskHasJob == \A t \in Tasks : task[t] # "free" => jobOf[t] \in Jobs

PollerStopped == main # "serving" => poller = "done"

IInv ==
  /\ TypeOK
  /\ QueueOK
  /\ ClaimFresh
  /\ TaskHasJob
  /\ PollerStopped
  /\ OneTaskPerJob
  /\ InFlightExact
  /\ PermitConservation
  /\ NoLostWakeup

-------------------------------------------------------------------------------

(* Where the for loop stops next: a list of identifiers whose head, if the *)
(* loop stops to claim it, is not busy.                                    *)
LEMMA NextJobStops ==
  ASSUME NEW s \in Seq(Ids), NEW busy, shutdown \in BOOLEAN, NextJob(s, busy)
  PROVE  /\ rest' \in Seq(Ids)
         /\ poller' \in {"claiming", "sleeping"}
         /\ poller' = "claiming" => rest' # <<>> /\ Head(rest') \notin busy
<1>1. CASE shutdown
  BY <1>1 DEF NextJob
<1>2. CASE ~shutdown
  <2>1. PICK n \in 1..(Len(s) + 1) :
          /\ n <= Len(s) => s[n] \notin busy
          /\ rest' = SubSeq(s, n, Len(s))
          /\ poller' = IF n <= Len(s) THEN "claiming" ELSE "sleeping"
    BY <1>2 DEF NextJob
  <2>2. Len(s) \in Nat /\ n \in Nat
    OBVIOUS
  <2>3. rest' \in Seq(Ids)
    <3>1. \A i \in n..Len(s) : s[i] \in Ids
      BY <2>2
    <3>2. QED
      BY <2>1, <2>2, <3>1, SubSeqProperties
  <2>4. ASSUME n <= Len(s)
        PROVE  rest' # <<>> /\ Head(rest') = s[n]
    <3>1. Head(SubSeq(s, n, Len(s))) = s[n]
      BY <2>2, <2>4, HeadTailOfSubSeq
    <3>2. Len(SubSeq(s, n, Len(s))) = Len(s) - n + 1
      BY <2>2, <2>4
    <3>3. SubSeq(s, n, Len(s)) # <<>>
      BY ONLY <2>2, <2>4, <3>2, Len(<<>>) = 0
    <3>4. QED
      BY <2>1, <3>1, <3>3
  <2>5. QED
    BY <2>1, <2>3, <2>4
<1>3. QED
  BY <1>1, <1>2

(* The permit holders are finitely many. *)
LEMMA HoldersFinite == IsFiniteSet(Holders) /\ Cardinality(Holders) \in Nat
  BY PollerAssumption, FS_Subset, FS_CardinalityType DEF Holders

(* Without its head the queue still holds waiting tasks, each once, and    *)
(* none of them is the old head.                                           *)
LEMMA TailWaits ==
  ASSUME TypeOK, QueueOK, queue # <<>>
  PROVE  /\ Head(queue) \in Tasks
         /\ task[Head(queue)] = "waiting"
         /\ Tail(queue) \in Seq(Tasks)
         /\ \A i \in DOMAIN Tail(queue) :
              /\ task[Tail(queue)[i]] = "waiting"
              /\ Tail(queue)[i] # Head(queue)
              /\ Tail(queue)[i] \in Tasks
         /\ \A i, k \in DOMAIN Tail(queue) :
              Tail(queue)[i] = Tail(queue)[k] => i = k
<1>1. queue \in Seq(Tasks)
  BY DEF TypeOK
<1>2. /\ Tail(queue) \in Seq(Tasks)
      /\ Len(queue) \in Nat \ {0}
      /\ Len(Tail(queue)) = Len(queue) - 1
      /\ \A i \in 1..Len(Tail(queue)) : Tail(queue)[i] = queue[i + 1]
      /\ Head(queue) = queue[1]
  BY <1>1
<1>3. ASSUME NEW i \in DOMAIN Tail(queue)
      PROVE  /\ i \in Nat
             /\ i + 1 \in DOMAIN queue
             /\ Tail(queue)[i] = queue[i + 1]
             /\ task[Tail(queue)[i]] = "waiting"
             /\ Tail(queue)[i] # Head(queue)
             /\ Tail(queue)[i] \in Tasks
  BY <1>1, <1>2 DEF QueueOK
<1>4. ASSUME NEW i \in DOMAIN Tail(queue), NEW k \in DOMAIN Tail(queue),
             Tail(queue)[i] = Tail(queue)[k]
      PROVE  i = k
  BY <1>3, <1>4 DEF QueueOK
<1>5. Head(queue) \in Tasks /\ task[Head(queue)] = "waiting"
  BY <1>1, <1>2 DEF QueueOK
<1>6. QED
  BY <1>2, <1>3, <1>4, <1>5

(* A task that ends hands its permit to the first waiter or back to the    *)
(* semaphore: no permit is created and none is lost.                       *)
LEMMA ReleaseKeeps ==
  ASSUME TypeOK, QueueOK, PermitConservation, NoLostWakeup,
         NEW t \in Tasks, task[t] \in {"running", "cancelled"}, EndAndRelease(t)
  PROVE  /\ task' \in [Tasks -> TaskStates]
         /\ queue' \in Seq(Tasks)
         /\ permits' \in 0..MaxPermits
         /\ QueueOK'
         /\ PermitConservation'
         /\ NoLostWakeup'
         /\ \A u \in Tasks : task'[u] = "free" <=> task[u] = "free"
<1> USE DEF EndAndRelease, TypeOK, TaskStates
<1>1. t \in Holders
  BY DEF Holders
<1>2. CASE queue = <<>>
  <2>1. Holders' = Holders \ {t}
    BY <1>2 DEF Holders
  <2>2. Cardinality(Holders') = Cardinality(Holders) - 1
    BY <2>1, <1>1, HoldersFinite, FS_RemoveElement
  <2>3. permits' \in 0..MaxPermits /\ PermitConservation'
    BY <1>2, <2>2, HoldersFinite, FS_EmptySet, <1>1, FS_CardinalityType,
       PollerAssumption DEF PermitConservation
  <2>4. QED
    BY <1>2, <2>3 DEF QueueOK, NoLostWakeup
<1>3. CASE queue # <<>>
  <2> DEFINE w == Head(queue)
  <2>1. w \in Tasks /\ task[w] = "waiting" /\ w # t
    BY <1>3, TailWaits
  <2>2. /\ task' = [task EXCEPT ![t] = "ended", ![w] = "granted"]
        /\ queue' = Tail(queue)
        /\ permits' = permits
    BY <1>3
  <2>3. Holders' = (Holders \ {t}) \union {w}
    BY <2>1, <2>2 DEF Holders
  <2>4. w \notin Holders
    BY <2>1 DEF Holders
  <2>5. Cardinality(Holders') = Cardinality(Holders)
    <3>1. /\ IsFiniteSet(Holders \ {t})
          /\ Cardinality(Holders \ {t}) = Cardinality(Holders) - 1
      BY <1>1, HoldersFinite, FS_RemoveElement
    <3>2. Cardinality((Holders \ {t}) \union {w})
            = Cardinality(Holders \ {t}) + 1
      BY <2>4, <3>1, FS_AddElement
    <3>3. QED
      BY <2>3, <3>1, <3>2, HoldersFinite
  <2>6. QueueOK'
    BY <1>3, <2>1, <2>2, TailWaits DEF QueueOK
  <2>7. NoLostWakeup'
    BY <2>1, <2>2 DEF NoLostWakeup
  <2>8. \A u \in Tasks : task'[u] = "free" <=> task[u] = "free"
    BY <2>1, <2>2
  <2>9. queue' \in Seq(Tasks) /\ task' \in [Tasks -> TaskStates]
    BY <1>3, <2>2
  <2>10. QED
    BY <2>2, <2>5, <2>6, <2>7, <2>8, <2>9 DEF PermitConservation
<1>4. QED
  BY <1>2, <1>3

-------------------------------------------------------------------------------

(* Nothing is in flight and no permit is out when the daemon starts. *)
LEMMA InitIInv == Init => IInv
<1> SUFFICES ASSUME Init
             PROVE  IInv
  OBVIOUS
<1>1. Holders = {}
  BY DEF Init, Holders
<1>2. TypeOK
  <2>1. permits \in 0..MaxPermits
    BY PollerAssumption DEF Init
  <2>2. rest \in Seq(Ids) /\ queue \in Seq(Tasks)
    BY DEF Init
  <2>3. task \in [Tasks -> TaskStates] /\ jobOf \in [Tasks -> Ids]
    BY DEF Init, TaskStates, Ids
  <2>4. QED
    BY <2>1, <2>2, <2>3 DEF Init, TypeOK, PollerStates, MainStates
<1>3. PermitConservation
  BY <1>1, FS_EmptySet, PollerAssumption DEF Init, PermitConservation
<1>4. InFlightExact
  BY DEF Init, InFlightExact
<1>5. QED
  BY <1>2, <1>3, <1>4
  DEF IInv, Init, QueueOK, ClaimFresh, TaskHasJob, PollerStopped,
      OneTaskPerJob, NoLostWakeup

(* The poller's steps that touch neither tasks nor permits. *)
LEMMA PollerKeepsIInv ==
  ASSUME IInv,
         \/ \E batch \in Batches : PollAnswered(batch)
         \/ \E unknown \in BOOLEAN : PollFailed(unknown)
         \/ Reattested
         \/ Woken
  PROVE  IInv'
<1>1. /\ poller' \in PollerStates
      /\ rest' \in Seq(Ids)
      /\ ClaimFresh'
      /\ poller # "done"
      /\ UNCHANGED <<inFlight, claimed, taskVars, daemonVars>>
  <2>1. ASSUME NEW batch \in Batches, PollAnswered(batch)
        PROVE  <1>1!1 /\ <1>1!2 /\ <1>1!3 /\ <1>1!4 /\ <1>1!5
    <3>1. batch \in Seq(Ids)
      BY PollerAssumption DEF Batches
    <3>2. NextJob(batch, Busy(inFlight, claimed)) /\ shutdown \in BOOLEAN
      BY <2>1 DEF PollAnswered, IInv, TypeOK
    <3>3. /\ rest' \in Seq(Ids)
          /\ poller' \in {"claiming", "sleeping"}
          /\ poller' = "claiming" =>
               rest' # <<>> /\ Head(rest') \notin Busy(inFlight, claimed)
      BY <3>1, <3>2, NextJobStops
    <3>4. QED
      BY <2>1, <3>3 DEF PollAnswered, PollerStates, ClaimFresh, Busy
  <2>2. QED
    BY <2>1
    DEF PollFailed, Reattested, Woken, PollerStates, ClaimFresh, IInv, TypeOK
<1>2. QED
  BY <1>1
  DEF IInv, TypeOK, QueueOK, ClaimFresh, TaskHasJob, PollerStopped,
      OneTaskPerJob, InFlightExact, PermitConservation, NoLostWakeup, Holders,
      taskVars, daemonVars

(* A claim is answered: one task is created, for a job that had none. *)
LEMMA ClaimKeepsIInv ==
  ASSUME IInv, NEW ok \in BOOLEAN, ClaimAnswered(ok)
  PROVE  IInv'
<1> DEFINE job    == Head(rest)
           taken  == IF ok THEN claimed \union {job} ELSE claimed
           flying == inFlight \union {job}
<1>1. /\ job \in Jobs
      /\ job \notin inFlight
      /\ Tail(rest) \in Seq(Ids)
  BY DEF ClaimAnswered, IInv, ClaimFresh, TypeOK, Busy, Ids
<1>2. PICK t \in Tasks : /\ task[t] = "free"
                         /\ task' = [task EXCEPT ![t] = "created"]
                         /\ jobOf' = [jobOf EXCEPT ![t] = job]
  BY DEF ClaimAnswered
<1>3. /\ claimed' = taken
      /\ inFlight' = flying
      /\ NextJob(Tail(rest), Busy(flying, taken))
      /\ poller = "claiming"
      /\ UNCHANGED <<queue, permits, shutdown, main>>
  BY DEF ClaimAnswered, daemonVars
<1>4. /\ rest' \in Seq(Ids)
      /\ poller' \in {"claiming", "sleeping"}
      /\ poller' = "claiming" =>
           rest' # <<>> /\ Head(rest') \notin Busy(flying, taken)
  <2>1. shutdown \in BOOLEAN
    BY DEF IInv, TypeOK
  <2>2. PICK s, busy : s = Tail(rest) /\ busy = Busy(flying, taken)
    OBVIOUS
  <2> HIDE DEF job, taken, flying
  <2>3. NextJob(s, busy) /\ s \in Seq(Ids)
    BY <1>1, <1>3, <2>2 DEF NextJob
  <2>4. /\ rest' \in Seq(Ids)
        /\ poller' \in {"claiming", "sleeping"}
        /\ poller' = "claiming" => rest' # <<>> /\ Head(rest') \notin busy
    BY <2>1, <2>3, NextJobStops
  <2>5. QED
    BY <2>2, <2>4
<1>5. TypeOK'
  BY <1>1, <1>2, <1>3, <1>4
  DEF IInv, TypeOK, PollerStates, TaskStates, Ids
<1>6. ClaimFresh'
  BY <1>3, <1>4 DEF ClaimFresh
<1>7. QueueOK'
  BY <1>2, <1>3 DEF IInv, TypeOK, QueueOK
<1>8. TaskHasJob' /\ OneTaskPerJob'
  <2>1. \A u \in Tasks : task[u] # "free" => jobOf[u] # job
    BY <1>1 DEF IInv, InFlightExact
  <2>2. QED
    BY <1>1, <1>2, <2>1 DEF IInv, TypeOK, TaskHasJob, OneTaskPerJob
<1>9. InFlightExact'
  BY <1>1, <1>2, <1>3 DEF IInv, TypeOK, InFlightExact
<1>10. PermitConservation' /\ NoLostWakeup'
  <2>1. Holders' = Holders
    BY <1>2 DEF IInv, TypeOK, Holders
  <2>2. QED
    BY <1>2, <1>3, <2>1 DEF IInv, TypeOK, PermitConservation, NoLostWakeup
<1>11. PollerStopped'
  BY <1>3 DEF IInv, PollerStopped
<1>12. QED
  BY <1>5, <1>6, <1>7, <1>8, <1>9, <1>10, <1>11 DEF IInv

(* What a step of one task leaves alone when it creates and collects none. *)
LEMMA SameTasksKeepRest ==
  ASSUME IInv, UNCHANGED <<pollerVars, jobOf, daemonVars>>,
         \A u \in Tasks : task'[u] = "free" <=> task[u] = "free"
  PROVE  /\ ClaimFresh'
         /\ TaskHasJob'
         /\ PollerStopped'
         /\ OneTaskPerJob'
         /\ InFlightExact'
  BY DEF IInv, ClaimFresh, TaskHasJob, PollerStopped, OneTaskPerJob,
         InFlightExact, pollerVars, daemonVars

(* A task that starts takes a permit or queues for one. *)
LEMMA EnterKeepsIInv ==
  ASSUME IInv, NEW t \in Tasks, Enter(t)
  PROVE  IInv'
<1> USE DEF IInv, TypeOK
<1>1. /\ task[t] = "created"
      /\ UNCHANGED <<pollerVars, jobOf, daemonVars>>
  BY DEF Enter
<1>2. CASE permits > 0 /\ queue = <<>> /\ \A u \in Tasks : task[u] # "granted"
  <2>1. /\ permits' = permits - 1
        /\ task' = [task EXCEPT ![t] = "running"]
        /\ queue' = queue
    BY <1>2 DEF Enter
  <2>2. Holders' = Holders \union {t} /\ t \notin Holders
    BY <1>1, <2>1 DEF Holders
  <2>3. Cardinality(Holders') = Cardinality(Holders) + 1
    BY <2>2, HoldersFinite, FS_AddElement
  <2>4. PermitConservation' /\ permits' \in 0..MaxPermits
    BY <1>2, <2>1, <2>3, HoldersFinite, PollerAssumption DEF PermitConservation
  <2>5. QueueOK' /\ NoLostWakeup'
    BY <1>2, <2>1 DEF QueueOK, NoLostWakeup
  <2>6. TypeOK'
    BY <1>1, <2>1, <2>4 DEF pollerVars, daemonVars, TaskStates
  <2>7. QED
    BY <1>1, <2>1, <2>4, <2>5, <2>6, SameTasksKeepRest
<1>3. CASE ~(permits > 0 /\ queue = <<>> /\ \A u \in Tasks : task[u] # "granted")
  <2>1. /\ permits' = permits
        /\ task' = [task EXCEPT ![t] = "waiting"]
        /\ queue' = Append(queue, t)
    BY <1>3 DEF Enter
  <2>2. Holders' = Holders
    BY <1>1, <2>1 DEF Holders
  <2>3. PermitConservation'
    BY <2>1, <2>2 DEF PermitConservation
  <2>4. TypeOK'
    <3>1. queue' \in Seq(Tasks)
      BY <2>1
    <3>2. task' \in [Tasks -> TaskStates]
      BY <2>1 DEF TaskStates
    <3>3. QED
      BY <1>1, <2>1, <3>1, <3>2 DEF pollerVars, daemonVars
  <2>5. QueueOK'
    <3>1. /\ Len(queue) \in Nat
          /\ DOMAIN queue = 1..Len(queue)
          /\ DOMAIN queue' = 1..(Len(queue) + 1)
          /\ queue'[Len(queue) + 1] = t
          /\ \A i \in DOMAIN queue : queue'[i] = queue[i] /\ queue[i] \in Tasks
      BY <2>1
    <3>2. \A i \in DOMAIN queue : queue[i] # t /\ task'[queue[i]] = "waiting"
      BY <1>1, <2>1, <3>1 DEF QueueOK
    <3>3. QED
      BY <2>1, <3>1, <3>2 DEF QueueOK
  <2>6. NoLostWakeup'
    BY <1>1, <1>3, <2>1 DEF NoLostWakeup
  <2>7. QED
    BY <1>1, <2>1, <2>3, <2>4, <2>5, <2>6, SameTasksKeepRest
<1>4. QED
  BY <1>2, <1>3

(* A task that was granted a permit runs, and wakes the next waiter while  *)
(* permits are left.                                                       *)
LEMMA ResumeKeepsIInv ==
  ASSUME IInv, NEW t \in Tasks, Resume(t)
  PROVE  IInv'
<1> USE DEF IInv, TypeOK
<1>1. /\ task[t] = "granted"
      /\ UNCHANGED <<pollerVars, jobOf, daemonVars>>
  BY DEF Resume
<1>2. CASE permits > 0 /\ queue # <<>>
  <2> DEFINE w == Head(queue)
  <2>1. w \in Tasks /\ task[w] = "waiting" /\ w # t
    BY <1>1, <1>2, TailWaits
  <2>2. /\ permits' = permits - 1
        /\ task' = [task EXCEPT ![t] = "running", ![w] = "granted"]
        /\ queue' = Tail(queue)
    BY <1>2 DEF Resume
  <2>3. Holders' = Holders \union {w} /\ w \notin Holders
    BY <1>1, <2>1, <2>2 DEF Holders
  <2>4. Cardinality(Holders') = Cardinality(Holders) + 1
    BY <2>3, HoldersFinite, FS_AddElement
  <2>5. PermitConservation' /\ permits' \in 0..MaxPermits
    BY <1>2, <2>2, <2>4, HoldersFinite, PollerAssumption DEF PermitConservation
  <2>6. QueueOK'
    BY <1>1, <1>2, <2>1, <2>2, TailWaits DEF QueueOK
  <2>7. NoLostWakeup'
    BY <2>1, <2>2 DEF NoLostWakeup
  <2>8. TypeOK'
    <3>1. task' \in [Tasks -> TaskStates]
      BY <2>1, <2>2 DEF TaskStates
    <3>2. queue' \in Seq(Tasks)
      BY <1>2, <2>2, TailWaits
    <3>3. QED
      BY <1>1, <2>5, <3>1, <3>2 DEF pollerVars, daemonVars
  <2>9. QED
    BY <1>1, <2>1, <2>2, <2>5, <2>6, <2>7, <2>8, SameTasksKeepRest
<1>3. CASE ~(permits > 0 /\ queue # <<>>)
  <2>1. /\ permits' = permits
        /\ task' = [task EXCEPT ![t] = "running"]
        /\ queue' = queue
    BY <1>3 DEF Resume
  <2>2. Holders' = Holders
    BY <1>1, <2>1 DEF Holders
  <2>3. QED
    BY <1>1, <1>3, <2>1, <2>2, SameTasksKeepRest
    DEF pollerVars, daemonVars, TaskStates, PermitConservation, QueueOK,
        NoLostWakeup
<1>4. QED
  BY <1>2, <1>3

(* Returns, timeouts and cancellations give the permit back alike. *)
LEMMA LeaveKeepsIInv ==
  ASSUME IInv, NEW t \in Tasks, Leave(t) \/ Unwind(t)
  PROVE  IInv'
<1>1. /\ task[t] \in {"running", "cancelled"}
      /\ EndAndRelease(t)
      /\ UNCHANGED <<pollerVars, jobOf, daemonVars>>
  BY DEF Leave, Unwind
<1>2. QED
  BY <1>1, ReleaseKeeps, SameTasksKeepRest
  DEF IInv, TypeOK, pollerVars, daemonVars

(* The done callback takes a job out of in_flight: OneTaskPerJob is why    *)
(* that job has no other task that would still need it there.              *)
LEMMA CollectKeepsIInv ==
  ASSUME IInv, NEW t \in Tasks, Collect(t)
  PROVE  IInv'
<1> USE DEF IInv, TypeOK
<1>1. /\ task[t] = "ended"
      /\ inFlight' = inFlight \ {jobOf[t]}
      /\ task' = [task EXCEPT ![t] = "free"]
      /\ jobOf' = [jobOf EXCEPT ![t] = NoId]
      /\ UNCHANGED <<poller, rest, claimed, queue, permits, shutdown, main>>
  BY DEF Collect, daemonVars
<1>2. TypeOK'
  BY <1>1 DEF TaskStates, Ids
<1>3. Holders' = Holders
  BY <1>1 DEF Holders
<1>4. PermitConservation'
  BY <1>1, <1>3 DEF PermitConservation
<1>5. QueueOK' /\ NoLostWakeup'
  BY <1>1 DEF QueueOK, NoLostWakeup
<1>6. ClaimFresh'
  BY <1>1 DEF ClaimFresh, Busy
<1>7. TaskHasJob' /\ OneTaskPerJob' /\ PollerStopped'
  BY <1>1 DEF TaskHasJob, OneTaskPerJob, PollerStopped
<1>8. InFlightExact'
  <2>1. \A u \in Tasks : task[u] # "free" /\ u # t => jobOf[u] # jobOf[t]
    BY <1>1 DEF OneTaskPerJob
  <2>2. QED
    BY <1>1, <2>1 DEF InFlightExact
<1>9. QED
  BY <1>2, <1>4, <1>5, <1>6, <1>7, <1>8

(* Nothing of a shutdown touches a permit: a cancelled holder keeps its    *)
(* own until it has unwound.                                               *)
LEMMA DaemonKeepsIInv ==
  ASSUME IInv, Signal \/ DaemonStep
  PROVE  IInv'
<1> USE DEF IInv, TypeOK
<1>1. CASE Signal \/ StopLoops \/ CloseLoop
  <2>1. UNCHANGED <<inFlight, claimed, taskVars>>
    BY <1>1 DEF Signal, StopLoops, CloseLoop, pollerVars
  <2>2. /\ poller' \in {poller, "done"}
        /\ poller' = "done" \/ rest' = rest
        /\ rest' \in Seq(Ids)
        /\ shutdown' \in BOOLEAN
        /\ main' \in MainStates
        /\ main' # "serving" => poller' = "done"
    <3>1. CASE Signal
      BY <3>1 DEF Signal, pollerVars, PollerStopped
    <3>2. CASE StopLoops
      BY <3>2 DEF StopLoops, MainStates
    <3>3. CASE CloseLoop
      BY <3>3 DEF CloseLoop, pollerVars, MainStates, PollerStopped
    <3>4. QED
      BY <1>1, <3>1, <3>2, <3>3
  <2>3. Holders' = Holders
    BY <2>1 DEF Holders, taskVars
  <2>4. QED
    BY <2>1, <2>2, <2>3
    DEF taskVars, PollerStates, QueueOK, ClaimFresh, TaskHasJob, PollerStopped,
        OneTaskPerJob, InFlightExact, PermitConservation, NoLostWakeup
<1>2. CASE CancelJobs
  <2>1. /\ main = "stopping"
        /\ main' = "closing"
        /\ task' = [t \in Tasks |->
                      CASE task[t] \in {"created", "waiting"} -> "ended"
                        [] task[t] \in {"granted", "running"} -> "cancelled"
                        [] OTHER -> task[t]]
        /\ queue' = <<>>
        /\ UNCHANGED <<pollerVars, jobOf, permits, shutdown>>
    BY <1>2 DEF CancelJobs
  <2>2. \A t \in Tasks :
          /\ task'[t] \in TaskStates
          /\ task'[t] = "free" <=> task[t] = "free"
          /\ task'[t] \in {"granted", "running", "cancelled"}
               <=> task[t] \in {"granted", "running", "cancelled"}
    BY <2>1 DEF TaskStates
  <2>3. Holders' = Holders
    BY <2>2 DEF Holders
  <2>4. TypeOK'
    BY <2>1, <2>2 DEF pollerVars, MainStates
  <2>5. QED
    BY <2>1, <2>2, <2>3, <2>4
    DEF pollerVars, QueueOK, ClaimFresh, TaskHasJob, PollerStopped,
        OneTaskPerJob, InFlightExact, PermitConservation, NoLostWakeup
<1>3. QED
  BY <1>1, <1>2 DEF DaemonStep

(* Every step of poller, tasks and daemon keeps the invariant. *)
LEMMA NextKeepsIInv == IInv /\ [Next]_vars => IInv'
<1> SUFFICES ASSUME IInv, [Next]_vars
             PROVE  IInv'
  OBVIOUS
<1>1. CASE PollerStep
  BY <1>1, PollerKeepsIInv, ClaimKeepsIInv DEF PollerStep
<1>2. CASE \E t \in Tasks : TaskStep(t)
  BY <1>2, EnterKeepsIInv, ResumeKeepsIInv, LeaveKeepsIInv, CollectKeepsIInv
  DEF TaskStep
<1>3. CASE Signal \/ DaemonStep
  BY <1>3, DaemonKeepsIInv
<1>4. CASE UNCHANGED vars
  <2>1. Holders' = Holders
    BY <1>4 DEF Holders, vars, taskVars
  <2>2. QED
    BY <1>4, <2>1
    DEF vars, pollerVars, taskVars, daemonVars, IInv, TypeOK, QueueOK,
        ClaimFresh, TaskHasJob, PollerStopped, OneTaskPerJob, InFlightExact,
        PermitConservation, NoLostWakeup
<1>5. QED
  BY <1>1, <1>2, <1>3, <1>4 DEF Next, Exited

-------------------------------------------------------------------------------

(* The inductive invariant holds of every behaviour. *)
THEOREM Inductive == Spec => []IInv
BY InitIInv, NextKeepsIInv, PTL DEF Spec

(* Every variable keeps its type: in particular the semaphore never has    *)
(* more permits than it was made with.                                     *)
THEOREM TypeCorrect == Spec => []TypeOK
<1>1. IInv => TypeOK
  BY DEF IInv
<1>2. QED
  BY <1>1, Inductive, PTL

(* However the ICL repeats and reorders assignments, a job never has two   *)
(* tasks at once (node_loop.py 236-257).                                   *)
THEOREM NoJobTwice == Spec => []OneTaskPerJob
<1>1. IInv => OneTaskPerJob
  BY DEF IInv
<1>2. QED
  BY <1>1, Inductive, PTL

(* `in_flight` is exact at every moment, callbacks pending or not.         *)
THEOREM InFlightIsExact == Spec => []InFlightExact
<1>1. IInv => InFlightExact
  BY DEF IInv
<1>2. QED
  BY <1>1, Inductive, PTL

(* No permit of the semaphore is lost or made up, on any way out of a job. *)
THEOREM PermitsConserved == Spec => []PermitConservation
<1>1. IInv => PermitConservation
  BY DEF IInv
<1>2. QED
  BY <1>1, Inductive, PTL

(* A free permit and a queue never face each other with nobody awake.      *)
THEOREM WakeupsNotLost == Spec => []NoLostWakeup
<1>1. IInv => NoLostWakeup
  BY DEF IInv
<1>2. QED
  BY <1>1, Inductive, PTL

(* A task that queues is never left behind without anybody to wake it: a   *)
(* permit is out, with a task that will give it back or hand it on         *)
(* (node_loop.py 278-294).                                                 *)
QueueIsServed == queue # <<>> => Holders # {}

(* No task queues for permits that nobody holds, down to the last step of  *)
(* a shutdown, for any number of permits and tasks.                        *)
THEOREM QueueServed == Spec => []QueueIsServed
<1>1. IInv => QueueIsServed
  <2> SUFFICES ASSUME IInv, queue # <<>>
               PROVE  Holders # {}
    BY DEF QueueIsServed
  <2>1. permits \in Nat /\ MaxPermits \in Nat \ {0}
    BY PollerAssumption DEF IInv, TypeOK
  <2>2. CASE permits > 0
    BY <2>2 DEF IInv, NoLostWakeup, Holders
  <2>3. CASE permits = 0
    <3>1. Cardinality(Holders) # 0
      BY <2>1, <2>3 DEF IInv, PermitConservation
    <3>2. QED
      BY <3>1, FS_EmptySet
  <2>4. QED
    BY <2>1, <2>2, <2>3
<1>2. QED
  BY <1>1, Inductive, PTL

(* A job is given to a task after a confirmed claim only once.             *)
THEOREM ClaimedOnce == Spec => ClaimedRunsOnce
<1>1. ASSUME IInv, [Next]_vars
      PROVE  [\A t \in Tasks : task[t] = "free" /\ task'[t] # "free"
                               => jobOf'[t] \notin claimed]_vars
  <2> SUFFICES ASSUME Next, NEW t \in Tasks,
                      task[t] = "free", task'[t] # "free"
               PROVE  jobOf'[t] \notin claimed
    BY <1>1
  <2>1. task \in [Tasks -> TaskStates] /\ jobOf \in [Tasks -> Ids]
    BY <1>1 DEF IInv, TypeOK
  <2>2. PICK ok \in BOOLEAN : ClaimAnswered(ok)
    <3>1. CASE PollerStep
      BY <3>1
      DEF PollerStep, PollAnswered, PollFailed, Reattested, Woken, taskVars
    <3>2. CASE \E u \in Tasks : TaskStep(u)
      <4>1. PICK u \in Tasks : TaskStep(u)
        BY <3>2
      <4>2. task[u] # "free"
        BY <4>1 DEF TaskStep, Enter, Resume, Leave, Unwind, Collect
      <4>3. queue # <<>> => task[Head(queue)] = "waiting"
        BY <1>1, TailWaits DEF IInv
      <4>4. QED
        BY <2>1, <4>1, <4>2, <4>3
        DEF TaskStep, Enter, Resume, Leave, Unwind, Collect, EndAndRelease
    <3>3. CASE Signal \/ DaemonStep \/ Exited
      BY <2>1, <3>3
      DEF Signal, DaemonStep, StopLoops, CancelJobs, CloseLoop, Exited, vars,
          taskVars
    <3>4. QED
      BY <3>1, <3>2, <3>3 DEF Next
  <2>3. Head(rest) \notin claimed
    BY <1>1, <2>2 DEF ClaimAnswered, IInv, ClaimFresh, Busy
  <2>4. jobOf'[t] = Head(rest)
    BY <2>1, <2>2 DEF ClaimAnswered
  <2>5. QED
    BY <2>3, <2>4
<1>2. QED
  BY <1>1, Inductive, PTL DEF Spec, ClaimedRunsOnce

(* After start_daemon has cancelled its loops no job task is created.      *)
THEOREM NoLateSpawn == Spec => NoSpawnWhenStopping
<1>1. ASSUME IInv, [Next]_vars
      PROVE  [main # "serving" =>
                \A t \in Tasks : task[t] = "free" => task'[t] = "free"]_vars
  <2> SUFFICES ASSUME Next, main # "serving", NEW t \in Tasks, task[t] = "free"
               PROVE  task'[t] = "free"
    BY <1>1
  <2>1. task \in [Tasks -> TaskStates] /\ poller = "done"
    BY <1>1 DEF IInv, TypeOK, PollerStopped
  <2>2. ~PollerStep
    BY <2>1
    DEF PollerStep, PollAnswered, PollFailed, Reattested, ClaimAnswered, Woken
  <2>3. CASE \E u \in Tasks : TaskStep(u)
    <3>1. PICK u \in Tasks : TaskStep(u)
      BY <2>3
    <3>2. task[u] # "free"
      BY <3>1 DEF TaskStep, Enter, Resume, Leave, Unwind, Collect
    <3>3. queue # <<>> => task[Head(queue)] = "waiting"
      BY <1>1, TailWaits DEF IInv
    <3>4. QED
      BY <2>1, <3>1, <3>2, <3>3
      DEF TaskStep, Enter, Resume, Leave, Unwind, Collect, EndAndRelease
  <2>4. CASE Signal \/ DaemonStep \/ Exited
    BY <2>1, <2>4
    DEF Signal, DaemonStep, StopLoops, CancelJobs, CloseLoop, Exited, vars,
        taskVars
  <2>5. QED
    BY <2>2, <2>3, <2>4 DEF Next
<1>2. QED
  BY <1>1, Inductive, PTL DEF Spec, NoSpawnWhenStopping

(***************************************************************************)
(* The poller, its tasks and the semaphore implement JobPool, for every    *)
(* set of jobs and tasks and every number of permits.                      *)
(*                                                                         *)
(* A job has at most one task (OneTaskPerJob), so its phase is the one of  *)
(* that task; a step changes the phase of the jobs whose tasks it moves.   *)
(* What bounds the running jobs is that each holds a permit.               *)
(***************************************************************************)

(***************************************************************************)
(* The phase of a job, from the states of the tasks.                       *)
(***************************************************************************)

(* The phase a job has by the state of its task. *)
PhaseIn(state) ==
  CASE state \in {"created", "waiting", "granted"} -> "queued"
    [] state = "running" -> "running"
    [] OTHER -> "ended"

(* The phase of job j while the tasks' states are tk and their jobs jo. *)
Phase(tk, jo, j) ==
  IF \E t \in Tasks : tk[t] # "free" /\ jo[t] = j
  THEN PhaseIn(tk[CHOOSE t \in {u \in Tasks : tk[u] # "free" /\ jo[u] = j} : TRUE])
  ELSE "idle"

(* The refinement mapping says the same. *)
LEMMA PhaseOfIsPhase ==
  \A j \in Jobs : PhaseOf(j) = Phase(task, jobOf, j)
<1> TAKE j \in Jobs
<1> DEFINE own == {t \in Tasks : task[t] # "free" /\ jobOf[t] = j}
<1>1. own = {} <=> ~\E t \in Tasks : task[t] # "free" /\ jobOf[t] = j
  OBVIOUS
<1>2. CASE own = {}
  BY <1>1, <1>2 DEF PhaseOf, Phase
<1>3. CASE own # {}
  BY <1>1, <1>3 DEF PhaseOf, Phase, PhaseIn
<1> QED BY <1>2, <1>3

(* With one task per job, the phase of a job is that of any task of its,   *)
(* and idle without one.                                                   *)
LEMMA PhaseByTask ==
  ASSUME NEW tk, NEW jo,
         \A t, u \in Tasks : tk[t] # "free" /\ tk[u] # "free" /\ jo[t] = jo[u]
                               => t = u
  PROVE  /\ \A t \in Tasks : tk[t] # "free" => Phase(tk, jo, jo[t]) = PhaseIn(tk[t])
         /\ \A j \in Jobs : (\A t \in Tasks : tk[t] # "free" => jo[t] # j)
                              => Phase(tk, jo, j) = "idle"
<1>1. ASSUME NEW t \in Tasks, tk[t] # "free"
      PROVE  Phase(tk, jo, jo[t]) = PhaseIn(tk[t])
  <2> DEFINE own == {u \in Tasks : tk[u] # "free" /\ jo[u] = jo[t]}
  <2>1. own = {t}
    BY <1>1
  <2>2. (CHOOSE u \in own : TRUE) = t
    BY <2>1
  <2> QED BY <1>1, <2>2 DEF Phase
<1>2. \A j \in Jobs : (\A t \in Tasks : tk[t] # "free" => jo[t] # j)
                        => Phase(tk, jo, j) = "idle"
  BY DEF Phase
<1> QED BY <1>1, <1>2

(* The states and jobs of the tasks, before and after a step. *)
Phases     == [j \in Jobs |-> Phase(task, jobOf, j)]
NextPhases == [j \in Jobs |-> Phase(task', jobOf', j)]

(* A step that leaves the jobs of the tasks alone changes the phases as it *)
(* changes the tasks'.                                                     *)
LEMMA PhasesFollowTasks ==
  ASSUME IInv, IInv', NEW j \in Jobs, jobOf' = jobOf,
         \A t \in Tasks : task'[t] = "free" <=> task[t] = "free"
  PROVE  \/ \E t \in Tasks : /\ task[t] # "free" /\ jobOf[t] = j
                             /\ Phases[j] = PhaseIn(task[t])
                             /\ NextPhases[j] = PhaseIn(task'[t])
         \/ /\ \A t \in Tasks : task[t] # "free" => jobOf[t] # j
            /\ Phases[j] = "idle" /\ NextPhases[j] = "idle"
<1>1. \A t, u \in Tasks : task[t] # "free" /\ task[u] # "free" /\ jobOf[t] = jobOf[u]
                            => t = u
  BY DEF IInv, OneTaskPerJob
<1>2. \A t, u \in Tasks : task'[t] # "free" /\ task'[u] # "free" /\ jobOf'[t] = jobOf'[u]
                            => t = u
  BY <1>1
<1>3. CASE \E t \in Tasks : task[t] # "free" /\ jobOf[t] = j
  <2>1. PICK t \in Tasks : task[t] # "free" /\ jobOf[t] = j
    BY <1>3
  <2>2. Phase(task, jobOf, jobOf[t]) = PhaseIn(task[t])
    BY <1>1, <2>1, PhaseByTask
  <2>3. Phase(task', jobOf', jobOf'[t]) = PhaseIn(task'[t])
    BY <1>2, <2>1, PhaseByTask
  <2> QED BY <2>1, <2>2, <2>3 DEF Phases, NextPhases
<1>4. CASE ~\E t \in Tasks : task[t] # "free" /\ jobOf[t] = j
  BY <1>1, <1>2, <1>4, PhaseByTask DEF Phases, NextPhases
<1> QED BY <1>3, <1>4

(* The two functions are what the refinement mapping gives for `phase`. *)
LEMMA PhasesMap ==
  /\ [j \in Jobs |-> PhaseOf(j)] = Phases
  /\ [j \in Jobs |-> PhaseOf(j)'] = NextPhases
<1>1. \A j \in Jobs : PhaseOf(j)' = Phase(task', jobOf', j)
  <2> TAKE j \in Jobs
  <2> DEFINE own == {t \in Tasks : task'[t] # "free" /\ jobOf'[t] = j}
  <2>1. own = {} <=> ~\E t \in Tasks : task'[t] # "free" /\ jobOf'[t] = j
    OBVIOUS
  <2>2. CASE own = {}
    BY <2>1, <2>2 DEF PhaseOf, Phase
  <2>3. CASE own # {}
    BY <2>1, <2>3 DEF PhaseOf, Phase, PhaseIn
  <2> QED BY <2>2, <2>3
<1> QED BY <1>1, PhaseOfIsPhase DEF Phases, NextPhases

(* A step that moves one task from a phase to another moves its job.       *)
LEMMA OneMoves ==
  ASSUME IInv, IInv', NEW t \in Tasks, task[t] # "free", jobOf' = jobOf,
         \A u \in Tasks : task'[u] = "free" <=> task[u] = "free",
         \A u \in Tasks \ {t} : task[u] # "free"
                                  => PhaseIn(task'[u]) = PhaseIn(task[u])
  PROVE  /\ jobOf[t] \in Jobs
         /\ Phases[jobOf[t]] = PhaseIn(task[t])
         /\ NextPhases = [Phases EXCEPT ![jobOf[t]] = PhaseIn(task'[t])]
<1>1. jobOf[t] \in Jobs
  BY DEF IInv, TaskHasJob
<1>2. \A u \in Tasks : task[u] # "free" /\ jobOf[u] = jobOf[t] => u = t
  BY DEF IInv, OneTaskPerJob
<1>3. Phases[jobOf[t]] = PhaseIn(task[t]) /\ NextPhases[jobOf[t]] = PhaseIn(task'[t])
  BY <1>1, <1>2, PhasesFollowTasks
<1>4. \A j \in Jobs : j # jobOf[t] => NextPhases[j] = Phases[j]
  BY PhasesFollowTasks
<1> QED BY <1>1, <1>3, <1>4 DEF Phases, NextPhases

(* A step that moves no task between phases is none of the pool's. *)
LEMMA NoneMoves ==
  ASSUME IInv, IInv', jobOf' = jobOf,
         \A u \in Tasks : task'[u] = "free" <=> task[u] = "free",
         \A u \in Tasks : task[u] # "free" => PhaseIn(task'[u]) = PhaseIn(task[u])
  PROVE  NextPhases = Phases
<1>1. \A j \in Jobs : NextPhases[j] = Phases[j]
  BY PhasesFollowTasks
<1> QED BY <1>1 DEF Phases, NextPhases

(* Jobs that run are finitely many, and no more than tasks that run. *)
LEMMA RunningBounded ==
  ASSUME IInv, NEW S \in SUBSET Tasks,
         {t \in Tasks : task[t] = "running"} \subseteq S
  PROVE  /\ Cardinality({j \in Jobs : Phases[j] = "running"}) \in Nat
         /\ Cardinality({j \in Jobs : Phases[j] = "running"}) <= Cardinality(S)
<1> DEFINE R == {j \in Jobs : Phases[j] = "running"}
           f == [j \in R |-> CHOOSE t \in S : task[t] = "running" /\ jobOf[t] = j]
<1>1. ASSUME NEW j \in R
      PROVE  \E t \in S : task[t] = "running" /\ jobOf[t] = j
  <2>1. Phase(task, jobOf, j) = "running" /\ j \in Jobs
    BY DEF Phases
  <2>2. PICK t \in Tasks : task[t] # "free" /\ jobOf[t] = j
    BY <2>1 DEF Phase
  <2>3. Phase(task, jobOf, jobOf[t]) = PhaseIn(task[t])
    BY <2>2, PhaseByTask DEF IInv, OneTaskPerJob
  <2>4. task[t] = "running"
    BY <2>1, <2>2, <2>3 DEF PhaseIn
  <2> QED BY <2>2, <2>4
<1>2. \A j \in R : f[j] \in S /\ jobOf[f[j]] = j
  BY <1>1
<1>3. IsFiniteSet(S)
  BY PollerAssumption, FS_Subset
<1> HIDE DEF f, R
<1>4. f \in [R -> S]
  BY <1>2 DEF f
<1>5. f \in Injection(R, S)
  BY <1>2, <1>4, Fun_IsInj
<1>6. IsFiniteSet(R) /\ Cardinality(R) <= Cardinality(S)
  BY <1>3, <1>5, FS_Injection
<1>7. Cardinality(R) \in Nat
  BY <1>6, FS_CardinalityType
<1> QED BY <1>6, <1>7 DEF R
(***************************************************************************)
(* Every step is one of the pool's, or none.                               *)
(***************************************************************************)

(* The pool's actions, in terms of the phases. *)
PoolMoves(j, from, to) ==
  Phases[j] = from /\ NextPhases = [Phases EXCEPT ![j] = to]

PoolStep ==
  \/ \E j \in Jobs :
       \/ /\ main = "serving" /\ main' = "serving" /\ j \notin claimed
          /\ claimed' \in {claimed, claimed \union {j}}
          /\ PoolMoves(j, "idle", "queued")
       \/ /\ UNCHANGED <<claimed, main>>
          /\ Cardinality({k \in Jobs : Phases[k] = "running"}) < MaxPermits
          /\ PoolMoves(j, "queued", "running")
       \/ /\ UNCHANGED <<claimed, main>>
          /\ \/ PoolMoves(j, "running", "ended")
             \/ PoolMoves(j, "ended", "idle")
  \/ /\ main = "serving" /\ main' # "serving"
     /\ NextPhases = Phases /\ claimed' = claimed
  \/ /\ main # "serving" /\ main' # "serving" /\ claimed' = claimed
     /\ NextPhases = [j \in Jobs |-> IF Phases[j] \in {"queued", "running"}
                                    THEN "ended" ELSE Phases[j]]
  \/ NextPhases = Phases /\ claimed' = claimed
     /\ (main' = "serving" <=> main = "serving")

(* What PoolStep says is what JobPool says of the mapped variables. *)
LEMMA PoolStepIsPools == PoolStep => [Pool!Next]_(Pool!vars)
<1> SUFFICES ASSUME PoolStep PROVE [Pool!Next]_(Pool!vars)
  OBVIOUS
<1>1. ASSUME NEW j \in Jobs,
             main = "serving", main' = "serving", j \notin claimed,
             claimed' \in {claimed, claimed \union {j}},
             PoolMoves(j, "idle", "queued")
      PROVE  Pool!Admit(j)
  BY <1>1, PhasesMap DEF PoolMoves, Pool!Admit, Pool!Move
<1>2. ASSUME NEW j \in Jobs, UNCHANGED <<claimed, main>>,
             Cardinality({k \in Jobs : Phases[k] = "running"}) < MaxPermits,
             PoolMoves(j, "queued", "running")
      PROVE  Pool!Start(j)
  <2>1. Pool!Running = {k \in Jobs : Phases[k] = "running"}
    BY PhasesMap DEF Pool!Running
  <2>2. Pool!Move(j, "queued", "running")
    BY <1>2, PhasesMap DEF PoolMoves, Pool!Move
  <2>3. (main = "serving")' = (main = "serving")
    BY <1>2
  <2>4. Pool!Cardinality(Pool!Running) = Cardinality(Pool!Running)
    BY DEF Pool!Cardinality, Cardinality
  <2> QED BY <1>2, <2>1, <2>2, <2>3, <2>4 DEF Pool!Start
<1>3. ASSUME NEW j \in Jobs, UNCHANGED <<claimed, main>>,
             PoolMoves(j, "running", "ended") \/ PoolMoves(j, "ended", "idle")
      PROVE  Pool!Finish(j) \/ Pool!Forget(j)
  BY <1>3, PhasesMap DEF PoolMoves, Pool!Finish, Pool!Forget, Pool!Move
<1>4. ASSUME main = "serving", main' # "serving",
             NextPhases = Phases, claimed' = claimed
      PROVE  Pool!Close
  BY <1>4, PhasesMap DEF Pool!Close
<1>5. ASSUME main # "serving", main' # "serving", claimed' = claimed,
             NextPhases = [j \in Jobs |-> IF Phases[j] \in {"queued", "running"}
                                        THEN "ended" ELSE Phases[j]]
      PROVE  Pool!Abort
  BY <1>5, PhasesMap DEF Pool!Abort
<1>6. ASSUME NextPhases = Phases, claimed' = claimed,
             main' = "serving" <=> main = "serving"
      PROVE  UNCHANGED Pool!vars
  BY <1>6, PhasesMap DEF Pool!vars
<1> QED BY <1>1, <1>2, <1>3, <1>4, <1>5, <1>6 DEF PoolStep, Pool!Next

(* A task created for a claimed job takes it out of the idle ones. *)
LEMMA ClaimAdmits ==
  ASSUME IInv, IInv', NEW ok \in BOOLEAN, ClaimAnswered(ok)
  PROVE  PoolStep
<1> DEFINE job == Head(rest)
<1>1. /\ job \in Jobs /\ job \notin claimed /\ job \notin inFlight
      /\ main = "serving" /\ main' = main
      /\ claimed' \in {claimed, claimed \union {job}}
  BY DEF ClaimAnswered, daemonVars, IInv, TypeOK, ClaimFresh, PollerStopped, Busy, Ids
<1>2. PICK t \in Tasks : /\ task[t] = "free"
                         /\ task' = [task EXCEPT ![t] = "created"]
                         /\ jobOf' = [jobOf EXCEPT ![t] = job]
  BY DEF ClaimAnswered
<1> HIDE DEF job
<1>3. /\ task'[t] = "created" /\ jobOf'[t] = job
      /\ \A u \in Tasks \ {t} : task'[u] = task[u] /\ jobOf'[u] = jobOf[u]
  BY <1>2 DEF IInv, TypeOK
<1>4. \A t1, u \in Tasks : task[t1] # "free" /\ task[u] # "free" /\ jobOf[t1] = jobOf[u]
                             => t1 = u
  BY DEF IInv, OneTaskPerJob
<1>5. \A t1, u \in Tasks : task'[t1] # "free" /\ task'[u] # "free" /\ jobOf'[t1] = jobOf'[u]
                             => t1 = u
  BY DEF IInv, OneTaskPerJob
<1>6. \A u \in Tasks : task[u] # "free" => jobOf[u] # job
  BY <1>1 DEF IInv, InFlightExact
<1>7. Phases[job] = "idle"
  BY <1>1, <1>4, <1>6, PhaseByTask DEF Phases
<1>8. NextPhases[job] = "queued"
  <2>1. Phase(task', jobOf', jobOf'[t]) = PhaseIn(task'[t])
    BY <1>3, <1>5, PhaseByTask
  <2> QED BY <1>1, <1>3, <2>1 DEF NextPhases, PhaseIn
<1>9. ASSUME NEW j \in Jobs, j # job
      PROVE  NextPhases[j] = Phases[j]
  <2>1. CASE \E u \in Tasks : task[u] # "free" /\ jobOf[u] = j
    <3>1. PICK u \in Tasks : task[u] # "free" /\ jobOf[u] = j
      BY <2>1
    <3>2. task'[u] = task[u] /\ jobOf'[u] = j
      BY <1>2, <1>3, <3>1
    <3>3. Phase(task, jobOf, jobOf[u]) = PhaseIn(task[u])
      BY <1>4, <3>1, PhaseByTask
    <3>4. Phase(task', jobOf', jobOf'[u]) = PhaseIn(task'[u])
      BY <1>5, <3>1, <3>2, PhaseByTask
    <3> QED BY <3>1, <3>2, <3>3, <3>4 DEF Phases, NextPhases
  <2>2. CASE ~\E u \in Tasks : task[u] # "free" /\ jobOf[u] = j
    <3>1. \A u \in Tasks : task'[u] # "free" => jobOf'[u] # j
      BY <1>3, <1>9, <2>2
    <3>2. Phase(task', jobOf', j) = "idle"
      BY <1>5, <3>1, PhaseByTask
    <3>3. Phase(task, jobOf, j) = "idle"
      BY <1>4, <2>2, PhaseByTask
    <3> QED BY <3>2, <3>3 DEF Phases, NextPhases
  <2> QED BY <2>1, <2>2
<1>10. NextPhases = [Phases EXCEPT ![job] = "queued"]
  BY <1>1, <1>8, <1>9 DEF Phases, NextPhases
<1> QED BY <1>1, <1>7, <1>10 DEF PoolStep, PoolMoves
(* Entering and resuming start a job, or let it wait on. *)
LEMMA StartsRefine ==
  ASSUME IInv, IInv', NEW t \in Tasks, Enter(t) \/ Resume(t)
  PROVE  PoolStep
<1>1. /\ task[t] \in {"created", "granted"} /\ task[t] # "free"
      /\ UNCHANGED <<claimed, main, jobOf>>
      /\ task \in [Tasks -> TaskStates]
  BY DEF Enter, Resume, pollerVars, daemonVars, IInv, TypeOK
<1>2. queue # <<>> => Head(queue) \in Tasks /\ task[Head(queue)] = "waiting"
  BY TailWaits DEF IInv
<1>3. CASE task'[t] = "running"
  <2>1. /\ \A u \in Tasks : task'[u] = "free" <=> task[u] = "free"
        /\ \A u \in Tasks \ {t} : \/ task'[u] = task[u]
                                  \/ task[u] = "waiting" /\ task'[u] = "granted"
    BY <1>1, <1>2, <1>3 DEF Enter, Resume
  <2>2. \A u \in Tasks \ {t} : task[u] # "free" => PhaseIn(task'[u]) = PhaseIn(task[u])
    BY <2>1 DEF PhaseIn
  <2>3. PhaseIn(task[t]) = "queued" /\ PhaseIn(task'[t]) = "running"
    BY <1>1, <1>3 DEF PhaseIn
  <2>4. /\ jobOf[t] \in Jobs
        /\ PoolMoves(jobOf[t], "queued", "running")
    BY <1>1, <2>1, <2>2, <2>3, OneMoves DEF PoolMoves
  <2>5. Cardinality({k \in Jobs : Phases[k] = "running"}) < MaxPermits
    <3>1. permits \in Nat /\ MaxPermits \in Nat
          /\ permits + Cardinality(Holders) = MaxPermits
          /\ Cardinality(Holders) \in Nat
      BY HoldersFinite, PollerAssumption DEF IInv, TypeOK, PermitConservation
    <3>2. CASE Enter(t)
      <4>1. permits > 0
        BY <1>1, <1>3, <3>2 DEF Enter
      <4>2. Holders \in SUBSET Tasks /\ {u \in Tasks : task[u] = "running"} \subseteq Holders
        BY DEF Holders
      <4>3. Cardinality({k \in Jobs : Phases[k] = "running"}) <= Cardinality(Holders)
        BY <4>2, RunningBounded
      <4>4. Cardinality({k \in Jobs : Phases[k] = "running"}) \in Nat
        BY <4>2, RunningBounded
      <4> QED BY <3>1, <4>1, <4>3, <4>4
    <3>3. CASE Resume(t)
      <4>1. task[t] = "granted" /\ t \in Holders
        BY <3>3 DEF Resume, Holders
      <4>2. /\ Holders \ {t} \in SUBSET Tasks
            /\ {u \in Tasks : task[u] = "running"} \subseteq Holders \ {t}
        BY <4>1 DEF Holders
      <4>3. Cardinality({k \in Jobs : Phases[k] = "running"}) <= Cardinality(Holders \ {t})
        BY <4>2, RunningBounded
      <4>4. Cardinality({k \in Jobs : Phases[k] = "running"}) \in Nat
        BY <4>2, RunningBounded
      <4>5. Cardinality(Holders \ {t}) = Cardinality(Holders) - 1
        BY <4>1, HoldersFinite, FS_RemoveElement
      <4> QED BY <3>1, <4>3, <4>4, <4>5
    <3> QED BY <3>2, <3>3
  <2> QED BY <1>1, <2>4, <2>5 DEF PoolStep
<1>4. CASE task'[t] # "running"
  <2>1. task' = [task EXCEPT ![t] = "waiting"] /\ task[t] = "created"
    BY <1>1, <1>2, <1>4 DEF Enter, Resume
  <2>2. /\ \A u \in Tasks : task'[u] = "free" <=> task[u] = "free"
        /\ \A u \in Tasks : task[u] # "free" => PhaseIn(task'[u]) = PhaseIn(task[u])
    BY <1>1, <2>1 DEF PhaseIn
  <2>3. NextPhases = Phases
    BY <1>1, <2>2, NoneMoves
  <2> QED BY <1>1, <2>3 DEF PoolStep
<1> QED BY <1>3, <1>4

(* A task that ends finishes its job, unless a shutdown has cut it short,  *)
(* and wakes another, which does not start yet.                            *)
LEMMA EndsRefine ==
  ASSUME IInv, IInv', NEW t \in Tasks, Leave(t) \/ Unwind(t)
  PROVE  PoolStep
<1>1. /\ task[t] \in {"running", "cancelled"} /\ EndAndRelease(t)
      /\ UNCHANGED <<claimed, main, jobOf>>
      /\ task \in [Tasks -> TaskStates]
  BY DEF Leave, Unwind, pollerVars, daemonVars, IInv, TypeOK
<1>2. queue # <<>> => Head(queue) \in Tasks /\ task[Head(queue)] = "waiting"
  BY TailWaits DEF IInv
<1>3. /\ task'[t] = "ended"
      /\ \A u \in Tasks : task'[u] = "free" <=> task[u] = "free"
      /\ \A u \in Tasks \ {t} : \/ task'[u] = task[u]
                                \/ task[u] = "waiting" /\ task'[u] = "granted"
  BY <1>1, <1>2 DEF EndAndRelease
<1>4. \A u \in Tasks \ {t} : task[u] # "free" => PhaseIn(task'[u]) = PhaseIn(task[u])
  BY <1>3 DEF PhaseIn
<1>5. /\ jobOf[t] \in Jobs
      /\ Phases[jobOf[t]] = PhaseIn(task[t])
      /\ NextPhases = [Phases EXCEPT ![jobOf[t]] = PhaseIn(task'[t])]
  BY <1>1, <1>3, <1>4, OneMoves
<1>6. PhaseIn(task'[t]) = "ended"
  BY <1>3 DEF PhaseIn
<1>7. CASE task[t] = "running"
  <2>1. PhaseIn(task[t]) = "running"
    BY <1>7 DEF PhaseIn
  <2> QED BY <1>1, <1>5, <1>6, <2>1 DEF PoolStep, PoolMoves
<1>8. CASE task[t] = "cancelled"
  <2>1. PhaseIn(task[t]) = "ended"
    BY <1>8 DEF PhaseIn
  <2>2. NextPhases = Phases
    BY <1>5, <1>6, <2>1 DEF Phases
  <2> QED BY <1>1, <2>2 DEF PoolStep
<1> QED BY <1>1, <1>7, <1>8
(* The done callback forgets the job of an ended task. *)
LEMMA CollectRefines ==
  ASSUME IInv, IInv', NEW t \in Tasks, Collect(t)
  PROVE  PoolStep
<1>1. /\ task[t] = "ended" /\ jobOf[t] \in Jobs
      /\ task' = [task EXCEPT ![t] = "free"]
      /\ jobOf' = [jobOf EXCEPT ![t] = NoId]
      /\ UNCHANGED <<claimed, main>>
  BY DEF Collect, daemonVars, IInv, TaskHasJob
<1>2. /\ task'[t] = "free"
      /\ \A u \in Tasks \ {t} : task'[u] = task[u] /\ jobOf'[u] = jobOf[u]
  BY <1>1 DEF IInv, TypeOK
<1>3. \A v, u \in Tasks : task[v] # "free" /\ task[u] # "free" /\ jobOf[v] = jobOf[u]
                            => v = u
  BY DEF IInv, OneTaskPerJob
<1>4. \A v, u \in Tasks : task'[v] # "free" /\ task'[u] # "free" /\ jobOf'[v] = jobOf'[u]
                            => v = u
  BY DEF IInv, OneTaskPerJob
<1>5. Phases[jobOf[t]] = "ended"
  <2>1. Phase(task, jobOf, jobOf[t]) = PhaseIn(task[t])
    BY <1>1, <1>3, PhaseByTask
  <2> QED BY <1>1, <2>1 DEF Phases, PhaseIn
<1>6. NextPhases[jobOf[t]] = "idle"
  <2>1. PICK j \in Jobs : j = jobOf[t]
    BY <1>1
  <2>2. \A u \in Tasks : task'[u] # "free" => jobOf'[u] # j
    BY <1>1, <1>2, <1>3, <2>1
  <2>3. Phase(task', jobOf', j) = "idle"
    BY <1>4, <2>2, PhaseByTask
  <2> QED BY <2>1, <2>3 DEF NextPhases
<1>7. ASSUME NEW j \in Jobs, j # jobOf[t]
      PROVE  NextPhases[j] = Phases[j]
  <2>1. CASE \E u \in Tasks : task[u] # "free" /\ jobOf[u] = j
    <3>1. PICK u \in Tasks : task[u] # "free" /\ jobOf[u] = j
      BY <2>1
    <3>2. task'[u] = task[u] /\ jobOf'[u] = j
      BY <1>2, <1>7, <3>1
    <3>3. Phase(task, jobOf, jobOf[u]) = PhaseIn(task[u])
      BY <1>3, <3>1, PhaseByTask
    <3>4. Phase(task', jobOf', jobOf'[u]) = PhaseIn(task'[u])
      BY <1>4, <3>1, <3>2, PhaseByTask
    <3> QED BY <3>1, <3>2, <3>3, <3>4 DEF Phases, NextPhases
  <2>2. CASE ~\E u \in Tasks : task[u] # "free" /\ jobOf[u] = j
    <3>1. \A u \in Tasks : task'[u] # "free" => jobOf'[u] # j
      BY <1>2, <2>2
    <3>2. Phase(task', jobOf', j) = "idle"
      BY <1>4, <3>1, PhaseByTask
    <3>3. Phase(task, jobOf, j) = "idle"
      BY <1>3, <2>2, PhaseByTask
    <3> QED BY <3>2, <3>3 DEF Phases, NextPhases
  <2> QED BY <2>1, <2>2
<1>8. NextPhases = [Phases EXCEPT ![jobOf[t]] = "idle"]
  BY <1>1, <1>6, <1>7 DEF Phases, NextPhases
<1> QED BY <1>1, <1>5, <1>8 DEF PoolStep, PoolMoves

(* asyncio.run ends every queued and running job of the closed pool. *)
LEMMA CancelRefines ==
  ASSUME IInv, IInv', CancelJobs
  PROVE  PoolStep
<1>1. /\ main # "serving" /\ main' # "serving"
      /\ UNCHANGED <<claimed, jobOf>>
      /\ task \in [Tasks -> TaskStates]
  BY DEF CancelJobs, pollerVars, IInv, TypeOK
<1>2. \A t \in Tasks :
        task'[t] = CASE task[t] \in {"created", "waiting"} -> "ended"
                     [] task[t] \in {"granted", "running"} -> "cancelled"
                     [] OTHER -> task[t]
  BY DEF CancelJobs
<1>3. \A t \in Tasks :
        \/ task[t] \in {"created", "waiting"} /\ task'[t] = "ended"
        \/ task[t] \in {"granted", "running"} /\ task'[t] = "cancelled"
        \/ task[t] \in {"free", "cancelled", "ended"} /\ task'[t] = task[t]
  BY <1>1, <1>2 DEF TaskStates
<1>4. \A t \in Tasks : task'[t] = "free" <=> task[t] = "free"
  BY <1>3
<1>5. \A t \in Tasks : task[t] # "free" => PhaseIn(task'[t]) = "ended"
  BY <1>3 DEF PhaseIn
<1>6. \A t \in Tasks : task[t] # "free"
        => PhaseIn(task[t]) \in {"queued", "running", "ended"}
  BY DEF PhaseIn
<1>7. ASSUME NEW j \in Jobs
      PROVE  NextPhases[j] = IF Phases[j] \in {"queued", "running"}
                             THEN "ended" ELSE Phases[j]
  BY <1>1, <1>4, <1>5, <1>6, PhasesFollowTasks
<1>8. NextPhases = [j \in Jobs |-> IF Phases[j] \in {"queued", "running"}
                                 THEN "ended" ELSE Phases[j]]
  BY <1>7 DEF NextPhases
<1> QED BY <1>1, <1>8 DEF PoolStep

(* Polls, signals and the end of the loop are none of the pool's business; *)
(* stopping the loops closes it.                                           *)
LEMMA RestRefines ==
  ASSUME IInv, UNCHANGED <<task, jobOf, claimed>>,
         main' = main \/ main' # "serving"
  PROVE  PoolStep
<1>1. NextPhases = Phases
  BY DEF Phases, NextPhases
<1> QED BY <1>1 DEF PoolStep

(* Every step of the detailed model. *)
LEMMA NextRefines ==
  ASSUME IInv, IInv', [Next]_vars
  PROVE  [Pool!Next]_(Pool!vars)
<1> SUFFICES PoolStep
  BY PoolStepIsPools
<1>1. ASSUME NEW ok \in BOOLEAN, ClaimAnswered(ok) PROVE PoolStep
  BY <1>1, ClaimAdmits
<1>2. ASSUME NEW t \in Tasks, TaskStep(t) PROVE PoolStep
  BY <1>2, StartsRefine, EndsRefine, CollectRefines DEF TaskStep
<1>3. CASE CancelJobs
  BY <1>3, CancelRefines
<1>4. CASE \/ \E batch \in Batches : PollAnswered(batch)
           \/ \E unknown \in BOOLEAN : PollFailed(unknown)
           \/ Reattested
           \/ Woken
  BY <1>4, RestRefines
     DEF PollAnswered, PollFailed, Reattested, Woken, taskVars, daemonVars
<1>5. CASE Signal \/ StopLoops \/ CloseLoop \/ UNCHANGED vars
  BY <1>5, RestRefines
     DEF Signal, StopLoops, CloseLoop, vars, pollerVars, taskVars, daemonVars
<1> QED BY <1>1, <1>2, <1>3, <1>4, <1>5
        DEF Next, PollerStep, DaemonStep, Exited

(* In the beginning the pool is open, and every job idle. *)
LEMMA InitRefines == Init => Pool!Init
<1> SUFFICES ASSUME Init PROVE Pool!Init
  OBVIOUS
<1>1. \A j \in Jobs : Phase(task, jobOf, j) = "idle"
  BY DEF Init, Phase
<1>2. [j \in Jobs |-> PhaseOf(j)] = [j \in Jobs |-> "idle"]
  BY <1>1, PhasesMap DEF Phases
<1> QED BY <1>2 DEF Init, Pool!Init

(* assignment_poller and its semaphore do what JobPool says: no job is in  *)
(* two places, none that was confirmed is admitted again, no more than the *)
(* semaphore allows run at once, and none is admitted after the shutdown.  *)
THEOREM PollerIsAJobPool == Spec => ImplementsJobPool
<1>1. Init => Pool!Init
  BY InitRefines
<1>2. IInv /\ IInv' /\ [Next]_vars => [Pool!Next]_(Pool!vars)
  BY NextRefines
<1> QED BY <1>1, <1>2, Inductive, PTL DEF Spec, ImplementsJobPool, Pool!Spec
===============================================================================
