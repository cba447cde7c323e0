--------------------------------- MODULE Rounds ---------------------------------
(***************************************************************************)
(* Several nodes work on the same jobs.  Of each job one node is the       *)
(* leader; the others verify, and to do so wait for the leader's CID       *)
(* (_poll_leader_cid, job_handler.py).  A verifier keeps its permit of the *)
(* semaphore (node_loop.py) while it waits, and the leader it waits for    *)
(* may be queueing for a permit on a node that does the same: nodes can    *)
(* wait for one another in a circle.  On each node all jobs share one      *)
(* event loop, and the bridge and the model hold it while they work.       *)
(*                                                                         *)
(* Time is counted in units of forty seconds.  What a handler computes is  *)
(* JobHandler's, how tasks are made and cancelled is AssignmentPoller's.   *)
(***************************************************************************)
EXTENDS Naturals, Sequences, FiniteSets

CONSTANTS
  Nodes, Jobs,
  Leader,     (* the leader of each job                                    *)
  MaxRoom,    (* bound: the semaphore's size, two in the code; from 1 on   *)
  PollLimit,  (* the parameter `timeout` of _poll_leader_cid, three units  *)
  BlockMax,   (* bound: how long a call may hold the loop                  *)
  IoMax       (* bound: how long a request of a handler may take           *)

ASSUME RoundsAssumption ==
  /\ IsFiniteSet(Jobs)
  /\ Leader \in [Jobs -> Nodes]
  /\ MaxRoom \in Nat \ {0}
  /\ PollLimit \in Nat \ {0} /\ BlockMax \in Nat \ {0} /\ IoMax \in Nat

VARIABLES
  room,       (* the semaphore's size                                      *)
  queue,      (* tasks that wait for a permit, per node                    *)
  stage,      (* where the handler of a job is, per node                   *)
  stay,       (* how long it has been there; in a poll, since it began     *)
  acted,      (* polls that took a step in this unit                       *)
  turn,       (* polls that waited through a call that held the loop       *)
  published,  (* jobs whose result the ICL has                             *)
  unseen      (* history: how long it has had it while a verifier polled,  *)
              (* since the last request of that verifier that failed       *)

roundsVars == <<room, queue, stage, stay, acted, turn, published, unseen>>

(* Where a handler holds the loop: decrypting and inferring, encrypting    *)
(* and storing the output key; and where it waits for an answer: claiming  *)
(* and downloading, and so on.                                             *)
Blocking == {"infer", "store"}
Requests == {"fetch", "upload", "submit"}
Polling == {"ask", "sleep"}
Resolved == {"over", "skipped"}

JobsAt(n, places) == {j \in Jobs : stage[n][j] \in places}
LoopFree(n) == JobsAt(n, Blocking) = {}
Holders(n) == JobsAt(n, Blocking \union Requests \union Polling)

RoundsInit ==
  /\ room \in 1..MaxRoom
  /\ queue = [n \in Nodes |-> <<>>]
  /\ stage = [n \in Nodes |-> [j \in Jobs |-> "none"]]
  /\ stay = [n \in Nodes |-> [j \in Jobs |-> 0]]
  /\ acted = [n \in Nodes |-> {}]
  /\ turn = [n \in Nodes |-> {}]
  /\ published = {}
  /\ unseen = [n \in Nodes |-> [j \in Jobs |-> 0]]

Moves(n, j, p) == stage' = [stage EXCEPT ![n][j] = p]

(* The poller makes a task, which queues. *)
Listed(n, j) ==
  /\ LoopFree(n) /\ stage[n][j] = "none"
  /\ Moves(n, j, "queued")
  /\ queue' = [queue EXCEPT ![n] = Append(@, j)]
  /\ UNCHANGED <<room, stay, acted, turn, published, unseen>>

PermitTaken(n) ==
  /\ LoopFree(n) /\ queue[n] # <<>>
  /\ Cardinality(Holders(n)) < room
  /\ Moves(n, Head(queue[n]), "fetch")
  /\ queue' = [queue EXCEPT ![n] = Tail(@)]
  /\ UNCHANGED <<room, stay, acted, turn, published, unseen>>

(* _common_steps, then what the two roles do apart. *)
After(n, j) ==
  CASE stage[n][j] = "fetch" -> "infer"
    [] stage[n][j] = "infer" -> IF Leader[j] = n THEN "upload" ELSE "ask"
    [] stage[n][j] = "upload" -> "store"
    [] stage[n][j] = "store" -> "submit"
    [] stage[n][j] = "submit" -> "over"

(* asyncio serves what is due in its order: nothing holds the loop a       *)
(* second time before a poll that waited the first time.                   *)
Continues(n, j) ==
  /\ j \in JobsAt(n, Blocking) \/ (LoopFree(n) /\ j \in JobsAt(n, Requests))
  /\ Moves(n, j, After(n, j))
  /\ stay' = [stay EXCEPT ![n][j] = 0]
  /\ \/ After(n, j) \notin Blocking /\ UNCHANGED turn
     \/ /\ After(n, j) \in Blocking /\ turn[n] = {}
        /\ turn' = [turn EXCEPT ![n] = JobsAt(n, Polling) \ acted[n]]
  /\ UNCHANGED <<room, queue, acted, published, unseen>>

Leaves(n, j, p) ==
  /\ Moves(n, j, p)
  /\ stay' = [stay EXCEPT ![n][j] = 0]
  /\ acted' = [acted EXCEPT ![n] = @ \ {j}]
  /\ turn' = [turn EXCEPT ![n] = @ \ {j}]

(* An error that ends the handler, or the five minutes of a job. *)
Ends(n, j) ==
  /\ j \in JobsAt(n, Blocking) \/ (LoopFree(n) /\ j \in Holders(n))
  /\ Leaves(n, j, "over")
  /\ unseen' = [unseen EXCEPT ![n][j] = 0]
  /\ UNCHANGED <<room, queue, published>>

(* The ICL takes the leader's result. *)
Published(j) ==
  /\ j \in JobsAt(Leader[j], {"submit"})
  /\ published' = published \union {j}
  /\ UNCHANGED <<room, queue, stage, stay, acted, turn, unseen>>

(* Mutant of Asks: the deadline is left out. *)
AsksWithoutDeadline(n, j) == LoopFree(n) /\ j \in JobsAt(n, Polling)

(* The first request is sent whatever the time, a later one before the     *)
(* deadline only.                                                          *)
Asks(n, j) ==
  /\ LoopFree(n)
  /\ stage[n][j] = "ask" \/ (stage[n][j] = "sleep" /\ stay[n][j] < PollLimit)

Sleeps(n, j) ==
  /\ Moves(n, j, "sleep")
  /\ acted' = [acted EXCEPT ![n] = @ \union {j}]
  /\ turn' = [turn EXCEPT ![n] = @ \ {j}]
  /\ UNCHANGED <<room, queue, stay, published>>

Found(n, j) ==
  /\ Asks(n, j) /\ j \in published
  /\ Leaves(n, j, "submit")
  /\ unseen' = [unseen EXCEPT ![n][j] = 0]
  /\ UNCHANGED <<room, queue, published>>

(* Mutant of NotYet: the CID in the answer is overlooked. *)
NotYetOrOverlooked(n, j) ==
  /\ Asks(n, j)
  /\ Sleeps(n, j)
  /\ UNCHANGED unseen

(* get_job_status shows no CID so far. *)
NotYet(n, j) ==
  /\ Asks(n, j) /\ j \notin published
  /\ Sleeps(n, j)
  /\ UNCHANGED unseen

(* It failed, which is no reason to stop. *)
AskFailed(n, j) ==
  /\ Asks(n, j)
  /\ Sleeps(n, j)
  /\ unseen' = [unseen EXCEPT ![n][j] = 0]

(* The deadline has passed when the handler wakes up. *)
GiveUp(n, j) ==
  /\ LoopFree(n) /\ stage[n][j] = "sleep"
  /\ stay[n][j] >= PollLimit
  /\ Leaves(n, j, "skipped")
  /\ UNCHANGED <<room, queue, published, unseen>>

HandlerStep(n, j) ==
  \/ Continues(n, j)
  \/ Found(n, j) \/ NotYet(n, j) \/ GiveUp(n, j)

(* On a free loop nothing that is due is left undone for a whole unit. *)
NothingDue(n) ==
  /\ \A j \in JobsAt(n, Blocking) : stay[n][j] < BlockMax
  /\ \A j \in JobsAt(n, Requests) : ~LoopFree(n) \/ stay[n][j] < IoMax
  /\ LoopFree(n) => JobsAt(n, Polling) \subseteq acted[n]
  /\ LoopFree(n) => queue[n] = <<>> \/ Cardinality(Holders(n)) = room

(* Clocks stop where nothing tells them apart any more. *)
Longest == PollLimit + BlockMax + IoMax
Aged(n, j, t) ==
  IF j \in Holders(n) /\ t < Longest THEN t + 1 ELSE t

FortySeconds ==
  /\ \A n \in Nodes : NothingDue(n)
  /\ \E n \in Nodes : Holders(n) # {}
  /\ stay' = [n \in Nodes |-> [j \in Jobs |-> Aged(n, j, stay[n][j])]]
  /\ unseen' = [n \in Nodes |-> [j \in Jobs |->
                  IF j \in published \intersect JobsAt(n, Polling)
                  THEN Aged(n, j, unseen[n][j]) ELSE unseen[n][j]]]
  /\ acted' = [n \in Nodes |-> {}]
  /\ UNCHANGED <<room, queue, stage, turn, published>>

RoundsNext ==
  \/ \E n \in Nodes, j \in Jobs :
       \/ Listed(n, j)
       \/ HandlerStep(n, j) \/ AskFailed(n, j)
       \/ Ends(n, j)
  \/ \E n \in Nodes : PermitTaken(n)
  \/ \E j \in Jobs : Published(j)
  \/ FortySeconds

RoundsSpec == RoundsInit /\ [][RoundsNext]_roundsVars

(* Handlers go on, permits are handed out, time passes.  No job need ever  *)
(* end by an error or by its five minutes.                                 *)
RoundsProgress ==
  \/ \E n \in Nodes : PermitTaken(n) \/ \E j \in Jobs : HandlerStep(n, j)
  \/ FortySeconds

RoundsFairness == WF_roundsVars(RoundsProgress)

(***************************************************************************)
(* Properties.                                                             *)
(***************************************************************************)

RoundsTypeOK ==
  /\ room \in 1..MaxRoom
  /\ queue \in [Nodes -> Seq(Jobs)]
  /\ stage \in [Nodes -> [Jobs -> {"none", "queued"} \union Blocking \union Requests
                                    \union Polling \union Resolved]]
  /\ stay \in [Nodes -> [Jobs -> 0..Longest]] /\ unseen \in [Nodes -> [Jobs -> 0..Longest]]
  /\ acted \in [Nodes -> SUBSET Jobs] /\ turn \in [Nodes -> SUBSET Jobs]
  /\ \A n \in Nodes : turn[n] \subseteq JobsAt(n, Polling)
  /\ published \subseteq Jobs

(* A verifier that gives up has not missed much: the leader's result came  *)
(* not earlier than twice the time the loop can be held before             *)
(* (job_handler.py 350-370), which may be the last of the 120 seconds or   *)
(* after them.                                                             *)
SkippedOnlyLate ==
  \A n \in Nodes, j \in Jobs :
    stage[n][j] = "skipped" => unseen[n][j] <= 2 * BlockMax

(* In the end no task queues and no permit is held, though verifiers keep  *)
(* theirs while they wait for leaders that queue behind other verifiers:   *)
(* the polls that time out break every circle (node_loop.py 287,           *)
(* job_handler.py 351).                                                    *)
RoundsEnd == <>[](\A n \in Nodes : queue[n] = <<>> /\ Holders(n) = {})
===============================================================================
