----------------------------- MODULE RoundsProofs -----------------------------
(***************************************************************************)
(* How late a verifier's poll may be, and that the rounds never come to a  *)
(* standstill, for any nodes and jobs and every bound on time.             *)
(***************************************************************************)
EXTENDS Rounds, FiniteSetTheorems, SequenceTheorems, TLAPS

(* The queue holds queueing jobs, each once. *)
QueueOrder ==
  \A n \in Nodes :
    /\ \A i \in DOMAIN queue[n] : stage[n][queue[n][i]] = "queued"
    /\ \A i, k \in DOMAIN queue[n] : queue[n][i] = queue[n][k] => i = k

HoldBounded == \A n \in Nodes : \A k \in JobsAt(n, Blocking) : stay[n][k] <= BlockMax

(* A poll that waits for its turn has not acted in this unit. *)
TurnApart == \A n \in Nodes : turn[n] \intersect acted[n] = {}

(* A poll that acted in this unit has missed nothing, and neither has one  *)
(* whose leader has nothing to show.                                       *)
NothingMissed ==
  \A n \in Nodes, j \in Jobs :
    \/ stage[n][j] \notin Polling \union {"skipped"}
    \/ stage[n][j] \in Polling /\ (j \in acted[n] \/ j \notin published)
    => unseen[n][j] = 0

(* What a poll may have missed before the loop was held last. *)
Before(n, j) == IF j \in turn[n] THEN BlockMax ELSE 0

(* While the loop is held, a poll misses as much as the call takes. *)
MissedWhileHeld ==
  \A n \in Nodes : \A k \in JobsAt(n, Blocking), j \in JobsAt(n, Polling) :
    unseen[n][j] <= Before(n, j) + stay[n][k]

MissedWhenFree ==
  \A n \in Nodes : LoopFree(n) =>
    \A j \in JobsAt(n, Polling) : unseen[n][j] <= Before(n, j) + BlockMax

RoundsInv ==
  /\ RoundsTypeOK
  /\ QueueOrder
  /\ HoldBounded
  /\ TurnApart
  /\ NothingMissed
  /\ MissedWhileHeld
  /\ MissedWhenFree
  /\ SkippedOnlyLate

-------------------------------------------------------------------------------

(* The longest a clock counts is past every bound. *)
LEMMA RoundsFacts ==
  /\ BlockMax \in Nat \ {0} /\ Longest \in Nat /\ BlockMax < Longest
  /\ PollLimit \in Nat /\ IoMax \in Nat
BY RoundsAssumption DEF Longest

(* A clock goes on by one at most, and does go on before its end. *)
LEMMA AgedFacts ==
  ASSUME NEW n \in Nodes, NEW j \in Jobs, NEW t \in 0..Longest
  PROVE  /\ Aged(n, j, t) \in 0..Longest
         /\ Aged(n, j, t) <= t + 1
         /\ j \in Holders(n) /\ t < Longest => Aged(n, j, t) = t + 1
BY RoundsFacts DEF Aged

(* Nothing has happened when the nodes start. *)
LEMMA RoundsInitInv == RoundsInit => RoundsInv
<1> SUFFICES ASSUME RoundsInit
             PROVE  RoundsInv
  OBVIOUS
<1> USE RoundsFacts DEF RoundsInit, JobsAt, LoopFree, Blocking, Polling, Requests, Resolved
<1>1. RoundsTypeOK
  BY EmptySeq DEF RoundsTypeOK
<1>2. QueueOrder
  BY DEF QueueOrder
<1>3. HoldBounded /\ TurnApart /\ NothingMissed
  BY DEF HoldBounded, TurnApart, NothingMissed
<1>4. MissedWhileHeld /\ MissedWhenFree /\ SkippedOnlyLate
  BY DEF MissedWhileHeld, MissedWhenFree, SkippedOnlyLate, Before
<1>5. QED
  BY <1>1, <1>2, <1>3, <1>4 DEF RoundsInv

(* Where nothing polls, holds the loop or gives up that did not before,    *)
(* nothing is missed either.                                               *)
LEMMA ApartKeeps ==
  ASSUME RoundsInv, NEW n \in Nodes, NEW j \in Jobs, NEW p,
         stage[n][j] \notin Blocking \union Polling \union {"skipped"}, Moves(n, j, p),
         p \notin Blocking \union Polling \union {"skipped"},
         UNCHANGED <<stay, acted, turn, unseen, published>>
  PROVE  /\ HoldBounded' /\ TurnApart' /\ NothingMissed'
         /\ MissedWhileHeld' /\ MissedWhenFree' /\ SkippedOnlyLate'
<1> USE DEF RoundsInv
<1>1. \A m \in Nodes, k \in Jobs :
        stage'[m][k] = IF m = n /\ k = j THEN p ELSE stage[m][k]
  BY DEF Moves, RoundsTypeOK
<1>2. \A m \in Nodes : /\ JobsAt(m, Blocking)' = JobsAt(m, Blocking)
                       /\ JobsAt(m, Polling)' = JobsAt(m, Polling)
                       /\ LoopFree(m)' = LoopFree(m)
  BY <1>1 DEF JobsAt, LoopFree
<1>3. HoldBounded' /\ TurnApart'
  BY <1>2 DEF HoldBounded, TurnApart
<1>4. NothingMissed' /\ SkippedOnlyLate'
  BY <1>1 DEF NothingMissed, SkippedOnlyLate
<1>5. MissedWhileHeld'
  BY <1>2 DEF MissedWhileHeld, Before
<1>6. MissedWhenFree'
  BY <1>2 DEF MissedWhenFree, Before
<1>7. QED
  BY <1>3, <1>4, <1>5, <1>6

(* A task that queues up, or is handed a permit, polls for nothing. *)
LEMMA QueueKeeps ==
  ASSUME RoundsInv, NEW n \in Nodes,
         PermitTaken(n) \/ \E j \in Jobs : Listed(n, j)
  PROVE  RoundsInv'
<1> USE RoundsFacts DEF RoundsInv, Moves
<1>1. CASE \E j \in Jobs : Listed(n, j)
  <2> PICK j \in Jobs : Listed(n, j)
    BY <1>1
  <2>1. queue[n] \in Seq(Jobs) /\ stage[n][j] = "none"
    BY DEF Listed, RoundsTypeOK
  <2>2. \A i \in DOMAIN queue[n] : queue[n][i] # j
    BY <2>1 DEF QueueOrder
  <2>3. RoundsTypeOK'
    BY <2>1, AppendProperties DEF Listed, RoundsTypeOK, JobsAt, Polling
  <2>4. QueueOrder'
    <3>1. queue'[n] = Append(queue[n], j) /\ \A m \in Nodes \ {n} : queue'[m] = queue[m]
      BY DEF Listed, RoundsTypeOK
    <3>2. stage'[n][j] = "queued" /\ \A m \in Nodes, k \in Jobs :
                                       m # n \/ k # j => stage'[m][k] = stage[m][k]
      BY DEF Listed, RoundsTypeOK
    <3>3. \A m \in Nodes : DOMAIN queue[m] = 1..Len(queue[m]) /\ \A i \in DOMAIN queue[m] : queue[m][i] \in Jobs
      BY DEF RoundsTypeOK
    <3>4. \A i \in DOMAIN queue'[n] : \/ i \in DOMAIN queue[n] /\ queue'[n][i] = queue[n][i]
                                      \/ i = Len(queue[n]) + 1 /\ queue'[n][i] = j
      BY <2>1, <3>1, AppendProperties
    <3>5. QED
      BY <2>2, <3>1, <3>2, <3>3, <3>4 DEF QueueOrder
  <2>5. QED
    BY <2>1, <2>3, <2>4, ApartKeeps DEF Listed, Blocking, Polling
<1>2. CASE PermitTaken(n)
  <2> DEFINE j == Head(queue[n])
  <2>1. queue[n] \in Seq(Jobs) /\ queue[n] # <<>>
    BY <1>2 DEF PermitTaken, RoundsTypeOK
  <2>2. j \in Jobs /\ j = queue[n][1] /\ stage[n][j] = "queued"
    BY <2>1 DEF QueueOrder
  <2>3. RoundsTypeOK'
    BY <1>2, <2>1, <2>2, HeadTailProperties
       DEF PermitTaken, RoundsTypeOK, JobsAt, Polling, Requests
  <2>4. QueueOrder'
    <3>1. queue'[n] = Tail(queue[n]) /\ \A m \in Nodes \ {n} : queue'[m] = queue[m]
      BY <1>2 DEF PermitTaken, RoundsTypeOK
    <3>2. \A m \in Nodes, k \in Jobs : m # n \/ k # j => stage'[m][k] = stage[m][k]
      BY <1>2, <2>2 DEF PermitTaken, RoundsTypeOK
    <3>3. \A m \in Nodes : DOMAIN queue[m] = 1..Len(queue[m]) /\ \A i \in DOMAIN queue[m] : queue[m][i] \in Jobs
      BY DEF RoundsTypeOK
    <3>4. \A i \in DOMAIN queue'[n] : /\ i \in Nat /\ i + 1 \in DOMAIN queue[n] /\ i # 0
                                      /\ queue'[n][i] = queue[n][i + 1]
      BY <2>1, <3>1, HeadTailProperties
    <3>5. \A i \in DOMAIN queue'[n] : queue'[n][i] # j /\ queue'[n][i] \in Jobs
      BY <2>1, <2>2, <3>3, <3>4 DEF QueueOrder
    <3>6. ASSUME NEW m \in Nodes, m # n
          PROVE  \A i \in DOMAIN queue'[m] :
                   /\ stage'[m][queue'[m][i]] = "queued"
                   /\ \A k \in DOMAIN queue'[m] : queue'[m][i] = queue'[m][k] => i = k
      BY <3>1, <3>2, <3>3, <3>6 DEF QueueOrder
    <3>7. \A i \in DOMAIN queue'[n] :
            /\ stage'[n][queue'[n][i]] = "queued"
            /\ \A k \in DOMAIN queue'[n] : queue'[n][i] = queue'[n][k] => i = k
      <4>1. \A i \in DOMAIN queue'[n] : stage'[n][queue'[n][i]] = stage[n][queue[n][i + 1]]
        BY <3>2, <3>4, <3>5
      <4>2. QED
        BY <3>4, <4>1 DEF QueueOrder
    <3>8. QED
      BY <3>6, <3>7 DEF QueueOrder
  <2>5. QED
    BY <1>2, <2>2, <2>3, <2>4, ApartKeeps DEF PermitTaken, Blocking, Polling
<1>3. QED
  BY <1>1, <1>2

(* A handler that moves leaves the queue as it is, for it is past it. *)
LEMMA QueueStays ==
  ASSUME RoundsInv, NEW n \in Nodes, NEW j \in Jobs, NEW p,
         stage[n][j] # "queued", Moves(n, j, p), queue' = queue
  PROVE  QueueOrder'
<1>1. \A m \in Nodes, k \in Jobs :
        stage'[m][k] = IF m = n /\ k = j THEN p ELSE stage[m][k]
  BY DEF Moves, RoundsInv, RoundsTypeOK
<1>2. \A m \in Nodes : \A i \in DOMAIN queue[m] : queue[m][i] \in Jobs
  BY DEF RoundsInv, RoundsTypeOK
<1>3. QED
  BY <1>1, <1>2 DEF QueueOrder, RoundsInv

(* A handler that goes on takes the loop when it is free and every poll    *)
(* had its turn, or gives it back.                                         *)
LEMMA ContinuesKeeps ==
  ASSUME RoundsInv, NEW n \in Nodes, NEW j \in Jobs, Continues(n, j)
  PROVE  RoundsInv'
<1> USE RoundsFacts DEF RoundsInv, Continues
<1> DEFINE p == After(n, j)
<1>1. /\ stage[n][j] \in Blocking \union Requests
      /\ p \in Blocking \union Requests \union {"ask", "over"}
      /\ p \in Blocking => LoopFree(n) /\ turn[n] = {}
      /\ p = "ask" => stage[n][j] \in Blocking
  BY DEF JobsAt, After, Blocking, Requests, LoopFree
<1>2. \A m \in Nodes, k \in Jobs :
        /\ stage'[m][k] = IF m = n /\ k = j THEN p ELSE stage[m][k]
        /\ stay'[m][k] = IF m = n /\ k = j THEN 0 ELSE stay[m][k]
  BY DEF Moves, RoundsTypeOK
<1>3. unseen[n][j] = 0
  BY <1>1 DEF NothingMissed, Blocking, Requests, Polling
<1>4. /\ \A m \in Nodes \ {n} : turn'[m] = turn[m]
      /\ turn'[n] = IF p \in Blocking THEN JobsAt(n, Polling) \ acted[n] ELSE turn[n]
  BY DEF RoundsTypeOK
<1> HIDE DEF p
<1>5. \A m \in Nodes \ {n} : /\ JobsAt(m, Blocking)' = JobsAt(m, Blocking)
                            /\ JobsAt(m, Polling)' = JobsAt(m, Polling)
                            /\ LoopFree(m)' = LoopFree(m)
  BY <1>2 DEF JobsAt, LoopFree
<1>6. /\ JobsAt(n, Polling) \subseteq JobsAt(n, Polling)'
      /\ \A k \in JobsAt(n, Polling)' : (k = j /\ p = "ask") \/ k \in JobsAt(n, Polling)
      /\ \A k \in JobsAt(n, Blocking)' :
           (k = j /\ p \in Blocking) \/ (k # j /\ k \in JobsAt(n, Blocking))
      /\ j \notin JobsAt(n, Polling)
  <2>1. stage[n][j] \notin Polling /\ (p \in Polling => p = "ask")
    BY <1>1 DEF Blocking, Polling, Requests
  <2>2. \A k \in Jobs : k # j => stage'[n][k] = stage[n][k]
    BY <1>2
  <2>3. stage'[n][j] = p
    BY <1>2
  <2>4. QED
    BY <2>1, <2>2, <2>3 DEF JobsAt
<1>7. RoundsTypeOK'
  <2>1. turn' \in [Nodes -> SUBSET Jobs]
    <3>1. JobsAt(n, Polling) \ acted[n] \in SUBSET Jobs /\ turn \in [Nodes -> SUBSET Jobs]
      BY DEF RoundsTypeOK, JobsAt
    <3>2. \/ turn' = turn
          \/ turn' = [turn EXCEPT ![n] = JobsAt(n, Polling) \ acted[n]]
      OBVIOUS
    <3>3. QED
      BY <3>1, <3>2
  <2>2. \A m \in Nodes : turn'[m] \subseteq JobsAt(m, Polling)'
    BY <1>4, <1>5, <1>6 DEF RoundsTypeOK
  <2>3. stage' \in [Nodes -> [Jobs -> {"none", "queued"} \union Blocking \union Requests
                                      \union Polling \union Resolved]]
    BY <1>1 DEF RoundsTypeOK, Moves, p, Polling, Resolved
  <2>4. stay' \in [Nodes -> [Jobs -> 0..Longest]]
    BY DEF RoundsTypeOK
  <2>5. QED
    BY <2>1, <2>2, <2>3, <2>4 DEF RoundsTypeOK
<1>8. QueueOrder'
  BY <1>1, QueueStays DEF Blocking, Requests
<1>9. HoldBounded'
  BY <1>2, <1>5, <1>6 DEF HoldBounded, JobsAt
<1>10. TurnApart'
  BY <1>4 DEF TurnApart
<1>11. NothingMissed'
  BY <1>2, <1>3 DEF NothingMissed
<1>12. MissedWhileHeld'
  <2> SUFFICES ASSUME NEW m \in Nodes, NEW k \in JobsAt(m, Blocking)', NEW i \in JobsAt(m, Polling)'
               PROVE  unseen[m][i] <= Before(m, i)' + stay'[m][k]
    BY DEF MissedWhileHeld
  <2>1. i \in Jobs /\ k \in Jobs /\ unseen[m][i] \in Nat /\ stay[m][k] \in Nat
    BY DEF JobsAt, RoundsTypeOK
  <2>2. CASE m # n
    BY <1>2, <1>4, <1>5, <2>1, <2>2 DEF MissedWhileHeld, Before
  <2>3. CASE m = n /\ i = j
    BY <1>2, <1>3, <2>1, <2>3 DEF Before
  <2>4. CASE m = n /\ i # j /\ k # j
    <3>1. k \in JobsAt(n, Blocking) /\ i \in JobsAt(n, Polling) /\ ~LoopFree(n)
      BY <1>6, <2>4 DEF LoopFree
    <3>2. turn'[n] = turn[n] /\ stay'[n][k] = stay[n][k]
      BY <1>1, <1>2, <1>4, <2>1, <2>4, <3>1 DEF p
    <3>3. QED
      BY <2>4, <3>1, <3>2 DEF MissedWhileHeld, Before
  <2>5. CASE m = n /\ i # j /\ k = j
    <3>1. p \in Blocking /\ i \in JobsAt(n, Polling) /\ LoopFree(n) /\ turn[n] = {}
      BY <1>1, <1>6, <2>5 DEF p
    <3>2. CASE i \in acted[n]
      BY <2>1, <2>5, <3>1, <3>2, <1>2 DEF NothingMissed, JobsAt, Before
    <3>3. CASE i \notin acted[n]
      <4>1. unseen[n][i] <= BlockMax /\ i \in turn'[n] /\ stay'[n][k] = 0
        BY <1>2, <1>4, <2>1, <2>5, <3>1, <3>3 DEF MissedWhenFree, Before
      <4>2. QED
        BY <4>1, <2>5, <2>1 DEF Before
    <3>4. QED
      BY <3>2, <3>3
  <2>6. QED
    BY <2>2, <2>3, <2>4, <2>5
<1>13. MissedWhenFree'
  <2> SUFFICES ASSUME NEW m \in Nodes, LoopFree(m)', NEW i \in JobsAt(m, Polling)'
               PROVE  unseen[m][i] <= Before(m, i)' + BlockMax
    BY DEF MissedWhenFree
  <2>1. i \in Jobs /\ unseen[m][i] \in Nat
    BY DEF JobsAt, RoundsTypeOK
  <2>2. CASE m # n
    BY <1>4, <1>5, <2>2 DEF MissedWhenFree, Before
  <2>3. CASE m = n /\ i = j
    BY <1>3, <2>3 DEF Before
  <2>4. CASE m = n /\ i # j
    <3>1. i \in JobsAt(n, Polling) /\ p \notin Blocking
      BY <1>2, <1>6, <2>4 DEF LoopFree, JobsAt
    <3>2. turn'[n] = turn[n]
      BY <1>4, <3>1
    <3>3. CASE LoopFree(n)
      BY <2>4, <3>1, <3>2, <3>3 DEF MissedWhenFree, Before
    <3>4. CASE ~LoopFree(n)
      <4>1. j \in JobsAt(n, Blocking) /\ stay[n][j] \in Nat /\ stay[n][j] <= BlockMax
        BY <3>4 DEF LoopFree, HoldBounded, RoundsTypeOK
      <4>2. unseen[n][i] <= Before(n, i) + stay[n][j]
        BY <3>1, <4>1 DEF MissedWhileHeld
      <4>3. QED
        BY <2>1, <2>4, <3>2, <4>1, <4>2 DEF Before
    <3>5. QED
      BY <3>3, <3>4
  <2>5. QED
    BY <2>2, <2>3, <2>4
<1>14. SkippedOnlyLate'
  BY <1>1, <1>2 DEF SkippedOnlyLate, Blocking, Requests
<1>15. QED
  BY <1>7, <1>8, <1>9, <1>10, <1>11, <1>12, <1>13, <1>14

(* A handler that stops polling or holding the loop leaves the other polls *)
(* what they have missed so far.                                           *)
LEMMA LeavesKeeps ==
  ASSUME RoundsInv, NEW n \in Nodes, NEW j \in Jobs, NEW p \in {"over", "submit", "skipped"},
         Leaves(n, j, p), j \in Holders(n), UNCHANGED <<room, queue, published>>,
         \/ p # "skipped" /\ unseen' = [unseen EXCEPT ![n][j] = 0]
         \/ /\ p = "skipped" /\ UNCHANGED unseen
            /\ j \in JobsAt(n, Polling) /\ LoopFree(n)
  PROVE  RoundsInv'
<1> USE RoundsFacts DEF RoundsInv
<1>1. \A m \in Nodes, k \in Jobs :
        /\ stage'[m][k] = IF m = n /\ k = j THEN p ELSE stage[m][k]
        /\ stay'[m][k] = IF m = n /\ k = j THEN 0 ELSE stay[m][k]
        /\ m # n \/ k # j => unseen'[m][k] = unseen[m][k]
  BY DEF Leaves, Moves, RoundsTypeOK
<1>2. \A m \in Nodes :
        /\ acted'[m] = IF m = n THEN acted[n] \ {j} ELSE acted[m]
        /\ turn'[m] = IF m = n THEN turn[n] \ {j} ELSE turn[m]
  BY DEF Leaves, RoundsTypeOK
<1>3. p \notin Blocking \union Polling
  BY DEF Blocking, Polling
<1>4. \A m \in Nodes, k \in Jobs :
        /\ k \in JobsAt(m, Blocking)' <=> k \in JobsAt(m, Blocking) /\ (m # n \/ k # j)
        /\ k \in JobsAt(m, Polling)' <=> k \in JobsAt(m, Polling) /\ (m # n \/ k # j)
  BY <1>1, <1>3 DEF JobsAt
<1>5. \A m \in Nodes : JobsAt(m, Blocking)' \subseteq Jobs /\ JobsAt(m, Polling)' \subseteq Jobs
                       /\ JobsAt(m, Blocking) \subseteq Jobs
  BY DEF JobsAt
<1>6. RoundsTypeOK'
  <2>1. \A m \in Nodes : turn'[m] \subseteq JobsAt(m, Polling)'
    BY <1>2, <1>4 DEF RoundsTypeOK
  <2>2. stage' \in [Nodes -> [Jobs -> {"none", "queued"} \union Blocking \union Requests
                                      \union Polling \union Resolved]]
    BY DEF RoundsTypeOK, Leaves, Moves, Requests, Resolved
  <2>3. stay' \in [Nodes -> [Jobs -> 0..Longest]] /\ unseen' \in [Nodes -> [Jobs -> 0..Longest]]
    <3>1. stay' \in [Nodes -> [Jobs -> 0..Longest]]
      BY DEF RoundsTypeOK, Leaves
    <3>2. unseen' = unseen \/ unseen' = [unseen EXCEPT ![n][j] = 0]
      OBVIOUS
    <3>3. unseen \in [Nodes -> [Jobs -> 0..Longest]] /\ 0 \in 0..Longest
      BY DEF RoundsTypeOK
    <3>4. unseen' \in [Nodes -> [Jobs -> 0..Longest]]
      BY <3>2, <3>3
    <3>5. QED
      BY <3>1, <3>4
  <2>4. acted' \in [Nodes -> SUBSET Jobs] /\ turn' \in [Nodes -> SUBSET Jobs]
    BY DEF RoundsTypeOK, Leaves
  <2>5. QED
    BY <2>1, <2>2, <2>3, <2>4 DEF RoundsTypeOK
<1>7. QueueOrder'
  <2>1. stage[n][j] # "queued"
    BY DEF Holders, JobsAt, Blocking, Requests, Polling
  <2>2. QED
    BY <2>1, QueueStays DEF Leaves
<1>8. HoldBounded' /\ TurnApart'
  BY <1>1, <1>2, <1>4, <1>5 DEF HoldBounded, TurnApart
<1>9. NothingMissed'
  <2>1. ASSUME NEW m \in Nodes, NEW k \in Jobs, m # n \/ k # j
        PROVE  /\ stage'[m][k] = stage[m][k] /\ unseen'[m][k] = unseen[m][k]
               /\ k \in acted'[m] => k \in acted[m]
    BY <1>1, <1>2, <2>1
  <2>2. p # "skipped" => unseen'[n][j] = 0
    BY DEF RoundsTypeOK
  <2>3. stage'[n][j] = p /\ published' = published
    BY <1>1
  <2>4. QED
    BY <1>3, <2>1, <2>2, <2>3 DEF NothingMissed
<1>10. MissedWhileHeld'
  BY <1>1, <1>2, <1>4, <1>5 DEF MissedWhileHeld, Before
<1>11. MissedWhenFree'
  <2> SUFFICES ASSUME NEW m \in Nodes, LoopFree(m)', NEW i \in JobsAt(m, Polling)'
               PROVE  unseen'[m][i] <= Before(m, i)' + BlockMax
    BY DEF MissedWhenFree
  <2>1. /\ i \in Jobs /\ i \in JobsAt(m, Polling) /\ unseen[m][i] \in Nat
        /\ unseen'[m][i] = unseen[m][i] /\ Before(m, i)' = Before(m, i)
    <3>1. i \in Jobs /\ i \in JobsAt(m, Polling) /\ (m # n \/ i # j)
      BY <1>4, <1>5
    <3>2. unseen[m][i] \in Nat /\ unseen'[m][i] = unseen[m][i]
      BY <1>1, <3>1 DEF RoundsTypeOK
    <3>3. i \in turn'[m] <=> i \in turn[m]
      BY <1>2, <3>1
    <3>4. QED
      BY <3>1, <3>2, <3>3 DEF Before
  <2>2. CASE LoopFree(m)
    BY <2>1, <2>2 DEF MissedWhenFree
  <2>3. CASE ~LoopFree(m)
    <3>1. PICK k \in JobsAt(m, Blocking) : TRUE
      BY <2>3 DEF LoopFree
    <3>2. stay[m][k] \in Nat /\ stay[m][k] <= BlockMax
      BY <1>5 DEF HoldBounded, RoundsTypeOK
    <3>3. unseen[m][i] <= Before(m, i) + stay[m][k]
      BY <2>1 DEF MissedWhileHeld
    <3>4. QED
      BY <2>1, <3>2, <3>3 DEF Before
  <2>4. QED
    BY <2>2, <2>3
<1>12. SkippedOnlyLate'
  <2>1. p = "skipped" => unseen[n][j] <= 2 * BlockMax
    <3>1. p = "skipped" => unseen[n][j] <= Before(n, j) + BlockMax
      BY DEF MissedWhenFree
    <3>2. unseen[n][j] \in Nat
      BY DEF RoundsTypeOK
    <3>3. QED
      BY <3>1, <3>2 DEF Before
  <2>2. p = "skipped" => unseen' = unseen
    OBVIOUS
  <2>3. QED
    BY <1>1, <2>1, <2>2 DEF SkippedOnlyLate
<1>13. QED
  BY <1>6, <1>7, <1>8, <1>9, <1>10, <1>11, <1>12

(* A poll that asked and found nothing, or was not answered, starts to     *)
(* count from there.                                                       *)
LEMMA SleepsKeeps ==
  ASSUME RoundsInv, NEW n \in Nodes, NEW j \in Jobs,
         NotYet(n, j) \/ AskFailed(n, j)
  PROVE  RoundsInv'
<1> USE RoundsFacts DEF RoundsInv, Asks
<1>1. Sleeps(n, j) /\ LoopFree(n) /\ stage[n][j] \in Polling
  BY DEF NotYet, AskFailed, Polling
<1>2. unseen' = [unseen EXCEPT ![n][j] = 0]
  <2>1. CASE NotYet(n, j)
    <3>1. unseen[n][j] = 0
      BY <1>1, <2>1 DEF NotYet, NothingMissed
    <3>2. unseen' = unseen /\ unseen \in [Nodes -> [Jobs -> 0..Longest]]
      BY <2>1 DEF NotYet, RoundsTypeOK
    <3>3. QED
      BY <3>1, <3>2
  <2>2. QED
    BY <2>1 DEF AskFailed
<1>3. \A m \in Nodes, k \in Jobs :
        /\ stage'[m][k] = IF m = n /\ k = j THEN "sleep" ELSE stage[m][k]
        /\ unseen'[m][k] = IF m = n /\ k = j THEN 0 ELSE unseen[m][k]
  BY <1>1, <1>2 DEF Sleeps, Moves, RoundsTypeOK
<1>4. \A m \in Nodes :
        /\ acted'[m] = IF m = n THEN acted[n] \union {j} ELSE acted[m]
        /\ turn'[m] = IF m = n THEN turn[n] \ {j} ELSE turn[m]
  BY <1>1 DEF Sleeps, RoundsTypeOK
<1>5. \A m \in Nodes : /\ JobsAt(m, Blocking)' = JobsAt(m, Blocking)
                       /\ JobsAt(m, Polling)' = JobsAt(m, Polling)
                       /\ LoopFree(m)' = LoopFree(m)
  BY <1>1, <1>3 DEF JobsAt, LoopFree, Polling, Blocking
<1>6. stay' = stay /\ queue' = queue /\ published' = published /\ room' = room
  BY <1>1 DEF Sleeps
<1>7. RoundsTypeOK'
  <2>1. \A m \in Nodes : turn'[m] \subseteq JobsAt(m, Polling)'
    <3>1. \A m \in Nodes : turn[m] \subseteq JobsAt(m, Polling) /\ turn'[m] \subseteq turn[m]
      BY <1>4 DEF RoundsTypeOK
    <3>2. QED
      BY <1>5, <3>1
  <2>2. stage' \in [Nodes -> [Jobs -> {"none", "queued"} \union Blocking \union Requests
                                      \union Polling \union Resolved]]
    BY <1>1 DEF RoundsTypeOK, Sleeps, Moves, Polling
  <2>3. unseen' \in [Nodes -> [Jobs -> 0..Longest]]
    BY <1>2 DEF RoundsTypeOK
  <2>4. acted' \in [Nodes -> SUBSET Jobs] /\ turn' \in [Nodes -> SUBSET Jobs]
    BY <1>1 DEF RoundsTypeOK, Sleeps
  <2>5. QED
    BY <1>6, <2>1, <2>2, <2>3, <2>4 DEF RoundsTypeOK
<1>8. QueueOrder'
  BY <1>1, <1>6, QueueStays DEF Sleeps, Polling
<1>9. HoldBounded' /\ TurnApart'
  BY <1>4, <1>5, <1>6 DEF HoldBounded, TurnApart
<1>10. NothingMissed'
  BY <1>3, <1>4, <1>6 DEF NothingMissed
<1>11. MissedWhileHeld'
  <2> SUFFICES ASSUME NEW m \in Nodes, NEW k \in JobsAt(m, Blocking), NEW i \in JobsAt(m, Polling)
               PROVE  unseen'[m][i] <= Before(m, i)' + stay'[m][k]
    BY <1>5 DEF MissedWhileHeld
  <2>1. m # n /\ i \in Jobs
    BY <1>1 DEF LoopFree, JobsAt
  <2>2. QED
    BY <1>3, <1>4, <1>6, <2>1 DEF MissedWhileHeld, Before
<1>12. MissedWhenFree'
  <2> SUFFICES ASSUME NEW m \in Nodes, LoopFree(m), NEW i \in JobsAt(m, Polling)
               PROVE  unseen'[m][i] <= Before(m, i)' + BlockMax
    BY <1>5 DEF MissedWhenFree
  <2>1. i \in Jobs
    BY DEF JobsAt
  <2>2. CASE m = n /\ i = j
    BY <1>3, <2>1, <2>2 DEF Before
  <2>3. CASE m # n \/ i # j
    BY <1>3, <1>4, <2>1, <2>3 DEF MissedWhenFree, Before
  <2>4. QED
    BY <2>2, <2>3
<1>13. SkippedOnlyLate'
  BY <1>3 DEF SkippedOnlyLate
<1>14. QED
  BY <1>7, <1>8, <1>9, <1>10, <1>11, <1>12, <1>13

(* A result that comes is not missed yet. *)
LEMMA PublishedKeeps ==
  ASSUME RoundsInv, NEW j \in Jobs, Published(j)
  PROVE  RoundsInv'
BY DEF RoundsInv, Published, RoundsTypeOK, JobsAt, LoopFree, QueueOrder, HoldBounded, TurnApart,
       NothingMissed, MissedWhileHeld, MissedWhenFree, SkippedOnlyLate, Before

(* While time passes, a held loop is held for no longer than it may be,    *)
(* and on a free one every poll has just acted.                            *)
LEMMA TimeKeeps ==
  ASSUME RoundsInv, FortySeconds
  PROVE  RoundsInv'
<1> USE RoundsFacts DEF RoundsInv, FortySeconds
<1>1. \A m \in Nodes : /\ JobsAt(m, Blocking)' = JobsAt(m, Blocking)
                       /\ JobsAt(m, Polling)' = JobsAt(m, Polling)
                       /\ LoopFree(m)' = LoopFree(m)
                       /\ JobsAt(m, Blocking) \subseteq Jobs
                       /\ JobsAt(m, Polling) \subseteq Jobs
                       /\ JobsAt(m, Blocking) \subseteq Holders(m)
  BY DEF JobsAt, LoopFree, Holders
<1>2. \A m \in Nodes, k \in Jobs :
        /\ stay[m][k] \in 0..Longest /\ unseen[m][k] \in 0..Longest
        /\ stay'[m][k] = Aged(m, k, stay[m][k])
        /\ unseen'[m][k] = IF k \in published /\ k \in JobsAt(m, Polling)
                          THEN Aged(m, k, unseen[m][k]) ELSE unseen[m][k]
  BY DEF RoundsTypeOK
<1>3. \A m \in Nodes, k \in Jobs :
        /\ stay'[m][k] \in 0..Longest /\ unseen'[m][k] \in 0..Longest
        /\ unseen'[m][k] <= unseen[m][k] + 1
        /\ k \notin published \/ k \notin JobsAt(m, Polling) => unseen'[m][k] = unseen[m][k]
  BY <1>2, AgedFacts
<1>4. \A m \in Nodes : \A k \in JobsAt(m, Blocking) :
        stay'[m][k] = stay[m][k] + 1 /\ stay'[m][k] <= BlockMax /\ stay[m][k] \in Nat
  <2> TAKE m \in Nodes
  <2> TAKE k \in JobsAt(m, Blocking)
  <2>1. k \in Jobs /\ k \in Holders(m) /\ stay[m][k] < BlockMax
    BY <1>1 DEF NothingDue
  <2>2. stay[m][k] \in 0..Longest /\ stay'[m][k] = Aged(m, k, stay[m][k])
    BY <1>2, <2>1
  <2>3. Aged(m, k, stay[m][k]) = stay[m][k] + 1
    BY <2>1, <2>2, AgedFacts
  <2>4. QED
    BY <2>1, <2>2, <2>3
<1>5. \A m \in Nodes : /\ LoopFree(m) => JobsAt(m, Polling) \subseteq acted[m]
                       /\ acted'[m] = {}
  BY DEF NothingDue
<1>6. RoundsTypeOK'
  <2>1. stay' \in [Nodes -> [Jobs -> 0..Longest]]
    BY <1>3
  <2>2. unseen' \in [Nodes -> [Jobs -> 0..Longest]]
    BY <1>3
  <2>3. QED
    BY <1>1, <2>1, <2>2 DEF RoundsTypeOK
<1>7. QueueOrder' /\ HoldBounded' /\ TurnApart'
  BY <1>1, <1>4, <1>5 DEF QueueOrder, HoldBounded, TurnApart
<1>8. NothingMissed' /\ SkippedOnlyLate'
  <2>1. \A m \in Nodes, k \in Jobs : stage[m][k] \notin Polling => k \notin JobsAt(m, Polling)
    BY DEF JobsAt
  <2>2. stage' = stage /\ published' = published
    OBVIOUS
  <2>3. NothingMissed'
    BY <1>3, <1>5, <2>1, <2>2 DEF NothingMissed
  <2>4. SkippedOnlyLate'
    BY <1>3, <2>1, <2>2 DEF SkippedOnlyLate, Polling
  <2>5. QED
    BY <2>3, <2>4
<1>9. MissedWhileHeld'
  <2> SUFFICES ASSUME NEW m \in Nodes, NEW k \in JobsAt(m, Blocking), NEW i \in JobsAt(m, Polling)
               PROVE  unseen'[m][i] <= Before(m, i) + stay'[m][k]
    BY <1>1 DEF MissedWhileHeld, Before
  <2>1. unseen[m][i] <= Before(m, i) + stay[m][k] /\ Before(m, i) \in Nat
    BY DEF MissedWhileHeld, Before
  <2>2. stay'[m][k] = stay[m][k] + 1 /\ stay[m][k] \in Nat
    BY <1>4
  <2>3. unseen'[m][i] <= unseen[m][i] + 1 /\ unseen[m][i] \in Nat /\ unseen'[m][i] \in Nat
    BY <1>1, <1>2, <1>3
  <2>4. QED
    BY <2>1, <2>2, <2>3
<1>10. MissedWhenFree'
  <2> SUFFICES ASSUME NEW m \in Nodes, LoopFree(m), NEW i \in JobsAt(m, Polling)
               PROVE  unseen'[m][i] <= Before(m, i) + BlockMax
    BY <1>1 DEF MissedWhenFree, Before
  <2>1. unseen[m][i] = 0
    BY <1>1, <1>5 DEF NothingMissed, JobsAt
  <2>2. unseen'[m][i] <= 1 /\ unseen'[m][i] \in Nat
    BY <1>1, <1>3, <2>1
  <2>3. Before(m, i) \in Nat /\ BlockMax \in Nat /\ 1 <= BlockMax
    BY DEF Before
  <2>4. QED
    BY <2>2, <2>3
<1>11. QED
  BY <1>6, <1>7, <1>8, <1>9, <1>10

(* Every step keeps the bounds. *)
LEMMA RoundsNextInv == RoundsInv /\ [RoundsNext]_roundsVars => RoundsInv'
<1> SUFFICES ASSUME RoundsInv, [RoundsNext]_roundsVars
             PROVE  RoundsInv'
  OBVIOUS
<1>1. ASSUME NEW n \in Nodes, NEW j \in Jobs, Listed(n, j) \/ PermitTaken(n)
      PROVE  RoundsInv'
  BY <1>1, QueueKeeps
<1>2. ASSUME NEW n \in Nodes, NEW j \in Jobs, HandlerStep(n, j) \/ AskFailed(n, j)
      PROVE  RoundsInv'
  <2>1. CASE Continues(n, j)
    BY <2>1, ContinuesKeeps
  <2>2. CASE Found(n, j)
    <3>1. j \in Holders(n)
      BY <2>2 DEF Found, Asks, Holders, JobsAt, Polling
    <3>2. QED
      BY <2>2, <3>1, LeavesKeeps DEF Found
  <2>3. CASE GiveUp(n, j)
    <3>1. j \in Holders(n) /\ j \in JobsAt(n, Polling) /\ LoopFree(n)
      BY <2>3 DEF GiveUp, Holders, JobsAt, Polling
    <3>2. QED
      BY <2>3, <3>1, LeavesKeeps DEF GiveUp
  <2>4. CASE NotYet(n, j) \/ AskFailed(n, j)
    BY <2>4, SleepsKeeps
  <2>5. QED
    BY <1>2, <2>1, <2>2, <2>3, <2>4 DEF HandlerStep
<1>3. ASSUME NEW n \in Nodes, NEW j \in Jobs, Ends(n, j)
      PROVE  RoundsInv'
  <2>1. j \in Holders(n)
    BY <1>3 DEF Ends, Holders, JobsAt
  <2>2. QED
    BY <1>3, <2>1, LeavesKeeps DEF Ends
<1>4. CASE UNCHANGED roundsVars
  BY <1>4 DEF roundsVars, RoundsInv, RoundsTypeOK, JobsAt, LoopFree, QueueOrder, HoldBounded,
              TurnApart, NothingMissed, MissedWhileHeld, MissedWhenFree, SkippedOnlyLate, Before
<1>5. CASE \E n \in Nodes : PermitTaken(n)
  BY <1>5, QueueKeeps
<1>6. QED
  BY <1>1, <1>2, <1>3, <1>4, <1>5, PublishedKeeps, TimeKeeps DEF RoundsNext

(* How much a poll may have missed, by what the loop is doing. *)
THEOREM RoundsInductive == RoundsSpec => []RoundsInv
BY RoundsInitInv, RoundsNextInv, PTL DEF RoundsSpec

(* Handlers, queue, permits and clocks keep their types, and a poll that   *)
(* waits for its turn is a poll.                                           *)
THEOREM RoundsTypeCorrect == RoundsSpec => []RoundsTypeOK
<1>1. RoundsInv => RoundsTypeOK
  BY DEF RoundsInv
<1>2. QED
  BY <1>1, RoundsInductive, PTL

(* A verifier that gives up has overlooked no result that was there for    *)
(* longer than twice the time the loop can be held (job_handler.py         *)
(* 350-370), for any number of nodes, jobs and permits.                    *)
THEOREM SkippedInTime == RoundsSpec => []SkippedOnlyLate
<1>1. RoundsInv => SkippedOnlyLate
  BY DEF RoundsInv
<1>2. QED
  BY <1>1, RoundsInductive, PTL

(***************************************************************************)
(* Nodes that wait for one another.                                        *)
(***************************************************************************)

PermitLimit == \A n \in Nodes : Cardinality(Holders(n)) <= room

(* Holders are jobs, and jobs are finitely many. *)
LEMMA HoldersFinite ==
  /\ \A n : IsFiniteSet(Holders(n)) /\ Cardinality(Holders(n)) \in Nat
  /\ (\A n : IsFiniteSet(Holders(n)) /\ Cardinality(Holders(n)) \in Nat)'
<1>1. \A n : Holders(n) \subseteq Jobs /\ Holders(n)' \subseteq Jobs
  BY DEF Holders, JobsAt
<1>2. QED
  BY <1>1, RoundsAssumption, FS_Subset, FS_CardinalityType

(* No step but the one that looks for a free permit makes a holder.        *)
LEMMA HoldersShrink ==
  ASSUME RoundsInv, [RoundsNext]_roundsVars, \A n \in Nodes : ~PermitTaken(n)
  PROVE  room' = room /\ \A m \in Nodes : Holders(m)' \subseteq Holders(m)
<1> DEFINE held == Blocking \union Requests \union Polling
<1>1. /\ stage \in [Nodes -> [Jobs -> {"none", "queued"} \union held \union Resolved]]
      /\ {"none", "queued", "over", "skipped"} \intersect held = {}
  BY DEF RoundsInv, RoundsTypeOK, Blocking, Requests, Polling, Resolved
<1>2. ASSUME NEW n \in Nodes, NEW j \in Jobs, NEW p, Moves(n, j, p),
             p \in held => stage[n][j] \in held
      PROVE  \A m \in Nodes : Holders(m)' \subseteq Holders(m)
  <2>1. \A m \in Nodes, k \in Jobs :
          stage'[m][k] = IF m = n /\ k = j THEN p ELSE stage[m][k]
    BY <1>1, <1>2 DEF Moves
  <2> HIDE DEF held
  <2>2. \A m : Holders(m) = {k \in Jobs : stage[m][k] \in held}
    BY DEF Holders, JobsAt, held
  <2>3. \A m : Holders(m)' = {k \in Jobs : stage'[m][k] \in held}
    BY DEF Holders, JobsAt, held
  <2>4. QED
    BY <1>2, <2>1, <2>2, <2>3
<1>3. ASSUME NEW n \in Nodes, NEW j \in Jobs, Listed(n, j)
      PROVE  room' = room /\ \A m \in Nodes : Holders(m)' \subseteq Holders(m)
  BY <1>1, <1>2, <1>3 DEF Listed
<1>4. ASSUME NEW n \in Nodes, NEW j \in Jobs, Continues(n, j)
      PROVE  room' = room /\ \A m \in Nodes : Holders(m)' \subseteq Holders(m)
  <2>1. stage[n][j] \in held /\ Moves(n, j, After(n, j)) /\ room' = room
    BY <1>4 DEF Continues, JobsAt
  <2>2. QED
    BY <1>2, <2>1
<1>5. ASSUME NEW n \in Nodes, NEW j \in Jobs, Found(n, j) \/ GiveUp(n, j) \/ Ends(n, j)
      PROVE  room' = room /\ \A m \in Nodes : Holders(m)' \subseteq Holders(m)
  <2>1. stage[n][j] \in held /\ room' = room
    BY <1>5 DEF Found, GiveUp, Ends, Asks, Holders, JobsAt, Polling
  <2>2. \E p : Moves(n, j, p)
    BY <1>5 DEF Found, GiveUp, Ends, Leaves
  <2>3. QED
    BY <1>2, <2>1, <2>2
<1>6. ASSUME NEW n \in Nodes, NEW j \in Jobs, NotYet(n, j) \/ AskFailed(n, j)
      PROVE  room' = room /\ \A m \in Nodes : Holders(m)' \subseteq Holders(m)
  <2>1. stage[n][j] \in held /\ room' = room /\ Moves(n, j, "sleep")
    BY <1>6 DEF NotYet, AskFailed, Sleeps, Asks, JobsAt, Polling
  <2>2. QED
    BY <1>2, <2>1
<1>7. CASE FortySeconds \/ (\E j \in Jobs : Published(j)) \/ UNCHANGED roundsVars
  BY <1>7 DEF FortySeconds, Published, roundsVars, Holders, JobsAt
<1>8. QED
  BY <1>3, <1>4, <1>5, <1>6, <1>7 DEF RoundsNext, HandlerStep

(* A task that gets a permit is one more holder, where there was room.     *)
LEMMA TakenInRoom ==
  ASSUME RoundsInv, PermitLimit, NEW n \in Nodes, PermitTaken(n)
  PROVE  PermitLimit'
<1> DEFINE j == Head(queue[n])
<1>1. queue[n] \in Seq(Jobs) /\ queue[n] # <<>> /\ j \in Jobs
  BY HeadTailProperties DEF RoundsInv, RoundsTypeOK, PermitTaken
<1> HIDE DEF j
<1>2. \A m \in Nodes : Holders(m)' \subseteq IF m = n THEN Holders(m) \union {j} ELSE Holders(m)
  <2>1. \A m \in Nodes, k \in Jobs : m # n \/ k # j => stage'[m][k] = stage[m][k]
    BY <1>1 DEF PermitTaken, Moves, RoundsInv, RoundsTypeOK, j
  <2>2. QED
    BY <2>1 DEF Holders, JobsAt
<1>3. room' = room /\ Cardinality(Holders(n)) < room /\ room \in Nat
  BY RoundsAssumption DEF PermitTaken, RoundsInv, RoundsTypeOK
<1>4. ASSUME NEW m \in Nodes
      PROVE  Cardinality(Holders(m)') <= room
  <2>1. IsFiniteSet(Holders(m)) /\ Cardinality(Holders(m)) \in Nat
    BY HoldersFinite
  <2>2. CASE m = n
    <3>1. /\ IsFiniteSet(Holders(n) \union {j})
          /\ Cardinality(Holders(n) \union {j}) <= Cardinality(Holders(n)) + 1
          /\ Cardinality(Holders(n) \union {j}) \in Nat
      <4>1. IsFiniteSet(Holders(n)) /\ Cardinality(Holders(n)) \in Nat
        BY <2>1, <2>2
      <4>2. /\ IsFiniteSet(Holders(n) \union {j})
            /\ Cardinality(Holders(n) \union {j})
                 = IF j \in Holders(n) THEN Cardinality(Holders(n))
                                      ELSE Cardinality(Holders(n)) + 1
        BY <4>1, FS_AddElement
      <4>3. QED
        BY <4>1, <4>2
    <3>2. Cardinality(Holders(m)') <= Cardinality(Holders(n) \union {j})
      BY <1>2, <2>2, <3>1, FS_Subset
    <3>3. Cardinality(Holders(m)') \in Nat
      BY HoldersFinite
    <3>4. QED
      BY <1>3, <2>1, <2>2, <3>1, <3>2, <3>3
  <2>3. CASE m # n
    <3>1. Cardinality(Holders(m)') <= Cardinality(Holders(m))
      BY <1>2, <2>1, <2>3, FS_Subset
    <3>2. Cardinality(Holders(m)') \in Nat /\ Cardinality(Holders(m)) <= room
      BY HoldersFinite DEF PermitLimit
    <3>3. QED
      BY <1>3, <2>1, <3>1, <3>2
  <2>4. QED
    BY <2>2, <2>3
<1>5. QED
  BY <1>3, <1>4 DEF PermitLimit

(* On no node more jobs run than the semaphore admits (node_loop.py 287,   *)
(* 334), for any number of jobs and permits.                               *)
THEOREM PermitsInRoom == RoundsSpec => []PermitLimit
<1>1. RoundsInit => PermitLimit
  <2> SUFFICES ASSUME RoundsInit
               PROVE  PermitLimit
    OBVIOUS
  <2>1. \A n \in Nodes : Holders(n) = {}
    BY DEF RoundsInit, Holders, JobsAt, Blocking, Requests, Polling
  <2>2. room \in Nat
    BY RoundsAssumption DEF RoundsInit
  <2>3. QED
    BY <2>1, <2>2, FS_EmptySet DEF PermitLimit
<1>2. RoundsInv /\ PermitLimit /\ [RoundsNext]_roundsVars => PermitLimit'
  <2> SUFFICES ASSUME RoundsInv, PermitLimit, [RoundsNext]_roundsVars
               PROVE  PermitLimit'
    OBVIOUS
  <2>1. CASE \E n \in Nodes : PermitTaken(n)
    BY <2>1, TakenInRoom
  <2>2. CASE \A n \in Nodes : ~PermitTaken(n)
    <3>1. room' = room /\ \A m \in Nodes : Holders(m)' \subseteq Holders(m)
      BY <2>2, HoldersShrink
    <3>2. room \in Nat
      BY RoundsAssumption DEF RoundsInv, RoundsTypeOK
    <3>3. ASSUME NEW m \in Nodes
          PROVE  Cardinality(Holders(m)') <= room
      <4>1. Cardinality(Holders(m)') <= Cardinality(Holders(m))
        BY <3>1, HoldersFinite, FS_Subset
      <4>2. /\ Cardinality(Holders(m)') \in Nat /\ Cardinality(Holders(m)) \in Nat
            /\ Cardinality(Holders(m)) <= room
        BY HoldersFinite DEF PermitLimit
      <4>3. QED
        BY <3>2, <4>1, <4>2
    <3>4. QED
      BY <3>1, <3>3 DEF PermitLimit
  <2>3. QED
    BY <2>1, <2>2
<1>3. QED
  BY <1>1, <1>2, RoundsInductive, PTL DEF RoundsSpec

(* Who can do something that changes the state: a handler that computes;   *)
(* one whose answer may come, unless a poll is to have its turn first; a   *)
(* poll that has not acted in this unit or whose time is over; a task      *)
(* whose permit is free; and the clock, where nothing is due.              *)
HandlerReady(n, j) ==
  \/ j \in JobsAt(n, Blocking)
  \/ /\ LoopFree(n) /\ j \in JobsAt(n, Requests)
     /\ After(n, j) \in Blocking => turn[n] = {}
  \/ /\ LoopFree(n) /\ j \in JobsAt(n, Polling)
     /\ j \notin acted[n] \/ (stage[n][j] = "sleep" /\ stay[n][j] >= PollLimit)

PermitReady(n) == LoopFree(n) /\ queue[n] # <<>> /\ Cardinality(Holders(n)) < room

ClockReady == (\A n \in Nodes : NothingDue(n)) /\ \E n \in Nodes : Holders(n) # {}

SomebodyWaits == \E n \in Nodes : queue[n] # <<>> \/ Holders(n) # {}

NoStandstill ==
  SomebodyWaits => \/ ClockReady
                   \/ \E n \in Nodes : PermitReady(n) \/ \E j \in Jobs : HandlerReady(n, j)

(* However nodes wait for one another's results, with their permits in     *)
(* hand and their other jobs in the queue behind, somebody can go on, and  *)
(* at the latest the clock, which ends each poll (node_loop.py 287,        *)
(* job_handler.py 351-372): what RoundsEnd rests on.                       *)
THEOREM NoCircularWait == RoundsSpec => []NoStandstill
<1>1. RoundsInv /\ PermitLimit => NoStandstill
  <2> SUFFICES ASSUME RoundsInv, PermitLimit, SomebodyWaits,
                      \A n \in Nodes : ~PermitReady(n),
                      \A n \in Nodes, j \in Jobs : ~HandlerReady(n, j)
               PROVE  ClockReady
    BY DEF NoStandstill
  <2>1. ASSUME NEW n \in Nodes
        PROVE  JobsAt(n, Blocking) = {} /\ LoopFree(n)
    BY DEF HandlerReady, JobsAt, LoopFree
  <2>2. ASSUME NEW n \in Nodes
        PROVE  turn[n] = {}
    <3> SUFFICES ASSUME NEW j \in turn[n]
                 PROVE  FALSE
      OBVIOUS
    <3>1. j \in JobsAt(n, Polling) /\ j \notin acted[n]
      BY DEF RoundsInv, RoundsTypeOK, TurnApart
    <3>2. QED
      BY <2>1, <3>1 DEF HandlerReady, JobsAt
  <2>3. ASSUME NEW n \in Nodes
        PROVE  JobsAt(n, Requests) = {}
    BY <2>1, <2>2 DEF HandlerReady, JobsAt
  <2>4. ASSUME NEW n \in Nodes
        PROVE  JobsAt(n, Polling) \subseteq acted[n]
    BY <2>1 DEF HandlerReady, JobsAt
  <2>5. room \in Nat \ {0}
    BY RoundsAssumption DEF RoundsInv, RoundsTypeOK
  <2>6. ASSUME NEW n \in Nodes, queue[n] # <<>>
        PROVE  Cardinality(Holders(n)) = room
    <3>1. /\ Cardinality(Holders(n)) \in Nat /\ Cardinality(Holders(n)) <= room
          /\ ~(Cardinality(Holders(n)) < room)
      BY <2>1, <2>6, HoldersFinite DEF PermitLimit, PermitReady
    <3>2. QED
      BY <2>5, <3>1
  <2>7. \A n \in Nodes : NothingDue(n)
    BY <2>1, <2>3, <2>4, <2>6 DEF NothingDue
  <2>8. \E n \in Nodes : Holders(n) # {}
    BY <2>5, <2>6, FS_EmptySet DEF SomebodyWaits
  <2>9. QED
    BY <2>7, <2>8 DEF ClockReady
<1>2. QED
  BY <1>1, RoundsInductive, PermitsInRoom, PTL
===============================================================================
