--------------------------- MODULE ChainAccountProofs ---------------------------
(***************************************************************************)
(* The account's transactions, for any number of senders and any amounts:  *)
(* their numbers, and what the commands that send them promise.            *)
(***************************************************************************)
EXTENDS ChainAccount, FiniteSetTheorems, WellFoundedInduction, SequenceTheorems, TLAPS

(* A transaction takes the place of the one with its number. *)
OnePerNumber == \A t, u \in pool : t.nonce = u.nonce => t = u

(* A number that Python read is used up or next, never ahead: the count    *)
(* only grows.                                                             *)
NotAhead ==
  \A s \in Senders :
    call[s].at = "send" /\ call[s].fun # "storeKey" => call[s].nonce <= count

AccountInv ==
  /\ AccountTypeOK
  /\ IsFiniteSet(pool)
  /\ OnePerNumber
  /\ NotAhead
  /\ OwnTurn

Commands == DOMAIN Program \union {"none", "storeKey"}
Places == {"idle", "build", "send", "wait", "ok", "over"}
Receipts == {"none", "ok", "reverted"}

(* Among the numbers from count on, one more of them than there are        *)
(* transactions, one is free (by the pigeonhole principle), and so is a    *)
(* first one: viem's number is a number.                                   *)
LEMMA PendingTyped ==
  ASSUME count \in Nat, IsFiniteSet(pool)
  PROVE  Pending \in Nat
<1> DEFINE N == Cardinality(pool)
           Near == count..(count + N)
           Free == {n \in Near : \A t \in pool : t.nonce # n}
<1>1. N \in Nat
  BY FS_CardinalityType
<1>2. Free # {}
  <2> SUFFICES ASSUME Free = {}
               PROVE  FALSE
    OBVIOUS
  <2>1. \A n \in Near : \E t \in pool : t.nonce = n
    OBVIOUS
  <2> DEFINE f == [n \in Near |-> CHOOSE t \in pool : t.nonce = n]
  <2>2. \A n \in Near : f[n] \in pool /\ f[n].nonce = n
    BY <2>1
  <2>3. f \in [Near -> pool]
    BY <2>2
  <2>4. IsFiniteSet(Near) /\ Cardinality(Near) = N + 1
    BY <1>1, FS_Interval
  <2>5. N < Cardinality(Near)
    BY <1>1, <2>4
  <2> HIDE DEF f, Near
  <2>6. PICK x, y \in Near : x # y /\ f[x] = f[y]
    BY <2>3, <2>4, <2>5, FS_PigeonHole
  <2>7. QED
    BY <2>2, <2>6
<1>3. Free \subseteq Nat
  BY <1>1
<1>4. PICK n \in Free : \A m \in Free : ~(m < n)
  <2>1. IsWellFoundedOn(OpToRel(<, Nat), Nat)
    BY NatLessThanWellFounded
  <2> HIDE DEF Free
  <2>2. PICK n \in Free : \A m \in Free : <<m, n>> \notin OpToRel(<, Nat)
    BY <1>2, <1>3, <2>1, WFMin
  <2>3. QED
    BY <1>3, <2>2 DEF OpToRel
<1>5. \A m \in count..(n - 1) : \E t \in pool : t.nonce = m
  BY <1>1, <1>4
<1>6. \E m \in Near : /\ \A t \in pool : t.nonce # m
                      /\ \A k \in count..(m - 1) : \E t \in pool : t.nonce = k
  BY <1>4, <1>5
<1>7. Pending \in Near
  BY <1>6 DEF Pending
<1>8. QED
  BY <1>1, <1>7

(* A call that moves and a chain that does not. *)
LEMMA CallMoves ==
  ASSUME AccountInv, NEW s \in Senders, NEW c \in CallType,
         call' = [call EXCEPT ![s] = c],
         c.at = "send" /\ c.fun # "storeKey" => c.nonce <= count,
         UNCHANGED <<count, pool, stake, done>>
  PROVE  AccountInv'
<1>1. call' \in [Senders -> CallType]
  BY DEF AccountInv, AccountTypeOK
<1>2. AccountTypeOK' /\ IsFiniteSet(pool)'
  BY <1>1 DEF AccountInv, AccountTypeOK
<1>3. NotAhead'
  <2> SUFFICES ASSUME NEW x \in Senders,
                      call'[x].at = "send", call'[x].fun # "storeKey"
               PROVE  call'[x].nonce <= count
    BY DEF NotAhead
  <2>1. CASE x = s
    BY <2>1 DEF AccountInv, AccountTypeOK
  <2>2. CASE x # s
    BY <2>2 DEF AccountInv, AccountTypeOK, NotAhead
  <2>3. QED
    BY <2>1, <2>2
<1>4. OnePerNumber' /\ OwnTurn'
  BY DEF AccountInv, OnePerNumber, OwnTurn
<1>5. QED
  BY <1>2, <1>3, <1>4 DEF AccountInv

(* Where a call may go within its command, keeping what it is. *)
LEMMA AtTyped ==
  ASSUME AccountTypeOK, NEW s \in Senders, NEW p \in Places
  PROVE  At(s, p) \in CallType /\ At(s, p).at = p
<1>1. call[s] \in CallType
  BY DEF AccountTypeOK
<1>2. CASE p \in {"ok", "over"}
  BY <1>1, <1>2 DEF At, CallType, Places
<1>3. CASE p \notin {"ok", "over"}
  BY <1>1, <1>3 DEF At, CallType, Places
<1>4. QED
  BY <1>2, <1>3

(* A command that begins. *)
LEMMA EnterKeeps ==
  ASSUME AccountInv, NEW s \in Senders, NEW k \in Commands, NEW f \in Calls,
         NEW p \in {"build", "over"}, Enter(s, k, f, p)
  PROVE  AccountInv'
<1> DEFINE c == [Idle EXCEPT !.command = k, !.fun = f, !.at = p]
<1>1. call' = [call EXCEPT ![s] = c] /\ UNCHANGED <<count, pool, stake, done>>
  BY DEF Enter
<1>2. c \in CallType /\ c.at = p
  BY DEF Idle, CallType, Commands
<1> HIDE DEF c
<1>3. QED
  BY <1>1, <1>2, CallMoves

(* A call that goes to a place other than "send". *)
LEMMA GotoKeeps ==
  ASSUME AccountInv, NEW s \in Senders, NEW p \in Places \ {"send"},
         Goto(s, p), UNCHANGED <<count, pool, stake, done>>
  PROVE  AccountInv'
<1>1. At(s, p) \in CallType /\ At(s, p).at # "send"
  BY AtTyped DEF AccountInv
<1>2. call' = [call EXCEPT ![s] = At(s, p)]
  BY DEF Goto
<1>3. QED
  BY <1>1, <1>2, CallMoves

(* A number that has just been counted is the one that is mined next. *)
LEMMA BuildKeeps ==
  ASSUME AccountInv, NEW s \in Senders, Build(s)
  PROVE  AccountInv'
<1>1. NextNonce(s) \in Nat
  BY PendingTyped DEF NextNonce, AccountInv, AccountTypeOK
<1>2. call[s] \in CallType
  BY DEF AccountInv, AccountTypeOK
<1> DEFINE c == [call[s] EXCEPT !.nonce = NextNonce(s), !.at = "send"]
<1>3. call' = [call EXCEPT ![s] = c] /\ UNCHANGED <<count, pool, stake, done>>
  BY DEF Build
<1>4. c \in CallType /\ c.nonce = NextNonce(s) /\ c.fun = call[s].fun
  BY <1>1, <1>2 DEF CallType
<1>5. c.fun # "storeKey" => c.nonce <= count
  BY <1>4 DEF NextNonce, AccountInv, AccountTypeOK
<1> HIDE DEF c
<1>6. QED
  BY <1>3, <1>4, <1>5, CallMoves

(* The transaction that is sent has the next number, if it is Python's. *)
LEMMA SendKeeps ==
  ASSUME AccountInv, NEW s \in Senders, call[s].fun \in Calls, Send(s)
  PROVE  AccountInv'
<1> DEFINE n == call[s].nonce
           new == [sender |-> s, fun |-> call[s].fun, nonce |-> n]
<1>1. /\ call[s] \in CallType /\ n \in Nat /\ call[s].at = "send" /\ n >= count
      /\ count \in Nat
  BY DEF AccountInv, AccountTypeOK, CallType, Send
<1>2. pool' = {t \in pool : t.nonce # n} \union {new}
  BY DEF Send
<1>3. new.nonce = n /\ new.fun = call[s].fun
  OBVIOUS
<1>4. new \in [sender : Senders, fun : Calls, nonce : Nat]
  BY <1>1
<1>5. call[s].fun # "storeKey" => n = count
  BY <1>1 DEF AccountInv, NotAhead
<1> HIDE DEF new
<1>6. IsFiniteSet(pool')
  <2>1. IsFiniteSet({t \in pool : t.nonce # n})
    BY FS_Subset DEF AccountInv
  <2>2. QED
    BY <1>2, <2>1, FS_AddElement
<1>7. OnePerNumber'
  BY <1>2, <1>3 DEF AccountInv, OnePerNumber
<1>8. OwnTurn'
  <2>1. count' = count
    BY DEF Send
  <2>2. QED
    BY <1>2, <1>3, <1>5, <2>1 DEF AccountInv, OwnTurn
<1>9. PICK p \in {"wait", "over"} : call' = [call EXCEPT ![s] = At(s, p)]
  BY DEF Send, Goto
<1>10. At(s, p) \in CallType /\ At(s, p).at = p
  BY AtTyped DEF AccountInv, Places
<1>11. call' \in [Senders -> CallType]
  BY <1>9, <1>10 DEF AccountInv, AccountTypeOK
<1>12. NotAhead'
  <2> SUFFICES ASSUME NEW x \in Senders,
                      call'[x].at = "send", call'[x].fun # "storeKey"
               PROVE  call'[x].nonce <= count'
    BY DEF NotAhead
  <2>1. x # s
    BY <1>9, <1>10 DEF AccountInv, AccountTypeOK
  <2>2. call'[x] = call[x] /\ count' = count
    BY <1>9, <2>1 DEF Send, AccountInv, AccountTypeOK
  <2>3. QED
    BY <2>2 DEF AccountInv, NotAhead
<1>13. AccountTypeOK'
  BY <1>2, <1>4, <1>11 DEF AccountInv, AccountTypeOK, Send
<1>14. QED
  BY <1>6, <1>7, <1>8, <1>12, <1>13 DEF AccountInv

(* A receipt changes nothing but the call that waited for it. *)
LEMMA ReceiptKeeps ==
  ASSUME AccountInv, NEW s \in Senders, Receipt(s)
  PROVE  AccountInv'
<1>1. call[s] \in CallType
  BY DEF AccountInv, AccountTypeOK
<1> DEFINE c == [call[s] EXCEPT !.fun = "stake", !.at = "build", !.receipt = "none"]
<1>2. c \in CallType /\ c.at = "build"
  BY <1>1 DEF CallType, Calls
<1>3. PICK p \in {"ok", "over"} : AfterReceipt(s) = c \/ AfterReceipt(s) = At(s, p)
  BY DEF AfterReceipt
<1> HIDE DEF c
<1>4. At(s, p) \in CallType /\ At(s, p).at = p
  BY AtTyped DEF AccountInv, Places
<1>5. AfterReceipt(s) \in CallType /\ AfterReceipt(s).at # "send"
  BY <1>2, <1>3, <1>4
<1>6. /\ call' = [call EXCEPT ![s] = AfterReceipt(s)]
      /\ UNCHANGED <<count, pool, stake, done>>
  BY DEF Receipt
<1>7. QED
  BY <1>5, <1>6, CallMoves

(* What is mined has the next number, and nothing else of Python's has it. *)
LEMMA MineKeeps ==
  ASSUME AccountInv, NEW t \in pool, NEW ok \in BOOLEAN, Mine(t, ok)
  PROVE  AccountInv'
<1>1. /\ t.nonce = count /\ count' = count + 1 /\ pool' = pool \ {t}
      /\ count \in Nat /\ t.sender \in Senders /\ t.fun \in Calls
  BY DEF Mine, AccountInv, AccountTypeOK
<1>2. IsFiniteSet(pool')
  BY <1>1, FS_RemoveElement DEF AccountInv
<1>3. OnePerNumber'
  BY <1>1 DEF AccountInv, OnePerNumber
<1>4. OwnTurn'
  BY <1>1 DEF AccountInv, OnePerNumber, OwnTurn
<1>5. ASSUME NEW s \in Senders
      PROVE  /\ call'[s] \in CallType
             /\ call'[s].at = call[s].at /\ call'[s].fun = call[s].fun
             /\ call'[s].nonce = call[s].nonce
  <2>1. call[s] \in CallType
    BY DEF AccountInv, AccountTypeOK
  <2>2. call'[s] = call[s] \/ \E r \in Receipts : call'[s] = [call[s] EXCEPT !.receipt = r]
    BY DEF Mine, Receipts
  <2>3. QED
    BY <2>1, <2>2 DEF CallType, Receipts
<1>6. call' \in [Senders -> CallType]
  BY <1>5 DEF Mine
<1>7. NotAhead'
  BY <1>1, <1>5 DEF AccountInv, NotAhead, CallType
<1>8. stake' \in [allowance : Nat, staked : Nat, unbonding : Nat, ready : BOOLEAN]
  <2>1. stake \in [allowance : Nat, staked : Nat, unbonding : Nat, ready : BOOLEAN]
    BY DEF AccountInv, AccountTypeOK
  <2>2. Amount[t.sender] \in Nat
    BY <1>1, AccountAssumption
  <2>3. CASE ~ok
    BY <2>1, <2>3 DEF Mine
  <2>4. CASE ok /\ t.fun = "stake"
    <3>1. stake.allowance - Amount[t.sender] \in Nat
      BY <2>1, <2>2, <2>4 DEF Mine, Allowed
    <3>2. stake.staked + Amount[t.sender] \in Nat
      BY <2>1, <2>2
    <3>3. stake' = [stake EXCEPT !.allowance = stake.allowance - Amount[t.sender],
                                 !.staked = stake.staked + Amount[t.sender]]
      BY <2>4 DEF Mine, Effect
    <3>4. QED
      BY <2>1, <3>1, <3>2, <3>3
  <2>5. CASE ok /\ t.fun = "unstake"
    <3>1. stake.unbonding + stake.staked \in Nat
      BY <2>1
    <3>2. stake' = [stake EXCEPT !.unbonding = stake.unbonding + stake.staked,
                                 !.staked = 0, !.ready = FALSE]
      BY <2>5 DEF Mine, Effect
    <3>3. QED
      BY <2>1, <3>1, <3>2
  <2>6. CASE ok /\ t.fun \notin {"stake", "unstake"}
    BY <2>1, <2>2, <2>6 DEF Mine, Effect
  <2>7. QED
    BY <2>3, <2>4, <2>5, <2>6
<1>9. done' \in [Senders -> SUBSET Calls]
  BY <1>1 DEF Mine, AccountInv, AccountTypeOK
<1>10. AccountTypeOK'
  BY <1>1, <1>6, <1>8, <1>9 DEF AccountInv, AccountTypeOK
<1>11. QED
  BY <1>2, <1>3, <1>4, <1>7, <1>10 DEF AccountInv

(* Every step of a sender, of the chain and of a killer keeps the          *)
(* invariant.                                                              *)
LEMMA AccountNextInv == AccountInv /\ [AccountNext]_accountVars => AccountInv'
<1> SUFFICES ASSUME AccountInv, [AccountNext]_accountVars
             PROVE  AccountInv'
  OBVIOUS
<1>1. ASSUME NEW s \in Senders, NEW k \in Commands, NEW f \in Calls,
             NEW p \in {"build", "over"}, Enter(s, k, f, p)
      PROVE  AccountInv'
  BY <1>1, EnterKeeps
<1>2. ASSUME NEW s \in Senders, NEW f \in Calls, Transact(s, f)
      PROVE  AccountInv'
  <2>1. call[s].fun \in Calls
    BY <1>2 DEF Transact
  <2>2. CASE Build(s)
    BY <2>2, BuildKeeps
  <2>3. CASE Send(s)
    BY <2>1, <2>3, SendKeeps
  <2>4. CASE Refused(s) \/ TimedOut(s)
    BY <2>4, GotoKeeps DEF Refused, TimedOut, Places
  <2>5. CASE Receipt(s)
    BY <2>5, ReceiptKeeps
  <2>6. QED
    BY <1>2, <2>2, <2>3, <2>4, <2>5 DEF Transact
<1>3. ASSUME NEW s \in Senders, Killed(s)
      PROVE  AccountInv'
  BY <1>3, GotoKeeps DEF Killed, Places
<1>4. ASSUME NEW t \in pool, Drop(t)
      PROVE  AccountInv'
  <2>1. pool' = pool \ {t} /\ UNCHANGED <<call, count, stake, done>>
    BY <1>4 DEF Drop
  <2>2. IsFiniteSet(pool')
    BY <2>1, FS_RemoveElement DEF AccountInv
  <2>3. QED
    BY <2>1, <2>2 DEF AccountInv, AccountTypeOK, OnePerNumber, NotAhead, OwnTurn
<1>5. ASSUME NEW t \in pool, NEW ok \in BOOLEAN, Mine(t, ok)
      PROVE  AccountInv'
  BY <1>5, MineKeeps
<1>6. CASE Unbonded
  <2>1. stake' \in [allowance : Nat, staked : Nat, unbonding : Nat, ready : BOOLEAN]
    BY <1>6 DEF Unbonded, AccountInv, AccountTypeOK
  <2>2. QED
    BY <1>6, <2>1
       DEF Unbonded, AccountInv, AccountTypeOK, OnePerNumber, NotAhead, OwnTurn
<1>7. CASE UNCHANGED accountVars
  BY <1>7
     DEF accountVars, AccountInv, AccountTypeOK, OnePerNumber, NotAhead, OwnTurn
<1>8. ASSUME NEW s \in Senders, SenderStep(s)
      PROVE  \/ \E k \in Commands, f \in Calls, p \in {"build", "over"} : Enter(s, k, f, p)
             \/ \E f \in Calls : Transact(s, f)
  <2> USE DEF Commands, Program, Plain, Calls
  <2>1. CASE RegisterNode(s) \/ UpdateHeartbeat(s) \/ UpdateAttestation(s)
    BY <2>1 DEF RegisterNode, UpdateHeartbeat, UpdateAttestation
  <2>2. CASE PostCommitment(s) \/ StorePromptKey(s)
    BY <2>2 DEF PostCommitment, StorePromptKey
  <2>3. CASE \/ ApproveBlind(s) \/ StakeBlind(s) \/ InitiateUnstake(s)
             \/ CompleteUnstake(s)
    BY <2>3 DEF ApproveBlind, StakeBlind, InitiateUnstake, CompleteUnstake
  <2>4. CASE StakingStake(s) \/ StakingUnstake(s) \/ StakingWithdraw(s)
    BY <2>4 DEF StakingStake, StakingUnstake, StakingWithdraw
  <2>5. QED
    BY <1>8, <2>1, <2>2, <2>3, <2>4 DEF SenderStep
<1>9. QED
  BY <1>1, <1>2, <1>3, <1>4, <1>5, <1>6, <1>7, <1>8 DEF AccountNext, ChainStep

(* No transaction is pending when the senders start. *)
LEMMA AccountInitInv == AccountInit => AccountInv
<1> SUFFICES ASSUME AccountInit
             PROVE  AccountInv
  OBVIOUS
<1>1. Idle \in CallType /\ Idle.at = "idle"
  BY DEF Idle, CallType
<1>2. call \in [Senders -> CallType] /\ NotAhead
  BY <1>1 DEF AccountInit, NotAhead
<1>3. IsFiniteSet(pool) /\ pool = {}
  BY FS_EmptySet DEF AccountInit
<1>4. stake \in [allowance : Nat, staked : Nat, unbonding : Nat, ready : BOOLEAN]
  <2>1. \A A, B, C, D :
          /\ {0} \subseteq A /\ 0..1 \subseteq B /\ 0..1 \subseteq C /\ {FALSE} \subseteq D
          => stake \in [allowance : A, staked : B, unbonding : C, ready : D]
    BY DEF AccountInit
  <2>2. {0} \subseteq Nat /\ 0..1 \subseteq Nat
    OBVIOUS
  <2>3. {FALSE} \subseteq BOOLEAN
    BY Zenon
  <2>4. QED
    BY <2>1, <2>2, <2>3
<1>5. QED
  BY <1>2, <1>3, <1>4 DEF AccountInit, AccountInv, AccountTypeOK, OnePerNumber, OwnTurn

(* The inductive invariant of the account. *)
THEOREM AccountInductive == AccountSpec => []AccountInv
BY AccountInitInv, AccountNextInv, PTL DEF AccountSpec

(* Calls, transactions and the stake keep their types; no balance goes     *)
(* below zero.                                                             *)
THEOREM AccountTypeCorrect == AccountSpec => []AccountTypeOK
<1>1. AccountInv => AccountTypeOK
  BY DEF AccountInv
<1>2. QED
  BY <1>1, AccountInductive, PTL

(* No transaction of registry.py waits for another one to be mined first   *)
(* (registry.py 386-391), however many threads and processes send.         *)
THEOREM TurnOwned == AccountSpec => []OwnTurn
<1>1. AccountInv => OwnTurn
  BY DEF AccountInv
<1>2. QED
  BY <1>1, AccountInductive, PTL

(***************************************************************************)
(* The account implements OrderedCommands.                                 *)
(***************************************************************************)

(* What had to take effect before a call of f was made. *)
Prior(f) == IF f = "stake" THEN {"approve"} ELSE {}

(* The calls of a command. *)
Made(k) == IF k = "staking" THEN {"approve", "stake"} ELSE {k}

Own(s) == {t \in pool : t.sender = s}

(* A sender at c whose calls d took effect and whose transactions T wait:  *)
(* it has one transaction at most, which is that of its last call.         *)
Orderly(c, d, T) ==
  /\ c.at = "idle" => c.command = "none" /\ d = {} /\ T = {}
  /\ c.command \in DOMAIN Program =>
       /\ c.fun \in Made(c.command)
       /\ d \in {Prior(c.fun), Prior(c.fun) \union {c.fun}}
       /\ c.at \in {"build", "send"} => T = {} /\ d = Prior(c.fun) /\ c.receipt = "none"
       /\ c.receipt = "ok" \/ c.at = "ok" => c.fun \in d
       /\ c.at = "ok" => c.fun # "approve"
       /\ \A t \in T : t.fun = c.fun /\ c.fun \notin d /\ c.receipt = "none"
       /\ \A t, u \in T : t = u

OrderInv ==
  /\ AccountInv
  /\ \A s \in Senders : Orderly(call[s], done[s], Own(s))

(* What a sender's command has not done, and what it reported. *)
TodoOf(c, d) ==
  IF c.command \notin DOMAIN Program THEN <<>>
  ELSE IF c.command = "staking"
       THEN (IF "approve" \in d THEN <<>> ELSE <<"approve">>)
              \o (IF "stake" \in d THEN <<>> ELSE <<"stake">>)
       ELSE IF c.command \in d THEN <<>> ELSE <<c.command>>

ReportOf(c) ==
  IF c.command \notin DOMAIN Program THEN "idle"
  ELSE IF c.at \in {"ok", "over"} THEN c.at ELSE "open"

(* One command goes on as OrderedCommands says, or nothing happens to it. *)
Onward(t, r, t1, r1) ==
  \/ t1 = t /\ r1 = r
  \/ r = "idle" /\ t1 \in {Program[k] : k \in DOMAIN Program} /\ r1 \in {"open", "over"}
  \/ t # <<>> /\ t1 = Tail(t) /\ r1 = r
  \/ r = "open" /\ t = <<>> /\ t1 = t /\ r1 = "ok"
  \/ r = "open" /\ t1 = t /\ r1 = "over"

OnwardAt(s) ==
  /\ Onward(TodoOf(call[s], done[s]), ReportOf(call[s]),
            TodoOf(call'[s], done'[s]), ReportOf(call'[s]))
  /\ \A x \in Senders \ {s} : /\ TodoOf(call'[x], done'[x]) = TodoOf(call[x], done[x])
                              /\ ReportOf(call'[x]) = ReportOf(call[x])

(* The refinement mapping is made of these, now and after a step. *)
LEMMA OutcomeMap ==
  /\ Todo = [s \in Senders |-> TodoOf(call[s], done[s])]
  /\ Report = [s \in Senders |-> ReportOf(call[s])]
  /\ Todo' = [s \in Senders |-> TodoOf(call'[s], done'[s])]
  /\ Report' = [s \in Senders |-> ReportOf(call'[s])]
BY DEF Todo, Report, TodoOf, ReportOf, Python, Left

(* A step of one command is one of OrderedCommands. *)
LEMMA OnwardRefines ==
  ASSUME NEW s \in Senders, OnwardAt(s)
  PROVE  [Outcome!OutcomeNext]_(Outcome!outcomeVars)
<1> DEFINE t == Todo[s]  r == Report[s]
           t1 == TodoOf(call'[s], done'[s])  r1 == ReportOf(call'[s])
<1>1. Onward(t, r, t1, r1)
  BY OutcomeMap DEF OnwardAt
<1>2. Todo' = [Todo EXCEPT ![s] = t1] /\ Report' = [Report EXCEPT ![s] = r1]
  BY OutcomeMap DEF OnwardAt
<1>3. /\ Todo = [x \in Senders |-> Todo[x]] /\ Report = [x \in Senders |-> Report[x]]
  BY OutcomeMap
<1> HIDE DEF t, r, t1, r1
<1>4. t1 = t => Todo' = Todo
  BY <1>2, <1>3 DEF t
<1>5. r1 = r => Report' = Report
  BY <1>2, <1>3 DEF r
<1>6. CASE t1 = t /\ r1 = r
  BY <1>4, <1>5, <1>6 DEF Outcome!outcomeVars
<1>7. CASE r = "idle" /\ t1 \in {Program[k] : k \in DOMAIN Program} /\ r1 \in {"open", "over"}
  BY <1>2, <1>7 DEF r, Outcome!OutcomeNext, Outcome!Begin
<1>8. CASE t # <<>> /\ t1 = Tail(t) /\ r1 = r
  BY <1>2, <1>5, <1>8 DEF t, Outcome!OutcomeNext, Outcome!TakeEffect
<1>9. CASE r = "open" /\ t = <<>> /\ t1 = t /\ r1 = "ok"
  BY <1>2, <1>4, <1>9 DEF r, t, Outcome!OutcomeNext, Outcome!Succeed
<1>10. CASE r = "open" /\ t1 = t /\ r1 = "over"
  BY <1>2, <1>4, <1>10 DEF r, Outcome!OutcomeNext, Outcome!GiveUp
<1>11. QED
  BY <1>1, <1>6, <1>7, <1>8, <1>9, <1>10 DEF Onward

(* What is left of the commands of one call and of the one of two. *)
LEMMA TodoValues ==
  ASSUME NEW c, NEW d, c.command \in DOMAIN Program
  PROVE  /\ c.command # "staking" =>
              TodoOf(c, d) = IF c.command \in d THEN <<>> ELSE Program[c.command]
         /\ c.command = "staking" =>
              /\ "approve" \notin d /\ "stake" \notin d =>
                   TodoOf(c, d) = Program[c.command] /\ Tail(TodoOf(c, d)) = <<"stake">>
              /\ "approve" \in d /\ "stake" \notin d => TodoOf(c, d) = <<"stake">>
              /\ "approve" \in d /\ "stake" \in d => TodoOf(c, d) = <<>>
<1> DEFINE one == <<"approve">>  two == <<"stake">>  both == <<"approve", "stake">>
<1>1. one \o two = both
  <2> DEFINE S == {"approve", "stake"}
  <2>1. /\ one \in Seq(S) /\ two \in Seq(S) /\ both \in Seq(S)
        /\ Len(one) = 1 /\ Len(two) = 1 /\ Len(both) = 2
        /\ one[1] = both[1] /\ two[1] = both[2]
    OBVIOUS
  <2> HIDE DEF one, two, both, S
  <2>2. /\ one \o two \in Seq(S) /\ Len(one \o two) = 2
        /\ (one \o two)[1] = one[1] /\ (one \o two)[2] = two[1]
    BY <2>1, ConcatProperties
  <2>3. QED
    BY <2>1, <2>2, SeqEqual
<1>2. <<>> \o two = two /\ <<>> \o <<>> = <<>> /\ Tail(both) = two
  OBVIOUS
<1>3. Program["staking"] = both
  BY DEF Program
<1>4. c.command # "staking" => Program[c.command] = <<c.command>>
  BY DEF Program
<1> HIDE DEF both
<1>5. QED
  BY <1>1, <1>2, <1>3, <1>4 DEF TodoOf

(* A sender whose call and effects stay the same, and whose transactions   *)
(* wait or are gone, is as orderly as it was.                              *)
LEMMA OrderlyLess ==
  ASSUME NEW c, NEW d, NEW T, Orderly(c, d, T), NEW R \in SUBSET T
  PROVE  Orderly(c, d, R)
BY DEF Orderly

(* A sender that is not Python's hears of what was mined with its number.  *)
Overhears(x) ==
  /\ call[x].command \notin DOMAIN Program /\ call[x].at # "idle"
  /\ call'[x].command = call[x].command /\ call'[x].at = call[x].at

(* What a step of sender s, or of its transaction, has to be. *)
LEMMA OneSender ==
  ASSUME OrderInv, AccountInv', NEW s \in Senders,
         \A x \in Senders \ {s} : call'[x] = call[x] \/ Overhears(x),
         \A x \in Senders \ {s} : done'[x] = done[x] /\ Own(x)' \subseteq Own(x),
         Orderly(call'[s], done'[s], Own(s)'),
         Onward(TodoOf(call[s], done[s]), ReportOf(call[s]),
                TodoOf(call'[s], done'[s]), ReportOf(call'[s]))
  PROVE  OrderInv' /\ OnwardAt(s)
<1>1. ASSUME NEW x \in Senders \ {s}
      PROVE  /\ TodoOf(call'[x], done'[x]) = TodoOf(call[x], done[x])
             /\ ReportOf(call'[x]) = ReportOf(call[x])
             /\ Orderly(call'[x], done'[x], Own(x)')
  <2>1. CASE call'[x] = call[x]
    BY <2>1, OrderlyLess DEF OrderInv
  <2>2. CASE Overhears(x)
    BY <2>2 DEF Overhears, TodoOf, ReportOf, Orderly
  <2>3. QED
    BY <2>1, <2>2
<1>2. OnwardAt(s)
  BY <1>1 DEF OnwardAt
<1>3. \A x \in Senders : Orderly(call'[x], done'[x], Own(x)')
  BY <1>1
<1>4. QED
  BY <1>2, <1>3 DEF OrderInv

(* A step that moves the call of s and nothing else. *)
LEMMA CallMovesOn ==
  ASSUME OrderInv, AccountInv', NEW s \in Senders, NEW c \in CallType,
         call' = [call EXCEPT ![s] = c], UNCHANGED <<pool, done>>,
         Orderly(c, done[s], Own(s)),
         Onward(TodoOf(call[s], done[s]), ReportOf(call[s]), TodoOf(c, done[s]), ReportOf(c))
  PROVE  OrderInv' /\ OnwardAt(s)
<1>1. call'[s] = c /\ \A x \in Senders \ {s} : call'[x] = call[x]
  BY DEF OrderInv, AccountInv, AccountTypeOK
<1>2. \A x \in Senders : Own(x)' = Own(x) /\ done'[x] = done[x]
  BY DEF Own
<1>3. QED
  BY <1>1, <1>2, OneSender

(* A command begins with its first call, or ends before it. *)
LEMMA EnterGoesOn ==
  ASSUME OrderInv, AccountInv', NEW s \in Senders, NEW p \in {"build", "over"},
         NEW k \in DOMAIN Program \union {"storeKey"}, NEW f \in Calls,
         f = IF k = "staking" THEN "approve" ELSE k,
         Enter(s, k, f, p)
  PROVE  OrderInv' /\ OnwardAt(s)
<1> DEFINE c == [Idle EXCEPT !.command = k, !.fun = f, !.at = p]
<1>1. /\ call[s].command = "none" /\ done[s] = {} /\ Own(s) = {}
      /\ call' = [call EXCEPT ![s] = c] /\ UNCHANGED <<count, pool, stake, done>>
  BY DEF Enter, OrderInv, Orderly
<1>2. c \in CallType /\ c.at = p /\ c.command = k /\ c.fun = f /\ c.receipt = "none"
  BY DEF Idle, CallType
<1> HIDE DEF c
<1>3. Orderly(c, {}, {})
  <2>1. f # "stake"
    BY DEF Program, Plain
  <2>2. QED
    BY <1>2, <2>1 DEF Orderly, Prior, Made
<1>4. ReportOf(call[s]) = "idle" /\ TodoOf(call[s], {}) = <<>>
  BY <1>1 DEF ReportOf, TodoOf, Program, Plain
<1>5. CASE k \in DOMAIN Program
  <2>1. TodoOf(c, {}) = Program[k]
    BY <1>2, <1>5, TodoValues
  <2>2. ReportOf(c) \in {"open", "over"}
    BY <1>2, <1>5 DEF ReportOf
  <2>3. Onward(TodoOf(call[s], {}), ReportOf(call[s]), TodoOf(c, {}), ReportOf(c))
    BY <1>4, <1>5, <2>1, <2>2 DEF Onward
  <2>4. QED
    BY <1>1, <1>2, <1>3, <2>3, CallMovesOn
<1>6. CASE k = "storeKey"
  <2>1. TodoOf(c, {}) = <<>> /\ ReportOf(c) = "idle"
    BY <1>2, <1>6 DEF TodoOf, ReportOf, Program, Plain
  <2>2. QED
    BY <1>1, <1>2, <1>3, <1>4, <2>1, CallMovesOn DEF Onward
<1>7. QED
  BY <1>5, <1>6

(* A command that is given up, killed or refused reports no success. *)
LEMMA OverGoesOn ==
  ASSUME OrderInv, AccountInv', NEW s \in Senders, call[s].at \in {"build", "send", "wait"},
         Goto(s, "over"), UNCHANGED <<pool, done>>
  PROVE  OrderInv' /\ OnwardAt(s)
<1> DEFINE c == [call[s] EXCEPT !.at = "over", !.nonce = 0, !.receipt = "none"]
<1>1. call' = [call EXCEPT ![s] = c]
  BY DEF Goto, At
<1>2. /\ c \in CallType /\ c.at = "over" /\ c.receipt = "none"
      /\ c.command = call[s].command /\ c.fun = call[s].fun
  BY DEF OrderInv, AccountInv, AccountTypeOK, CallType
<1> HIDE DEF c
<1>3. Orderly(call[s], done[s], Own(s))
  BY DEF OrderInv
<1>4. Orderly(c, done[s], Own(s))
  BY <1>2, <1>3 DEF Orderly
<1>5. TodoOf(c, done[s]) = TodoOf(call[s], done[s])
  BY <1>2 DEF TodoOf
<1>6. Onward(TodoOf(call[s], done[s]), ReportOf(call[s]), TodoOf(c, done[s]), ReportOf(c))
  BY <1>2, <1>5 DEF Onward, ReportOf
<1>7. QED
  BY <1>1, <1>2, <1>4, <1>6, CallMovesOn

(* Reading the count is nothing OrderedCommands knows. *)
LEMMA BuildGoesOn ==
  ASSUME OrderInv, AccountInv', NEW s \in Senders, Build(s)
  PROVE  OrderInv' /\ OnwardAt(s)
<1> DEFINE c == [call[s] EXCEPT !.nonce = NextNonce(s), !.at = "send"]
<1>1. call' = [call EXCEPT ![s] = c] /\ UNCHANGED <<pool, done>> /\ call[s].at = "build"
  BY DEF Build
<1>2. call \in [Senders -> CallType] /\ call' \in [Senders -> CallType]
  BY DEF OrderInv, AccountInv, AccountTypeOK
<1>3. /\ c \in CallType /\ c.at = "send" /\ c.receipt = call[s].receipt
      /\ c.command = call[s].command /\ c.fun = call[s].fun
  BY <1>1, <1>2 DEF CallType
<1> HIDE DEF c
<1>4. Orderly(call[s], done[s], Own(s))
  BY DEF OrderInv
<1>5. Orderly(c, done[s], Own(s))
  BY <1>1, <1>3, <1>4 DEF Orderly
<1>6. Onward(TodoOf(call[s], done[s]), ReportOf(call[s]), TodoOf(c, done[s]), ReportOf(c))
  BY <1>1, <1>3 DEF Onward, ReportOf, TodoOf
<1>7. QED
  BY <1>1, <1>3, <1>5, <1>6, CallMovesOn

(* What is sent is the only transaction of its sender, and did not take    *)
(* effect yet.                                                             *)
LEMMA SendGoesOn ==
  ASSUME OrderInv, AccountInv', NEW s \in Senders, Send(s)
  PROVE  OrderInv' /\ OnwardAt(s)
<1> DEFINE new == [sender |-> s, fun |-> call[s].fun, nonce |-> call[s].nonce]
<1>1. /\ pool' = {t \in pool : t.nonce # call[s].nonce} \union {new}
      /\ done' = done /\ call[s].at = "send"
  BY DEF Send
<1>2. new.sender = s /\ new.fun = call[s].fun
  OBVIOUS
<1>3. PICK p \in {"wait", "over"} : Goto(s, p)
  BY DEF Send
<1>4. call[s] \in CallType
  BY DEF OrderInv, AccountInv, AccountTypeOK
<1>5. /\ \A x \in Senders \ {s} : call'[x] = call[x]
      /\ call'[s] = At(s, p)
  BY <1>3 DEF Goto, OrderInv, AccountInv, AccountTypeOK
<1>6. /\ At(s, p).at = p /\ At(s, p).receipt \in {call[s].receipt, "none"}
      /\ At(s, p).command = call[s].command /\ At(s, p).fun = call[s].fun
  BY <1>4 DEF At, CallType
<1> HIDE DEF new
<1>7. /\ \A x \in Senders \ {s} : Own(x)' \subseteq Own(x)
      /\ \A t \in Own(s)' : t = new \/ t \in Own(s)
  BY <1>1, <1>2 DEF Own
<1>8. Orderly(call[s], done[s], Own(s))
  BY DEF OrderInv
<1>9. Orderly(call'[s], done'[s], Own(s)')
  BY <1>1, <1>2, <1>5, <1>6, <1>7, <1>8 DEF Orderly, Prior
<1>10. Onward(TodoOf(call[s], done[s]), ReportOf(call[s]),
              TodoOf(call'[s], done'[s]), ReportOf(call'[s]))
  <2>1. TodoOf(call'[s], done'[s]) = TodoOf(call[s], done[s])
    BY <1>1, <1>5, <1>6 DEF TodoOf
  <2>2. \/ ReportOf(call'[s]) = ReportOf(call[s])
        \/ ReportOf(call'[s]) = "over" /\ ReportOf(call[s]) = "open"
    BY <1>1, <1>5, <1>6 DEF ReportOf
  <2>3. QED
    BY <2>1, <2>2 DEF Onward
<1>11. QED
  BY <1>1, <1>5, <1>7, <1>9, <1>10, OneSender

(* A receipt of success follows the effect, so the command goes on to what *)
(* is left of it, or reports that nothing is.                              *)
LEMMA ReceiptGoesOn ==
  ASSUME OrderInv, AccountInv', NEW s \in Senders, Receipt(s)
  PROVE  OrderInv' /\ OnwardAt(s)
<1> DEFINE d == done[s]  c == AfterReceipt(s)
<1>1. /\ call' = [call EXCEPT ![s] = c] /\ UNCHANGED <<pool, done>>
      /\ call[s].at = "wait" /\ call[s].receipt # "none"
  BY DEF Receipt, Waiting
<1>2. call \in [Senders -> CallType] /\ call' \in [Senders -> CallType]
  BY DEF OrderInv, AccountInv, AccountTypeOK
<1>3. c = call'[s] /\ c \in CallType
  BY <1>1, <1>2
<1>4. Orderly(call[s], d, Own(s))
  BY DEF OrderInv
<1>5. \/ /\ call[s].receipt = "ok" /\ call[s].fun = "approve"
         /\ c.fun = "stake" /\ c.at = "build" /\ c.receipt = "none"
         /\ c.command = call[s].command
      \/ /\ call[s].receipt = "ok" => call[s].fun # "approve"
         /\ c.at = IF call[s].receipt = "ok" THEN "ok" ELSE "over"
         /\ c.receipt = "none" /\ c.fun = call[s].fun /\ c.command = call[s].command
  BY <1>2 DEF AfterReceipt, ReceiptSuccess, At, CallType
<1> HIDE DEF c
<1>6. CASE call[s].command \notin DOMAIN Program
  <2>1. Orderly(c, d, Own(s))
    BY <1>5, <1>6 DEF Orderly
  <2>2. Onward(TodoOf(call[s], d), ReportOf(call[s]), TodoOf(c, d), ReportOf(c))
    BY <1>5, <1>6 DEF Onward, ReportOf, TodoOf
  <2>3. QED
    BY <1>1, <1>3, <2>1, <2>2, CallMovesOn
<1>7. CASE call[s].command \in DOMAIN Program
  <2>1. Own(s) = {}
    BY <1>1, <1>4, <1>7 DEF Orderly
  <2>2. Orderly(c, d, Own(s))
    <3>1. c.fun = "stake" /\ call[s].fun = "approve" =>
            call[s].command = "staking" \/ c.fun = call[s].fun
      BY <1>4, <1>7 DEF Orderly, Made, Program, Plain
    <3>2. QED
      BY <1>4, <1>5, <1>7, <2>1, <3>1 DEF Orderly, Prior, Made
  <2>3. TodoOf(c, d) = TodoOf(call[s], d) /\ ReportOf(call[s]) = "open"
    BY <1>1, <1>5, <1>7 DEF TodoOf, ReportOf
  <2>4. c.at = "ok" => TodoOf(call[s], d) = <<>>
    <3>1. SUFFICES ASSUME c.at = "ok" PROVE TodoOf(call[s], d) = <<>>
      OBVIOUS
    <3>2. call[s].fun \in d /\ call[s].fun # "approve" /\ call[s].fun \in Made(call[s].command)
      BY <1>4, <1>5, <1>7, <3>1 DEF Orderly
    <3>3. CASE call[s].command = "staking"
      <4>1. call[s].fun = "stake" /\ "approve" \in d
        BY <1>4, <1>7, <3>2, <3>3 DEF Orderly, Made, Prior
      <4>2. QED
        BY <1>7, <3>2, <3>3, <4>1, TodoValues
    <3>4. CASE call[s].command # "staking"
      BY <1>7, <3>2, <3>4, TodoValues DEF Made
    <3>5. QED
      BY <3>3, <3>4
  <2>5. ReportOf(c) = IF c.at \in {"ok", "over"} THEN c.at ELSE "open"
    BY <1>5, <1>7 DEF ReportOf
  <2>6. Onward(TodoOf(call[s], d), ReportOf(call[s]), TodoOf(c, d), ReportOf(c))
    BY <1>5, <2>3, <2>4, <2>5 DEF Onward
  <2>7. QED
    BY <1>1, <1>3, <2>2, <2>6, CallMovesOn
<1>8. QED
  BY <1>6, <1>7

(* A transaction that is mined takes effect for its sender, whose next     *)
(* call without effect it is; others do not notice.                        *)
LEMMA MineGoesOn ==
  ASSUME OrderInv, AccountInv', NEW t \in pool, NEW ok \in BOOLEAN, Mine(t, ok)
  PROVE  OrderInv' /\ OnwardAt(t.sender)
<1> DEFINE s == t.sender
<1>1. s \in Senders /\ t \in Own(s) /\ t.fun \in Calls
  BY DEF Own, OrderInv, AccountInv, AccountTypeOK
<1>2. call \in [Senders -> CallType]
  BY DEF OrderInv, AccountInv, AccountTypeOK
<1>3. ASSUME NEW x \in Senders
      PROVE  /\ call'[x] = call[x] \/ (call[x].at = "wait" /\ Hears(x, t))
             /\ call'[x].command = call[x].command /\ call'[x].at = call[x].at
             /\ call'[x].fun = call[x].fun
             /\ call'[x].receipt = IF Hears(x, t) THEN (IF ok THEN "ok" ELSE "reverted")
                                   ELSE call[x].receipt
  <2>1. call'[x] = IF Hears(x, t)
                   THEN [call[x] EXCEPT !.receipt = IF ok THEN "ok" ELSE "reverted"]
                   ELSE call[x]
    BY DEF Mine
  <2>2. QED
    BY <1>2, <2>1 DEF CallType, Hears, Waiting
<1>4. /\ \A x \in Senders \ {s} : done'[x] = done[x]
      /\ done'[s] = IF ok THEN done[s] \union {t.fun} ELSE done[s]
      /\ pool' = pool \ {t}
  BY <1>1 DEF Mine, OrderInv, AccountInv, AccountTypeOK
<1> HIDE DEF s
<1>5. \A x \in Senders : Own(x)' \subseteq Own(x) /\ t \notin Own(x)'
  BY <1>4 DEF Own
<1>6. ASSUME NEW x \in Senders \ {s}
      PROVE  call'[x] = call[x] \/ Overhears(x)
  <2>1. Orderly(call[x], done[x], Own(x))
    BY DEF OrderInv
  <2>2. CASE call'[x] # call[x]
    <3>1. call[x].fun = "storeKey" /\ call[x].at = "wait"
      BY <1>3, <2>2 DEF Hears, s
    <3>2. call[x].command \notin DOMAIN Program
      BY <2>1, <3>1 DEF Orderly, Made, Program, Plain
    <3>3. QED
      BY <1>3, <3>1, <3>2 DEF Overhears
  <2>3. QED
    BY <2>2
<1>7. Orderly(call[s], done[s], Own(s))
  BY <1>1 DEF OrderInv
<1>8. call[s].at # "idle"
  BY <1>1, <1>7 DEF Orderly
<1>9. CASE call[s].command \notin DOMAIN Program
  <2>1. Orderly(call'[s], done'[s], Own(s)')
    BY <1>1, <1>3, <1>8, <1>9 DEF Orderly
  <2>2. Onward(TodoOf(call[s], done[s]), ReportOf(call[s]),
               TodoOf(call'[s], done'[s]), ReportOf(call'[s]))
    BY <1>1, <1>3, <1>9 DEF Onward, TodoOf, ReportOf
  <2>3. QED
    BY <1>1, <1>4, <1>5, <1>6, <2>1, <2>2, OneSender DEF s
<1>10. CASE call[s].command \in DOMAIN Program
  <2> DEFINE k == call[s].command  f == call[s].fun  d == done[s]
  <2>1. /\ t.fun = f /\ f \notin d /\ f \in Made(k) /\ d = Prior(f)
        /\ call[s].receipt = "none" /\ call[s].at # "ok"
        /\ call[s].at \notin {"build", "send"}
        /\ \A u \in Own(s) : u = t
    BY <1>1, <1>7, <1>10 DEF Orderly
  <2>2. Own(s)' = {}
    BY <1>1, <1>5, <2>1
  <2>3. Orderly(call'[s], done'[s], Own(s)')
    <3>1. call'[s].receipt = "ok" => ok
      BY <1>1, <1>3, <2>1
    <3>2. done'[s] \in {Prior(f), Prior(f) \union {f}} /\ (ok => f \in done'[s])
      BY <1>4, <2>1
    <3>3. QED
      BY <1>1, <1>3, <1>8, <1>10, <2>1, <2>2, <3>1, <3>2 DEF Orderly
  <2>4. ReportOf(call'[s]) = ReportOf(call[s])
    BY <1>1, <1>3 DEF ReportOf
  <2>5. \A e : TodoOf(call'[s], e) = TodoOf(call[s], e)
    BY <1>1, <1>3 DEF TodoOf
  <2>6. ok => /\ TodoOf(call[s], d) # <<>>
              /\ TodoOf(call[s], d \union {f}) = Tail(TodoOf(call[s], d))
    <3>1. CASE k # "staking"
      <4>1. f = k /\ f \notin d /\ f \in d \union {f}
        BY <2>1, <3>1 DEF Made
      <4>2. TodoOf(call[s], d) = Program[k] /\ TodoOf(call[s], d \union {f}) = <<>>
        BY <1>10, <3>1, <4>1, TodoValues
      <4>3. Program[k] = <<k>>
        BY <1>10, <3>1 DEF Program
      <4>4. <<k>> # <<>> /\ Tail(<<k>>) = <<>>
        OBVIOUS
      <4>5. QED
        BY <4>2, <4>3, <4>4
    <3>2. CASE k = "staking" /\ f = "approve"
      <4>1. d = {} /\ d \union {f} = {"approve"}
        BY <2>1, <3>2 DEF Prior
      <4>2. /\ TodoOf(call[s], d) = Program[k]
            /\ TodoOf(call[s], d \union {f}) = Tail(TodoOf(call[s], d))
        BY <1>10, <3>2, <4>1, TodoValues
      <4>3. Program[k] # <<>>
        BY <3>2 DEF Program
      <4>4. QED
        BY <4>2, <4>3
    <3>3. CASE k = "staking" /\ f = "stake"
      <4>1. d = {"approve"} /\ d \union {f} = {"approve", "stake"}
        BY <2>1, <3>3 DEF Prior
      <4>2. TodoOf(call[s], d) = <<"stake">> /\ TodoOf(call[s], d \union {f}) = <<>>
        BY <1>10, <3>3, <4>1, TodoValues
      <4>3. <<"stake">> # <<>> /\ Tail(<<"stake">>) = <<>>
        OBVIOUS
      <4>4. QED
        BY <4>2, <4>3
    <3>4. QED
      BY <2>1, <3>1, <3>2, <3>3 DEF Made
  <2>7. Onward(TodoOf(call[s], d), ReportOf(call[s]),
               TodoOf(call'[s], done'[s]), ReportOf(call'[s]))
    <3>1. CASE ok
      <4>1. done'[s] = d \union {f}
        BY <1>4, <2>1, <3>1
      <4>2. QED
        BY <2>4, <2>5, <2>6, <3>1, <4>1 DEF Onward
    <3>2. CASE ~ok
      BY <1>4, <2>4, <2>5, <3>2 DEF Onward
    <3>3. QED
      BY <3>1, <3>2
  <2>8. QED
    BY <1>1, <1>4, <1>5, <1>6, <2>3, <2>7, OneSender DEF s
<1>11. QED
  BY <1>9, <1>10

(* What happens to neither calls nor effects leaves every command alone. *)
LEMMA NobodyMoves ==
  ASSUME OrderInv, AccountInv', UNCHANGED <<call, done>>, pool' \subseteq pool
  PROVE  OrderInv' /\ [Outcome!OutcomeNext]_(Outcome!outcomeVars)
<1>1. \A x \in Senders : Own(x)' \subseteq Own(x)
  BY DEF Own
<1>2. \A x \in Senders : Orderly(call'[x], done'[x], Own(x)')
  BY <1>1, OrderlyLess DEF OrderInv
<1>3. Todo' = Todo /\ Report' = Report
  BY OutcomeMap
<1>4. QED
  BY <1>2, <1>3 DEF OrderInv, Outcome!outcomeVars

(* Every step of senders and chain is one of OrderedCommands, or none. *)
LEMMA AccountRefines ==
  ASSUME OrderInv, [AccountNext]_accountVars
  PROVE  OrderInv' /\ [Outcome!OutcomeNext]_(Outcome!outcomeVars)
<1>1. AccountInv'
  BY AccountNextInv DEF OrderInv
<1>2. SUFFICES \/ \E s \in Senders : OrderInv' /\ OnwardAt(s)
               \/ OrderInv' /\ [Outcome!OutcomeNext]_(Outcome!outcomeVars)
  BY OnwardRefines
<1>3. ASSUME NEW s \in Senders, NEW f \in Calls, Transact(s, f)
      PROVE  OrderInv' /\ OnwardAt(s)
  BY <1>1, <1>3, BuildGoesOn, SendGoesOn, ReceiptGoesOn, OverGoesOn
     DEF Transact, Refused, TimedOut, Waiting
<1>4. ASSUME NEW s \in Senders, Killed(s)
      PROVE  OrderInv' /\ OnwardAt(s)
  BY <1>1, <1>4, OverGoesOn DEF Killed
<1>5. ASSUME NEW s \in Senders, NEW k \in DOMAIN Program \union {"storeKey"},
             NEW p \in {"build", "over"},
             Enter(s, k, IF k = "staking" THEN "approve" ELSE k, p)
      PROVE  OrderInv' /\ OnwardAt(s)
  <2>1. (IF k = "staking" THEN "approve" ELSE k) \in Calls
    BY DEF Program, Calls, Plain
  <2>2. QED
    BY <1>1, <1>5, <2>1, EnterGoesOn
<1>6. ASSUME NEW s \in Senders, SenderStep(s)
      PROVE  \/ \E k \in DOMAIN Program \union {"storeKey"}, p \in {"build", "over"} :
                  Enter(s, k, IF k = "staking" THEN "approve" ELSE k, p)
             \/ \E f \in Calls : Transact(s, f)
  <2> USE DEF Program, Plain, Calls
  <2>1. CASE RegisterNode(s) \/ UpdateHeartbeat(s) \/ UpdateAttestation(s)
    BY <2>1 DEF RegisterNode, UpdateHeartbeat, UpdateAttestation
  <2>2. CASE PostCommitment(s) \/ StorePromptKey(s)
    BY <2>2 DEF PostCommitment, StorePromptKey
  <2>3. CASE \/ ApproveBlind(s) \/ StakeBlind(s) \/ InitiateUnstake(s)
             \/ CompleteUnstake(s)
    BY <2>3 DEF ApproveBlind, StakeBlind, InitiateUnstake, CompleteUnstake
  <2>4. CASE StakingStake(s) \/ StakingUnstake(s) \/ StakingWithdraw(s)
    BY <2>4 DEF StakingStake, StakingUnstake, StakingWithdraw
  <2>5. QED
    BY <1>6, <2>1, <2>2, <2>3, <2>4 DEF SenderStep
<1>7. ASSUME NEW t \in pool, NEW ok \in BOOLEAN, Mine(t, ok)
      PROVE  \E s \in Senders : OrderInv' /\ OnwardAt(s)
  <2>1. t.sender \in Senders
    BY DEF OrderInv, AccountInv, AccountTypeOK
  <2>2. QED
    BY <1>1, <1>7, <2>1, MineGoesOn
<1>8. ASSUME \/ \E t \in pool : Drop(t)
             \/ Unbonded \/ UNCHANGED accountVars
      PROVE  OrderInv' /\ [Outcome!OutcomeNext]_(Outcome!outcomeVars)
  BY <1>1, <1>8, NobodyMoves DEF Drop, Unbonded, accountVars
<1>9. QED
  BY <1>3, <1>4, <1>5, <1>6, <1>7, <1>8 DEF AccountNext, ChainStep

(* Nobody has begun a command. *)
LEMMA OutcomeInitRefines == AccountInit => OrderInv /\ Outcome!OutcomeInit
<1> SUFFICES ASSUME AccountInit PROVE OrderInv /\ Outcome!OutcomeInit
  OBVIOUS
<1>1. \A s \in Senders : call[s] = Idle /\ done[s] = {} /\ Own(s) = {}
  BY DEF AccountInit, Own
<1>2. Idle.at = "idle" /\ Idle.command = "none" /\ "none" \notin DOMAIN Program
  BY DEF Idle, Program, Plain
<1>3. OrderInv
  BY <1>1, <1>2, AccountInitInv DEF OrderInv, Orderly
<1>4. \A s \in Senders : TodoOf(call[s], done[s]) = <<>> /\ ReportOf(call[s]) = "idle"
  BY <1>1, <1>2 DEF TodoOf, ReportOf
<1>5. QED
  BY <1>3, <1>4, OutcomeMap DEF Outcome!OutcomeInit

(* A command's transactions take effect in their order, each once at most, *)
(* and success is reported after all of them: for any number of threads    *)
(* and processes that share the account, whose transactions are replaced,  *)
(* dropped, reverted or mined after their command gave up (registry.py     *)
(* 386-462, cli.py 800-918).                                               *)
THEOREM CommandsKeepOrder == AccountSpec => CommandsInOrder
<1>1. AccountInit => OrderInv /\ Outcome!OutcomeInit
  BY OutcomeInitRefines
<1>2. OrderInv /\ [AccountNext]_accountVars
        => OrderInv' /\ [Outcome!OutcomeNext]_(Outcome!outcomeVars)
  BY AccountRefines
<1>3. QED
  BY <1>1, <1>2, PTL DEF AccountSpec, CommandsInOrder, Outcome!OutcomeSpec
===============================================================================
