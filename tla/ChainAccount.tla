------------------------------ MODULE ChainAccount ------------------------------
(***************************************************************************)
(* The node's account on chain and everything that sends from it.          *)
(*                                                                         *)
(* The functions of registry.py that send a transaction are all made the   *)
(* same way: read the transaction count, sign, send, wait for the receipt, *)
(* look at its status.  They run in threads of the daemon (heartbeat,      *)
(* certificate) and in processes of the command line (attest, staking), so *)
(* any two of them may be between two of these steps.  storePromptKey of   *)
(* the bridge (cofhe_bridge.mjs) sends from the same account, by a library *)
(* that numbers its transactions differently.                              *)
(*                                                                         *)
(* External: the mempool, the chain and its contracts.                     *)
(***************************************************************************)
EXTENDS Naturals, Sequences, FiniteSets

CONSTANTS
  Senders,    (* threads and processes, each of which runs one command     *)
  Amount      (* what each sender stakes if it comes to stake              *)

ASSUME AccountAssumption ==
  /\ IsFiniteSet(Senders)
  /\ Amount \in [Senders -> Nat \ {0}]

(* Functions that make a command of their own.                             *)
Plain == {"register", "heartbeat", "attest", "post"}

(* What sends transactions, and which ones in which order.                 *)
Program ==
  [k \in Plain \union {"staking", "unstake", "withdraw"} |->
     IF k = "staking" THEN <<"approve", "stake">> ELSE <<k>>]

Calls == Plain \union {"approve", "stake", "unstake", "withdraw", "storeKey"}

VARIABLES
  call,       (* where each sender is                                      *)
  count,      (* how many transactions of the account are mined            *)
  pool,       (* transactions of the account that wait to be mined         *)
  stake,      (* what the token and the staking contract hold of the node  *)
  done        (* history: the calls of each sender that took effect        *)

accountVars == <<call, count, pool, stake, done>>

Idle == [command |-> "none", fun |-> "none", at |-> "idle", nonce |-> 0,
         receipt |-> "none"]

Waiting == {s \in Senders : call[s].at = "wait"}

AccountInit ==
  /\ call = [s \in Senders |-> Idle]
  /\ count = 0
  /\ pool = {}
  /\ stake \in [allowance : {0}, staked : 0..1, unbonding : 0..1, ready : {FALSE}]
  /\ done = [s \in Senders |-> {}]

(***************************************************************************)
(* One call of a function of registry.py, step by step.                    *)
(***************************************************************************)

(* Where a call ends, its number and its receipt are gone. *)
At(s, place) ==
  IF place \in {"ok", "over"}
  THEN [call[s] EXCEPT !.at = place, !.nonce = 0, !.receipt = "none"]
  ELSE [call[s] EXCEPT !.at = place]

Goto(s, place) == call' = [call EXCEPT ![s] = At(s, place)]

(* A command begins with the call of function f, or ends before it.        *)
Enter(s, k, f, place) ==
  /\ call[s].at = "idle"
  /\ call' = [call EXCEPT ![s] = [Idle EXCEPT !.command = k, !.fun = f, !.at = place]]
  /\ UNCHANGED <<count, pool, stake, done>>

(* The first number no waiting transaction has. *)
Pending ==
  CHOOSE n \in count..(count + Cardinality(pool)) :
    /\ \A t \in pool : t.nonce # n
    /\ \A m \in count..(n - 1) : \E t \in pool : t.nonce = m

(* Mutant of NextNonce: every sender counts the waiting ones too. *)
NextNoncePending(s) == Pending

(* get_transaction_count counts mined transactions; the bridge's library   *)
(* counts the waiting ones as well.                                        *)
NextNonce(s) == IF call[s].fun = "storeKey" THEN Pending ELSE count

Build(s) ==
  /\ call[s].at = "build"
  /\ call' = [call EXCEPT ![s].nonce = NextNonce(s), ![s].at = "send"]
  /\ UNCHANGED <<count, pool, stake, done>>

(* The node takes the transaction, in place of one with the same number    *)
(* if there is any.  Its answer may get lost on the way.                   *)
Send(s) ==
  /\ call[s].at = "send"
  /\ call[s].nonce >= count
  /\ pool' = {t \in pool : t.nonce # call[s].nonce}
               \union {[sender |-> s, fun |-> call[s].fun, nonce |-> call[s].nonce]}
  /\ Goto(s, "wait") \/ Goto(s, "over")
  /\ UNCHANGED <<count, stake, done>>

(* An endpoint that fails, or refuses: the number is used up, or the       *)
(* transaction that has it pays more.                                      *)
Refused(s) ==
  /\ call[s].at \in {"build", "send"}
  /\ Goto(s, "over")
  /\ UNCHANGED <<count, pool, stake, done>>

(* Mutant of ReceiptSuccess: any receipt will do. *)
AnyReceipt(s) == TRUE

ReceiptSuccess(s) == call[s].receipt = "ok"

(* Mutant of AfterReceipt: staking goes on whether or not it may spend. *)
AfterReceiptCareless(s) ==
  IF call[s].fun = "approve"
  THEN [call[s] EXCEPT !.fun = "stake", !.at = "build", !.receipt = "none"]
  ELSE At(s, IF ReceiptSuccess(s) THEN "ok" ELSE "over")

(* `staking stake` goes on to stake_blind only with a receipt of success.  *)
AfterReceipt(s) ==
  IF ReceiptSuccess(s) /\ call[s].fun = "approve"
  THEN [call[s] EXCEPT !.fun = "stake", !.at = "build", !.receipt = "none"]
  ELSE At(s, IF ReceiptSuccess(s) THEN "ok" ELSE "over")

Receipt(s) ==
  /\ s \in Waiting
  /\ call[s].receipt # "none"
  /\ call' = [call EXCEPT ![s] = AfterReceipt(s)]
  /\ UNCHANGED <<count, pool, stake, done>>

(* Mutant of TimedOut: the wait for a receipt has no end. *)
TimedOutNever(s) == FALSE /\ UNCHANGED accountVars

(* wait_for_transaction_receipt gives up after its 120 seconds. *)
TimedOut(s) ==
  /\ s \in Waiting
  /\ Goto(s, "over")
  /\ UNCHANGED <<count, pool, stake, done>>

Transact(s, f) ==
  /\ call[s].fun = f
  /\ Build(s) \/ Send(s) \/ Refused(s) \/ Receipt(s) \/ TimedOut(s)

(***************************************************************************)
(* The callers.                                                            *)
(***************************************************************************)

RegisterNode(s) ==
  Enter(s, "register", "register", "build") \/ Transact(s, "register")
UpdateHeartbeat(s) ==
  Enter(s, "heartbeat", "heartbeat", "build") \/ Transact(s, "heartbeat")
UpdateAttestation(s) ==
  Enter(s, "attest", "attest", "build") \/ Transact(s, "attest")
(* post_commitment_seal and post_commitment_reveal *)
PostCommitment(s) ==
  Enter(s, "post", "post", "build") \/ Transact(s, "post")

ApproveBlind(s) == Transact(s, "approve")
StakeBlind(s) == Transact(s, "stake")
InitiateUnstake(s) == Transact(s, "unstake")
CompleteUnstake(s) == Transact(s, "withdraw")
StorePromptKey(s) ==
  Enter(s, "storeKey", "storeKey", "build") \/ Transact(s, "storeKey")

(* Someone who has staked already is asked whether to add to it. *)
StakingStake(s) ==
  \/ Enter(s, "staking", "approve", "build")
  \/ stake.staked > 0 /\ Enter(s, "staking", "approve", "over")

(* get_stake_info answers None when it fails, and the command ends. *)
StakingUnstake(s) ==
  \/ stake.staked > 0 /\ Enter(s, "unstake", "unstake", "build")
  \/ Enter(s, "unstake", "unstake", "over")

StakingWithdraw(s) ==
  \/ stake.unbonding > 0 /\ stake.ready /\ Enter(s, "withdraw", "withdraw", "build")
  \/ Enter(s, "withdraw", "withdraw", "over")

(* The process is killed: what it has sent stays sent. *)
Killed(s) ==
  /\ call[s].at \in {"build", "send", "wait"}
  /\ Goto(s, "over")
  /\ UNCHANGED <<count, pool, stake, done>>

(***************************************************************************)
(* The chain.                                                              *)
(***************************************************************************)

Allowed(t) ==
  CASE t.fun = "stake" -> stake.allowance >= Amount[t.sender]
    [] t.fun = "unstake" -> stake.staked > 0
    [] t.fun = "withdraw" -> stake.unbonding > 0 /\ stake.ready
    [] OTHER -> TRUE

Effect(t) ==
  CASE t.fun = "approve" -> [stake EXCEPT !.allowance = Amount[t.sender]]
    [] t.fun = "stake" -> [stake EXCEPT !.allowance = @ - Amount[t.sender],
                                        !.staked = @ + Amount[t.sender]]
    [] t.fun = "unstake" -> [stake EXCEPT !.unbonding = @ + stake.staked,
                                          !.staked = 0, !.ready = FALSE]
    [] t.fun = "withdraw" -> [stake EXCEPT !.unbonding = 0, !.ready = FALSE]
    [] OTHER -> stake

(* A sender hears of its own transaction; the bridge's library takes the   *)
(* receipt of whatever was mined with its number.                          *)
Hears(s, t) ==
  /\ s \in Waiting
  /\ t.sender = s \/ (call[s].fun = "storeKey" /\ call[s].nonce = t.nonce)

Mine(t, ok) ==
  /\ t.nonce = count
  /\ ok => Allowed(t)
  /\ count' = count + 1
  /\ pool' = pool \ {t}
  /\ stake' = IF ok THEN Effect(t) ELSE stake
  /\ done' = IF ok THEN [done EXCEPT ![t.sender] = @ \union {t.fun}] ELSE done
  /\ call' = [s \in Senders |->
                IF Hears(s, t)
                THEN [call[s] EXCEPT !.receipt = IF ok THEN "ok" ELSE "reverted"]
                ELSE call[s]]

(* The mempool forgets a transaction. *)
Drop(t) ==
  /\ pool' = pool \ {t}
  /\ UNCHANGED <<call, count, stake, done>>

(* The unbonding period is over. *)
Unbonded ==
  /\ stake.unbonding > 0 /\ ~stake.ready
  /\ stake' = [stake EXCEPT !.ready = TRUE]
  /\ UNCHANGED <<call, count, pool, done>>

ChainStep ==
  \/ \E t \in pool : Drop(t) \/ \E ok \in BOOLEAN : Mine(t, ok)
  \/ Unbonded

SenderStep(s) ==
  \/ RegisterNode(s) \/ UpdateHeartbeat(s) \/ UpdateAttestation(s)
  \/ PostCommitment(s)
  \/ StakingStake(s) \/ ApproveBlind(s) \/ StakeBlind(s)
  \/ StakingUnstake(s) \/ InitiateUnstake(s)
  \/ StakingWithdraw(s) \/ CompleteUnstake(s)
  \/ StorePromptKey(s)

AccountNext ==
  \/ \E s \in Senders : SenderStep(s) \/ Killed(s)
  \/ ChainStep

AccountSpec == AccountInit /\ [][AccountNext]_accountVars

(* A call goes on: the endpoint answers or fails, the wait is bounded.     *)
(* Nothing is assumed of the chain.                                        *)
GoesOn(s) == \E f \in Calls : Transact(s, f)

AccountFairness == \A s \in Senders : WF_accountVars(GoesOn(s))

(***************************************************************************)
(* Properties.                                                             *)
(***************************************************************************)

CallType ==
  [command : DOMAIN Program \union {"none", "storeKey"},
   fun : Calls \union {"none"},
   at : {"idle", "build", "send", "wait", "ok", "over"},
   nonce : Nat,
   receipt : {"none", "ok", "reverted"}]

AccountTypeOK ==
  /\ call \in [Senders -> CallType]
  /\ count \in Nat
  /\ pool \subseteq [sender : Senders, fun : Calls, nonce : Nat]
  /\ stake \in [allowance : Nat, staked : Nat, unbonding : Nat, ready : BOOLEAN]
  /\ done \in [Senders -> SUBSET Calls]

(* A transaction of registry.py never waits for another one: it has the    *)
(* number that is mined next.  So one that is dropped or replaced holds up *)
(* no later heartbeat or certificate, though senders do not know of each   *)
(* other and the count may be stale when it is used (registry.py 391,      *)
(* 447).  The price is that the bridge's transactions do not count.        *)
OwnTurn == \A t \in pool : t.fun # "storeKey" => t.nonce = count

(* Every sender's command comes to its end (each sender runs one),         *)
(* whatever happens to its transactions: mined, reverted, replaced by      *)
(* another sender's, dropped (registry.py 393 waits for 120 seconds).      *)
CommandsEnd == <>[](\A s \in Senders : call[s].at \notin {"build", "send", "wait"})

(* The commands do what OrderedCommands says: success is reported only of  *)
(* calls that took effect, and nothing is staked before it was approved.   *)
(* The bridge's call is no part of it: what it reports may be the receipt  *)
(* of the transaction that took its number.                                *)
Python(s) == call[s].command \in DOMAIN Program

Left(s, f) == IF f \in done[s] THEN <<>> ELSE <<f>>

Todo ==
  [s \in Senders |->
     IF ~Python(s) THEN <<>>
     ELSE IF call[s].command = "staking" THEN Left(s, "approve") \o Left(s, "stake")
     ELSE Left(s, call[s].command)]

Report ==
  [s \in Senders |->
     IF ~Python(s) THEN "idle"
     ELSE IF call[s].at \in {"ok", "over"} THEN call[s].at ELSE "open"]

Outcome == INSTANCE OrderedCommands
             WITH Users <- Senders,
                  Programs <- {Program[k] : k \in DOMAIN Program},
                  todo <- Todo, report <- Report

CommandsInOrder == Outcome!OutcomeSpec
===============================================================================
