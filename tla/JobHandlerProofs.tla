--------------------------- MODULE JobHandlerProofs ---------------------------
(***************************************************************************)
(* For every quorum, every set of outputs and every number of runs: the    *)
(* results and verdicts a job's handlers send fit the blobs on IPFS and    *)
(* the key on chain.                                                       *)
(*                                                                         *)
(* The argument is about the runs of the leader.  A run names a CID and a  *)
(* key of its own, and until it leaves its upload no result, no key on     *)
(* chain, no transaction and nobody else refers to it; what it stores and  *)
(* sends then is never touched again, because the next run has another     *)
(* number.  A key reported as stored is safe from the transactions that    *)
(* still wait, for each that keeps its place is of a later run.            *)
(***************************************************************************)
EXTENDS JobHandler, TLAPS

(***************************************************************************)
(* The invariant.                                                          *)
(***************************************************************************)

(* The leader's run has not come out of its upload. *)
Underway == pc[Leader] \in {"claiming", "fetching", "uploading"}

(* Where the output is used next, there is one. *)
HasOutput ==
  \A n \in Nodes : pc[n] \in {"uploading", "polling"} => output[n] \in Outputs

(* Nothing refers to a run that is still to come out of its upload ... *)
RunIsNew ==
  Underway =>
    /\ attempt[Leader] \in Runs
    /\ attempt[Leader] \notin unmined
    /\ \A m \in Results : m.cid # attempt[Leader]

(* ... and nothing to a run the leader has not made. *)
RunsMade ==
  /\ \A r \in unmined : r <= attempt[Leader]
  /\ \A m \in Results : m.cid <= attempt[Leader]

(* A result describes the blob it names, and carries that blob's key or    *)
(* none.                                                                   *)
Describes(m) ==
  /\ \E o \in Outputs : /\ blob[m.cid] = [key |-> m.cid, output |-> o]
                        /\ m.commitment = Commitment(m.cid, o)
  /\ m.key \in {m.cid, None}
  /\ m.tx => m.key # None

ResultsDescribe == \A m \in Results : Describes(m)

(* A verdict is about a CID that a result names and the verifier's output. *)
VerdictsDescribe ==
  \A v \in Verdicts : /\ v.commitment = Commitment(v.cid, v.own)
                      /\ \E r \in Results : r.cid = v.cid

(* A transaction that waits stores the key of a result that was sent, and  *)
(* if it keeps its place, of a later run than every key reported as stored *)
(* that kept its own.                                                      *)
WaitingIsLater ==
  /\ \A r \in unmined : \E m \in Results : m.key = r
  /\ \A r \in unmined \ displaced, m \in Results :
       m.tx /\ m.key \notin displaced => m.key < r

HandlerInv ==
  /\ TypeOK
  /\ HasOutput
  /\ RunIsNew
  /\ RunsMade
  /\ ResultsDescribe
  /\ VerdictsDescribe
  /\ WaitingIsLater
  /\ StoredKeyStays

(***************************************************************************)
(* Steps that only move handlers, without a message or a store.            *)
(***************************************************************************)

(* A step that leaves every run, message and store alone keeps the         *)
(* invariant, if it takes no handler to a use of an output it has not and  *)
(* not the leader back before its upload.                                  *)
LEMMA LocalStep ==
  ASSUME HandlerInv,
         UNCHANGED <<attempt, blob, sent, chainVars, iclVars>>,
         pc' \in [Nodes -> PCs],
         output' \in [Nodes -> Outputs \union {NoOutput}],
         HasOutput',
         Underway' => Underway
  PROVE  HandlerInv'
<1>1. Results' = Results /\ Verdicts' = Verdicts
  BY DEF Results, Verdicts
<1>2. TypeOK'
  BY <1>1 DEF HandlerInv, TypeOK, chainVars, iclVars
<1>3. RunIsNew' /\ RunsMade'
  BY <1>1 DEF HandlerInv, RunIsNew, RunsMade, chainVars
<1>4. ResultsDescribe' /\ VerdictsDescribe'
  BY <1>1 DEF HandlerInv, ResultsDescribe, VerdictsDescribe, Describes
<1>5. WaitingIsLater' /\ StoredKeyStays'
  BY <1>1 DEF HandlerInv, WaitingIsLater, StoredKeyStays, chainVars
<1> QED BY <1>2, <1>3, <1>4, <1>5 DEF HandlerInv

(* A handler may return from wherever it is. *)
LEMMA ReturnKeeps ==
  ASSUME HandlerInv, NEW n \in Nodes, Return(n),
         UNCHANGED <<attempt, blob, sent, chainVars, iclVars>>
  PROVE  HandlerInv'
<1> USE DEF HandlerInv, TypeOK, Return
<1>1. pc' \in [Nodes -> PCs]
  BY DEF PCs
<1>2. output' \in [Nodes -> Outputs \union {NoOutput}]
  OBVIOUS
<1>3. HasOutput'
  BY DEF HasOutput
<1>4. Underway' => Underway
  BY DEF Underway, Nodes
<1> HIDE DEF HandlerInv, TypeOK, Return
<1> QED BY <1>1, <1>2, <1>3, <1>4, LocalStep

(* A new run of the leader is the first of its number. *)
LEMMA StartKeeps ==
  ASSUME HandlerInv, NEW n \in Nodes, Start(n)
  PROVE  HandlerInv'
<1> USE HandlerAssumption DEF HandlerInv, TypeOK, Start, GoTo, chainVars, iclVars
<1>1. Results' = Results /\ Verdicts' = Verdicts
  BY DEF Results, Verdicts
<1>2. attempt'[Leader] >= attempt[Leader] /\ attempt[Leader] \in Nat
  BY DEF Nodes
<1>3. TypeOK'
  BY <1>1 DEF PCs
<1>4. HasOutput'
  BY DEF HasOutput
<1>5. RunIsNew'
  <2>1. CASE n = Leader
    <3>1. attempt'[Leader] = attempt[Leader] + 1 /\ attempt'[Leader] \in Runs
      BY <2>1 DEF Nodes, Runs
    <3>2. unmined \subseteq Nat /\ \A m \in Results : m.cid \in Nat
      BY DEF Runs, None
    <3> QED BY <1>1, <1>2, <3>1, <3>2 DEF RunIsNew, RunsMade
  <2>2. CASE n # Leader
    BY <1>1, <2>2 DEF RunIsNew, Underway, Nodes
  <2> QED BY <2>1, <2>2
<1>6. RunsMade'
  BY <1>1, <1>2 DEF RunsMade, Runs, None
<1>7. ResultsDescribe' /\ VerdictsDescribe'
  BY <1>1 DEF ResultsDescribe, VerdictsDescribe, Describes
<1>8. WaitingIsLater' /\ StoredKeyStays'
  BY <1>1 DEF WaitingIsLater, StoredKeyStays
<1> HIDE DEF HandlerInv, TypeOK, Start, GoTo, chainVars, iclVars
<1> QED BY <1>3, <1>4, <1>5, <1>6, <1>7, <1>8 DEF HandlerInv

(* The claim sends a handler on to its downloads, or home. *)
LEMMA ClaimedKeeps ==
  ASSUME HandlerInv, NEW n \in Nodes, NEW handles \in BOOLEAN,
         Claimed(n, handles)
  PROVE  HandlerInv'
<1>1. CASE handles
  <2> USE <1>1 DEF HandlerInv, TypeOK, Claimed, GoTo
  <2>1. pc' \in [Nodes -> PCs] /\ output' \in [Nodes -> Outputs \union {NoOutput}]
    BY DEF PCs
  <2>2. HasOutput'
    BY DEF HasOutput
  <2>3. Underway' => Underway
    BY DEF Underway, Nodes
  <2>4. UNCHANGED <<attempt, blob, sent, chainVars, iclVars>>
    OBVIOUS
  <2> HIDE DEF HandlerInv, TypeOK, Claimed, GoTo
  <2> QED BY <2>1, <2>2, <2>3, <2>4, LocalStep
<1>2. CASE ~handles
  BY <1>2, ReturnKeeps DEF Claimed
<1> QED BY <1>1, <1>2

(* The model's answer is the output the next action uses. *)
LEMMA InferredKeeps ==
  ASSUME HandlerInv, NEW n \in Nodes, NEW o \in Outputs, Inferred(n, o)
  PROVE  HandlerInv'
<1> USE DEF HandlerInv, TypeOK, Inferred, GoTo
<1>1. pc' \in [Nodes -> PCs] /\ output' \in [Nodes -> Outputs \union {NoOutput}]
  BY DEF PCs
<1>2. HasOutput'
  BY DEF HasOutput
<1>3. Underway' => Underway
  BY DEF Underway, Nodes
<1>4. UNCHANGED <<attempt, blob, sent, chainVars, iclVars>>
  OBVIOUS
<1> HIDE DEF HandlerInv, TypeOK, Inferred, GoTo
<1> QED BY <1>1, <1>2, <1>3, <1>4, LocalStep

(***************************************************************************)
(* The upload.                                                             *)
(***************************************************************************)

(* The blob stored is the leader's output under the key of its run.        *)
LEMMA StoredTyped ==
  ASSUME HandlerInv, pc[Leader] = "uploading"
  PROVE  /\ Stored \in [Runs -> [key : Runs, output : Outputs] \union {NoBlob}]
         /\ Stored[attempt[Leader]] =
              [key |-> attempt[Leader], output |-> output[Leader]]
         /\ \A r \in Runs : r # attempt[Leader] => Stored[r] = blob[r]
         /\ output[Leader] \in Outputs
<1>1. output[Leader] \in Outputs /\ attempt[Leader] \in Runs
  BY DEF HandlerInv, HasOutput, RunIsNew, Underway, Nodes
<1>2. blob \in [Runs -> [key : Runs, output : Outputs] \union {NoBlob}]
  BY DEF HandlerInv, TypeOK
<1> QED BY <1>1, <1>2 DEF Stored

(* Storing the blob of the run in its upload touches no result's blob. *)
LEMMA BlobsKept ==
  ASSUME HandlerInv, pc[Leader] = "uploading", blob' \in {blob, Stored}
  PROVE  \A m \in Results : blob'[m.cid] = blob[m.cid]
<1>1. \A m \in Results : m.cid \in Runs /\ m.cid # attempt[Leader]
  BY DEF HandlerInv, TypeOK, RunIsNew, Underway
<1> QED BY <1>1, StoredTyped

(* A failed upload may leave a blob, to which nothing refers. *)
LEMMA UploadFailedKeeps ==
  ASSUME HandlerInv, UploadFailed
  PROVE  HandlerInv'
<1> USE DEF UploadFailed, Return, chainVars, iclVars
<1>1. Results' = Results /\ Verdicts' = Verdicts
  BY DEF Results, Verdicts
<1>2. blob' \in [Runs -> [key : Runs, output : Outputs] \union {NoBlob}]
  BY StoredTyped DEF HandlerInv, TypeOK
<1>3. TypeOK'
  BY <1>1, <1>2 DEF HandlerInv, TypeOK, PCs
<1>4. HasOutput'
  BY DEF HandlerInv, TypeOK, HasOutput
<1>5. RunIsNew'
  BY DEF HandlerInv, TypeOK, RunIsNew, Underway, Nodes
<1>6. RunsMade' /\ WaitingIsLater' /\ StoredKeyStays'
  BY <1>1 DEF HandlerInv, RunsMade, WaitingIsLater, StoredKeyStays
<1>7. ResultsDescribe' /\ VerdictsDescribe'
  BY <1>1, BlobsKept DEF HandlerInv, ResultsDescribe, VerdictsDescribe, Describes
<1> QED BY <1>3, <1>4, <1>5, <1>6, <1>7 DEF HandlerInv

(* After its upload the leader sends the first result of its run. *)
LEMMA UploadedKeeps ==
  ASSUME HandlerInv, NEW outcome \in KeyOutcomes, Uploaded(outcome)
  PROVE  HandlerInv'
<1> DEFINE run == attempt[Leader]
           key == IF outcome = "not encrypted" THEN None ELSE run
           new == ResultMsg(run, output[Leader], key, Reported(outcome))
<1>1. /\ pc[Leader] = "uploading"
      /\ blob' = Stored
      /\ Reported(outcome) => unmined \subseteq displaced
      /\ keyStore' = IF outcome = "stored" THEN run ELSE keyStore
      /\ unmined' = IF outcome = "unheard" THEN unmined \union {run} ELSE unmined
      /\ displaced' = IF outcome = "replaced" THEN displaced \union {run}
                                              ELSE displaced
      /\ sent' = sent \union {new}
      /\ pc' = [pc EXCEPT ![Leader] = "submitting"]
      /\ UNCHANGED <<attempt, output, result, verdicts>>
  BY DEF Uploaded, KeyGoesOut, ResultGoesOut, Reported, GoTo, iclVars
<1>2. /\ new.type = "result" /\ new.cid = run /\ new.key = key
      /\ new.tx = Reported(outcome)
      /\ new.commitment = Commitment(run, output[Leader])
  BY DEF ResultMsg
<1>3. Results' = Results \union {new} /\ Verdicts' = Verdicts
  BY <1>1, <1>2 DEF Results, Verdicts
<1>4. /\ run \in Runs /\ run \notin unmined
      /\ \A m \in Results : m.cid # run
  BY <1>1 DEF HandlerInv, RunIsNew, Underway
<1>5. /\ key \in {run, None} /\ run # None
      /\ outcome \in {"unheard", "stored", "replaced"} => key = run
      /\ Reported(outcome) => outcome \in {"stored", "replaced"}
  <2>1. run # None
    BY <1>4 DEF Runs, None
  <2>2. key \in {run, None}
    OBVIOUS
  <2>3. outcome \in {"unheard", "stored", "replaced"} => key = run
    OBVIOUS
  <2>4. Reported(outcome) => outcome \in {"stored", "replaced"}
    BY DEF Reported
  <2> QED BY <2>1, <2>2, <2>3, <2>4
<1>6. Stored \in [Runs -> [key : Runs, output : Outputs] \union {NoBlob}]
  BY <1>1, StoredTyped
<1> HIDE DEF key, new
<1>7. TypeOK'
  <2>1. pc' \in [Nodes -> PCs]
    BY <1>1 DEF HandlerInv, TypeOK, PCs
  <2>2. /\ \A m \in Results' : m.cid \in Runs /\ m.key \in Runs \union {None}
        /\ result' \in Results' \union {NoResult}
    BY <1>1, <1>2, <1>3, <1>4, <1>5 DEF HandlerInv, TypeOK
  <2>3. /\ keyStore' \in Runs \union {None}
        /\ unmined' \subseteq Runs /\ displaced' \subseteq Runs
    BY <1>1, <1>4 DEF HandlerInv, TypeOK
  <2> QED BY <1>1, <1>3, <1>6, <2>1, <2>2, <2>3 DEF HandlerInv, TypeOK
<1>8. HasOutput'
  BY <1>1 DEF HandlerInv, TypeOK, HasOutput
<1>9. RunIsNew'
  BY <1>1 DEF HandlerInv, TypeOK, RunIsNew, Underway, Nodes
<1>10. RunsMade'
  BY <1>1, <1>2, <1>3, <1>4 DEF HandlerInv, RunsMade, Runs
<1>11. ResultsDescribe'
  <2>1. \A m \in Results : Describes(m)'
    BY <1>1, BlobsKept DEF HandlerInv, ResultsDescribe, Describes
  <2>2. \A m \in {new} : Describes(m)'
    <3>1. blob'[run] = [key |-> run, output |-> output[Leader]]
      BY <1>1, StoredTyped
    <3>2. output[Leader] \in Outputs
      BY <1>1, StoredTyped
    <3>3. \A m \in {new} : m.tx => m.key # None
      BY <1>1, <1>2, <1>5
    <3> QED BY <1>2, <1>5, <3>1, <3>2, <3>3 DEF Describes, Commitment, Normalize
  <2> QED BY <1>3, <2>1, <2>2 DEF ResultsDescribe
<1>12. VerdictsDescribe'
  BY <1>3 DEF HandlerInv, VerdictsDescribe
<1>13. \A m \in Results : m.key < run /\ m.key \in Int
  <2>1. \A m \in Results : m.key \in {m.cid, None} /\ m.cid \in Runs
                           /\ m.cid <= run /\ m.cid # run
    BY <1>4 DEF HandlerInv, TypeOK, ResultsDescribe, Describes, RunsMade
  <2> QED BY <1>4, <2>1, HandlerAssumption DEF Runs, None
<1>14. WaitingIsLater'
  <2>1. \A r \in unmined' : \E m \in Results' : m.key = r
    BY <1>1, <1>2, <1>3, <1>5 DEF HandlerInv, WaitingIsLater
  <2>2. ASSUME NEW r \in unmined' \ displaced', NEW m \in Results',
               m.tx, m.key \notin displaced'
        PROVE  m.key < r
    <3>1. CASE m \in Results
      BY <1>1, <1>13, <2>2, <3>1 DEF HandlerInv, WaitingIsLater
    <3>2. CASE m = new
      BY <1>1, <1>2, <1>5, <2>2, <3>2
    <3> QED BY <1>3, <3>1, <3>2
  <2> QED BY <2>1, <2>2 DEF WaitingIsLater
<1>15. StoredKeyStays'
  <2>1. ASSUME NEW m \in Results', m.tx
        PROVE  keyStore' >= m.key \/ {keyStore', m.key} \cap displaced' # {}
    <3>1. CASE m \in Results
      <4>1. CASE keyStore' = run
        BY <1>4, <1>13, <3>1, <4>1 DEF Runs
      <4>2. CASE keyStore' = keyStore
        <5>1. keyStore >= m.key \/ {keyStore, m.key} \cap displaced # {}
          BY <2>1, <3>1 DEF HandlerInv, StoredKeyStays
        <5>2. displaced \subseteq displaced'
          BY <1>1
        <5> QED BY <4>2, <5>1, <5>2
      <4> QED BY <1>1, <4>1, <4>2
    <3>2. CASE m = new
      BY <1>1, <1>2, <1>4, <1>5, <2>1, <3>2 DEF Runs
    <3> QED BY <1>3, <3>1, <3>2
  <2>2. keyStore' # None => \E m \in Results' : m.key = keyStore'
    BY <1>1, <1>2, <1>3, <1>5 DEF HandlerInv, StoredKeyStays
  <2> QED BY <2>1, <2>2 DEF StoredKeyStays
<1> QED BY <1>7, <1>8, <1>9, <1>10, <1>11, <1>12, <1>14, <1>15 DEF HandlerInv

(***************************************************************************)
(* The chain.                                                              *)
(***************************************************************************)

(* What waits is mined, lost or displaced: no message and no blob moves. *)
LEMMA ChainKeeps ==
  ASSUME HandlerInv, NEW r \in Runs, KeyMined(r) \/ KeyLost(r) \/ NonceFreed(r)
  PROVE  HandlerInv'
<1>1. /\ UNCHANGED <<pc, attempt, output, blob, sent, result, verdicts>>
      /\ r \in unmined
      /\ unmined' \subseteq unmined
      /\ displaced \subseteq displaced' /\ displaced' \subseteq displaced \union unmined
      /\ keyStore' \in {keyStore, r}
  BY DEF KeyMined, KeyLost, NonceFreed, iclVars
<1>2. Results' = Results /\ Verdicts' = Verdicts
  BY <1>1 DEF Results, Verdicts
<1>3. TypeOK'
  BY <1>1, <1>2 DEF HandlerInv, TypeOK
<1>4. HasOutput' /\ RunIsNew' /\ RunsMade'
  BY <1>1, <1>2 DEF HandlerInv, HasOutput, RunIsNew, Underway, RunsMade
<1>5. ResultsDescribe' /\ VerdictsDescribe'
  BY <1>1, <1>2 DEF HandlerInv, ResultsDescribe, VerdictsDescribe, Describes
<1>6. WaitingIsLater'
  BY <1>1, <1>2 DEF HandlerInv, WaitingIsLater
<1>7. StoredKeyStays'
  <2>1. CASE keyStore' = keyStore
    BY <1>1, <1>2, <2>1 DEF HandlerInv, StoredKeyStays
  <2>2. CASE keyStore' = r
    <3>1. \A m \in Results : m.key \in Int
      BY HandlerAssumption DEF HandlerInv, TypeOK, Runs, None
    <3>2. r \in Int
      BY HandlerAssumption DEF Runs
    <3> QED BY <1>1, <1>2, <2>2, <3>1, <3>2
            DEF HandlerInv, WaitingIsLater, StoredKeyStays
  <2> QED BY <1>1, <2>1, <2>2
<1> QED BY <1>3, <1>4, <1>5, <1>6, <1>7 DEF HandlerInv

(***************************************************************************)
(* The verifier and the ICL.                                               *)
(***************************************************************************)

(* The CID a verifier commits to is the one of the result it was served. *)
LEMMA LeaderSeenKeeps ==
  ASSUME HandlerInv, NEW n \in Verifiers, LeaderSeen(n)
  PROVE  HandlerInv'
<1>1. PICK cid \in ServedCids :
        /\ UsableCid(cid)
        /\ sent' = sent \union {VerdictMsg(n, cid, output[n], "CONFIRM")}
  BY DEF LeaderSeen
<1> DEFINE new == VerdictMsg(n, cid, output[n], "CONFIRM")
<1>2. /\ new.type = "verdict" /\ new.node = n /\ new.cid = cid
      /\ new.own = output[n] /\ new.commitment = Commitment(cid, output[n])
  BY DEF VerdictMsg
<1> HIDE DEF new
<1>3. Results' = Results /\ Verdicts' = Verdicts \union {new}
  BY <1>1, <1>2 DEF Results, Verdicts, new
<1>4. result \in Results /\ cid = result.cid /\ cid \in Runs
  BY <1>1 DEF HandlerInv, TypeOK, ServedCids, UsableCid
<1>5. /\ UNCHANGED <<attempt, output, blob, keyStore, unmined, displaced,
                       result, verdicts>>
      /\ pc' = [pc EXCEPT ![n] = "verifying"]
  BY DEF LeaderSeen, GoTo, chainVars, iclVars
<1>6. TypeOK'
  BY <1>2, <1>3, <1>4, <1>5 DEF HandlerInv, TypeOK, PCs
<1>7. HasOutput'
  BY <1>5 DEF HandlerInv, TypeOK, HasOutput
<1>8. RunIsNew' /\ RunsMade' /\ WaitingIsLater' /\ StoredKeyStays'
  BY <1>3, <1>5, HandlerAssumption
     DEF HandlerInv, TypeOK, RunIsNew, Underway, RunsMade, WaitingIsLater,
         StoredKeyStays, Nodes
<1>9. ResultsDescribe'
  BY <1>3, <1>5 DEF HandlerInv, ResultsDescribe, Describes
<1>10. VerdictsDescribe'
  BY <1>2, <1>3, <1>4 DEF HandlerInv, VerdictsDescribe
<1> QED BY <1>6, <1>7, <1>8, <1>9, <1>10 DEF HandlerInv

(* The ICL takes a message that was sent, however late. *)
LEMMA IclKeeps ==
  ASSUME HandlerInv,
         ResultAccepted \/ \E v \in Verifiers : VerdictAccepted(v)
  PROVE  HandlerInv'
<1>1. UNCHANGED <<pc, attempt, output, blob, sent, keyStore, unmined, displaced>>
  BY DEF ResultAccepted, VerdictAccepted, chainVars
<1>2. Results' = Results /\ Verdicts' = Verdicts
  BY <1>1 DEF Results, Verdicts
<1>3. result' \in Results \union {NoResult}
  BY DEF HandlerInv, TypeOK, ResultAccepted, VerdictAccepted
<1>4. verdicts' \in [Verifiers -> Verdicts \union {NoResult}]
  BY DEF HandlerInv, TypeOK, ResultAccepted, VerdictAccepted
<1>5. TypeOK'
  BY <1>1, <1>2, <1>3, <1>4 DEF HandlerInv, TypeOK
<1>6. HasOutput' /\ RunIsNew' /\ RunsMade' /\ WaitingIsLater' /\ StoredKeyStays'
  BY <1>1, <1>2
     DEF HandlerInv, HasOutput, RunIsNew, Underway, RunsMade, WaitingIsLater,
         StoredKeyStays
<1>7. ResultsDescribe' /\ VerdictsDescribe'
  BY <1>1, <1>2 DEF HandlerInv, ResultsDescribe, VerdictsDescribe, Describes
<1> QED BY <1>5, <1>6, <1>7 DEF HandlerInv

(***************************************************************************)
(* Theorems.                                                               *)
(***************************************************************************)

(* Before the job is assigned there is nothing to describe. *)
LEMMA HandlerInitInv == Init => HandlerInv
<1> SUFFICES ASSUME Init PROVE HandlerInv
  OBVIOUS
<1>1. Results = {} /\ Verdicts = {}
  BY DEF Init, Results, Verdicts
<1>2. TypeOK
  BY <1>1, HandlerAssumption DEF Init, TypeOK, PCs
<1> QED BY <1>1, <1>2
    DEF Init, HandlerInv, HasOutput, RunIsNew, Underway, RunsMade,
        ResultsDescribe, VerdictsDescribe, WaitingIsLater, StoredKeyStays, Nodes,
        None

(* Every action keeps the invariant. *)
LEMMA HandlerStepKeeps == HandlerInv /\ [Next]_vars => HandlerInv'
<1> SUFFICES ASSUME HandlerInv, [Next]_vars PROVE HandlerInv'
  OBVIOUS
<1>1. ASSUME NEW n \in Nodes, HandlerStep(n) PROVE HandlerInv'
  <2>1. CASE Start(n)
    BY <2>1, StartKeeps
  <2>2. CASE \E handles \in BOOLEAN : Claimed(n, handles)
    BY <2>2, ClaimedKeeps
  <2>3. CASE \E o \in Outputs : Inferred(n, o)
    BY <2>3, InferredKeeps
  <2>4. CASE InferenceFailed(n)
    BY <2>4, ReturnKeeps DEF InferenceFailed
  <2>5. CASE Answered(n)
    BY <2>5, ReturnKeeps DEF Answered
  <2>6. CASE CutOff(n)
    BY <2>6, ReturnKeeps DEF CutOff
  <2> QED BY <1>1, <2>1, <2>2, <2>3, <2>4, <2>5, <2>6 DEF HandlerStep
<1>2. CASE LeaderStep
  BY <1>2, UploadFailedKeeps, UploadedKeeps DEF LeaderStep
<1>3. ASSUME NEW v \in Verifiers, VerifierStep(v) PROVE HandlerInv'
  <2>1. CASE LeaderSeen(v)
    BY <2>1, LeaderSeenKeeps
  <2>2. CASE PollingTimedOut(v)
    BY <2>2, ReturnKeeps DEF PollingTimedOut, Nodes
  <2> QED BY <1>3, <2>1, <2>2 DEF VerifierStep
<1>4. CASE ResultAccepted \/ \E v \in Verifiers : VerdictAccepted(v)
  BY <1>4, IclKeeps
<1>5. ASSUME NEW r \in Runs, KeyMined(r) \/ KeyLost(r) \/ NonceFreed(r)
      PROVE  HandlerInv'
  BY <1>5, ChainKeeps
<1>6. CASE UNCHANGED vars
  BY <1>6
     DEF vars, iclVars, HandlerInv, TypeOK, HasOutput, RunIsNew, Underway,
         RunsMade, ResultsDescribe, VerdictsDescribe, Describes,
         WaitingIsLater, StoredKeyStays, Results, Verdicts
<1> QED BY <1>1, <1>2, <1>3, <1>4, <1>5, <1>6 DEF Next, RunsOver

(* The invariant holds throughout. *)
THEOREM HandlerInductive == Spec => []HandlerInv
BY HandlerInitInv, HandlerStepKeeps, PTL DEF Spec

(* The handlers' state is well formed (TypeOK). *)
THEOREM HandlerTypeCorrect == Spec => []TypeOK
<1>1. HandlerInv => TypeOK
  BY DEF HandlerInv
<1> QED BY <1>1, HandlerInductive, PTL

(* The blob of a result exists, and was encrypted with the key of the run  *)
(* that uploaded it.                                                       *)
LEMMA ResultBlob ==
  ASSUME HandlerInv, NEW m \in Results
  PROVE  /\ blob[m.cid] # NoBlob /\ blob[m.cid].key = m.cid
         /\ Describes(m)
<1>1. Describes(m)
  BY DEF HandlerInv, ResultsDescribe
<1>2. m.cid # None /\ NoBlob.key = None
  BY DEF HandlerInv, TypeOK, Runs, None, NoBlob
<1>3. PICK o \in Outputs : blob[m.cid] = [key |-> m.cid, output |-> o]
  BY <1>1 DEF Describes
<1>4. blob[m.cid].key = m.cid
  BY <1>3
<1> QED BY <1>1, <1>2, <1>4

(* The CID of a result is one whose upload answered (job_handler.py        *)
(* 198-233).                                                               *)
THEOREM ResultsDownloadable == Spec => []ResultIsDownloadable
<1>1. ASSUME HandlerInv PROVE ResultIsDownloadable
  BY <1>1, ResultBlob DEF ResultIsDownloadable
<1> QED BY <1>1, HandlerInductive, PTL

(* The key that goes with a result opens its blob: `_do_leader_job` makes  *)
(* both in the run that submits them (job_handler.py 186-262).             *)
THEOREM KeysOpen == Spec => []KeyOpensBlob
<1>1. ASSUME HandlerInv PROVE KeyOpensBlob
  BY <1>1, ResultBlob DEF KeyOpensBlob, Describes
<1> QED BY <1>1, HandlerInductive, PTL

(* A verifier commits to no CID but a leader's (job_handler.py 362-364). *)
THEOREM VerdictsFollow == Spec => []VerifierFollowsLeader
<1>1. HandlerInv => VerifierFollowsLeader
  BY DEF HandlerInv, VerdictsDescribe, VerifierFollowsLeader
<1> QED BY <1>1, HandlerInductive, PTL

(* Commitments over one CID agree exactly when the outputs do, whatever    *)
(* runs the result and the verdict come from (commitment.py 7-34).         *)
THEOREM CommitmentsAgree == Spec => []HonestRoundAgrees
<1>1. ASSUME HandlerInv PROVE HonestRoundAgrees
  <2> SUFFICES ASSUME NEW v \in Verdicts, NEW r \in Results, v.cid = r.cid
               PROVE  v.commitment = r.commitment
                        <=> v.own.text = blob[r.cid].output.text
    BY DEF HonestRoundAgrees
  <2>1. v.commitment = Commitment(v.cid, v.own)
    BY <1>1 DEF HandlerInv, VerdictsDescribe
  <2>2. PICK o \in Outputs : /\ blob[r.cid] = [key |-> r.cid, output |-> o]
                             /\ r.commitment = Commitment(r.cid, o)
    BY <1>1 DEF HandlerInv, ResultsDescribe, Describes
  <2>3. blob[r.cid].output = o
    BY <2>2
  <2> QED BY <2>1, <2>2, <2>3 DEF Commitment, Normalize
<1> QED BY <1>1, HandlerInductive, PTL

(* A key reported as stored outlives whatever is mined late, unless one of *)
(* the account's transactions was displaced (job_handler.py 245-257,       *)
(* cofhe_bridge.mjs 217-236).                                              *)
THEOREM StoredKeysStay == Spec => []StoredKeyStays
<1>1. HandlerInv => StoredKeyStays
  BY DEF HandlerInv
<1> QED BY <1>1, HandlerInductive, PTL
===============================================================================
