----------------------------- MODULE JobHandler -------------------------------
(***************************************************************************)
(* job_handler.py for one job: the leader and the verifiers of its quorum, *)
(* each running `handle_job` on its own node, possibly more than once (a   *)
(* job is listed again after a failed claim or a restart).                 *)
(*                                                                         *)
(* A handler runs without interleaving between two awaits, so one action   *)
(* does everything up to the next await: after the download the prompt is  *)
(* decrypted, the model run and the output encrypted; after the upload the *)
(* commitment is computed, the output key encrypted and stored on chain.   *)
(* Any await may be the last: the five-minute timeout or a shutdown cuts   *)
(* the handler off there, with its request perhaps already on its way.     *)
(*                                                                         *)
(* External, modelled from how src/ uses them: the ICL (takes a request    *)
(* late, twice or never, and keeps the first result or a later one), IPFS, *)
(* the PromptKeyStore contract, and the chain that mines its transactions. *)
(*                                                                         *)
(* The bridge's answer is taken for the answer to the request it was asked *)
(* with.  crypto.py 417 matches the two by position only: after a stray    *)
(* line on stdout it may be another's, which AnswerLagsByStrays of         *)
(* CofheBridge bounds and this module leaves out.                          *)
(***************************************************************************)
EXTENDS Integers, FiniteSets

CONSTANTS
  Leader,       (* the node with role "leader"                             *)
  Verifiers,    (* the nodes with another role                             *)
  Texts,        (* inference outputs up to whitespace                      *)
  Layouts,      (* the ways an output can be spaced                        *)
  NoOutput,     (* no output computed                                      *)
  MaxAttempts   (* bound: runs of handle_job per node                      *)

ASSUME HandlerAssumption ==
  /\ Leader \notin Verifiers
  /\ MaxAttempts \in Nat \ {0}

VARIABLES
  pc,        (* the await each node's handler is at                        *)
  attempt,   (* how often a node has run the job                           *)
  output,    (* `output_text` of a running handler                         *)
  blob,      (* by CID, the encrypted outputs on IPFS                      *)
  sent,      (* submit_result and submit_verification requests issued      *)
  keyStore,  (* the output key the PromptKeyStore holds for the job        *)
  unmined,   (* runs whose storing transaction waits, its receipt unheard  *)
  displaced, (* history: runs whose storing transaction another one of the *)
             (* account has replaced, or may have gone ahead of            *)
  result,    (* the leader result the ICL serves                           *)
  verdicts   (* the verification the ICL holds of each verifier            *)

vars == <<pc, attempt, output, blob, sent, keyStore, unmined, displaced,
          result, verdicts>>
iclVars == <<result, verdicts>>
chainVars == <<keyStore, unmined, displaced>>

Nodes == {Leader} \union Verifiers

Outputs == [text : Texts, layout : Layouts]

(* Every run of the leader encrypts with a fresh key and a fresh nonce, so *)
(* key and CID are named by the run; 0 stands for no CID and no key.       *)
Runs == 1..MaxAttempts
None == 0

(* What str(None) makes of a missing outputCid. *)
NoneText == MaxAttempts + 1

PCs == {"idle", "claiming", "fetching", "uploading", "submitting",
        "polling", "verifying"}

(***************************************************************************)
(* commitment.py: the hash binds the CID and the output up to whitespace.  *)
(***************************************************************************)

(* Mutant of Normalize: whitespace is hashed as it comes. *)
NormalizeNothing(o) == o

Normalize(o) == o.text

Commitment(cid, o) == [cid |-> cid, text |-> Normalize(o)]

(***************************************************************************)
(* Messages.                                                               *)
(***************************************************************************)

ResultMsg(cid, o, key, tx) ==
  [type |-> "result", cid |-> cid, commitment |-> Commitment(cid, o),
   key |-> key, tx |-> tx]

(* `own` is the verifier's output: no part of the request, kept to state   *)
(* what the commitment should say.                                         *)
VerdictMsg(n, cid, o, verdict) ==
  [type |-> "verdict", node |-> n, cid |-> cid,
   commitment |-> Commitment(cid, o), verdict |-> verdict, own |-> o]

Results  == {m \in sent : m.type = "result"}
Verdicts == {m \in sent : m.type = "verdict"}

NoBlob   == [key |-> None, output |-> NoOutput]
NoResult == [type |-> "none"]

TypeOK ==
  /\ pc \in [Nodes -> PCs]
  /\ attempt \in [Nodes -> 0..MaxAttempts]
  /\ output \in [Nodes -> Outputs \union {NoOutput}]
  /\ blob \in [Runs -> [key : Runs, output : Outputs] \union {NoBlob}]
  /\ \A m \in Results : m.cid \in Runs /\ m.key \in Runs \union {None}
  /\ \A m \in Verdicts : m.node \in Verifiers /\ m.cid \in Runs
  /\ keyStore \in Runs \union {None}
  /\ unmined \subseteq Runs
  /\ displaced \subseteq Runs
  /\ result \in Results \union {NoResult}
  /\ verdicts \in [Verifiers -> Verdicts \union {NoResult}]

Init ==
  /\ pc = [n \in Nodes |-> "idle"]
  /\ attempt = [n \in Nodes |-> 0]
  /\ output = [n \in Nodes |-> NoOutput]
  /\ blob = [r \in Runs |-> NoBlob]
  /\ sent = {}
  /\ keyStore = None
  /\ unmined = {}
  /\ displaced = {}
  /\ result = NoResult
  /\ verdicts = [v \in Verifiers |-> NoResult]

(* The handler of n returns: nothing it held locally is kept. *)
Return(n) ==
  /\ pc' = [pc EXCEPT ![n] = "idle"]
  /\ output' = [output EXCEPT ![n] = NoOutput]

GoTo(n, await) == pc' = [pc EXCEPT ![n] = await]

(***************************************************************************)
(* handle_job and _common_steps.                                           *)
(***************************************************************************)

Start(n) ==
  /\ pc[n] = "idle"
  /\ attempt[n] < MaxAttempts
  /\ attempt' = [attempt EXCEPT ![n] = @ + 1]
  /\ GoTo(n, "claiming")
  /\ UNCHANGED <<output, blob, sent, chainVars, iclVars>>

(* The claim answers.  A failed claim and one without both key handles end *)
(* alike: the handles are read from this answer and nowhere else.          *)
Claimed(n, handles) ==
  /\ pc[n] = "claiming"
  /\ IF handles THEN GoTo(n, "fetching") /\ UNCHANGED output
                ELSE Return(n)
  /\ UNCHANGED <<attempt, blob, sent, chainVars, iclVars>>

(* Prompt key and prompt are there: the prompt is decrypted and the model  *)
(* run.  The leader starts its upload, a verifier its polling.             *)
Inferred(n, o) ==
  /\ pc[n] = "fetching"
  /\ output' = [output EXCEPT ![n] = o]
  /\ GoTo(n, IF n = Leader THEN "uploading" ELSE "polling")
  /\ UNCHANGED <<attempt, blob, sent, chainVars, iclVars>>

(* Key decryption, download, AES decryption or inference fails. *)
InferenceFailed(n) ==
  /\ pc[n] = "fetching"
  /\ Return(n)
  /\ UNCHANGED <<attempt, blob, sent, chainVars, iclVars>>

(***************************************************************************)
(* _do_leader_job from the upload on.                                      *)
(***************************************************************************)

(* The blob of the leader's current run is on IPFS. *)
Stored == [blob EXCEPT ![attempt[Leader]] =
             [key |-> attempt[Leader], output |-> output[Leader]]]

(* Mutant of UploadFailed: the result is submitted nevertheless. *)
UploadFailureIgnored ==
  /\ pc[Leader] = "uploading"
  /\ sent' = sent \union
       {ResultMsg(attempt[Leader], output[Leader], attempt[Leader], FALSE)}
  /\ GoTo(Leader, "submitting")
  /\ UNCHANGED <<attempt, output, blob, chainVars, iclVars>>

(* The upload fails, and the blob may have been pinned all the same. *)
UploadFailed ==
  /\ pc[Leader] = "uploading"
  /\ blob' \in {blob, Stored}
  /\ Return(Leader)
  /\ UNCHANGED <<attempt, sent, chainVars, iclVars>>

(* What becomes of the output key, from its encryption to the receipt of   *)
(* the transaction that stores it.  Nonces are given in order, so a        *)
(* receipt is heard only once no earlier transaction of the leader waits,  *)
(* unless it was displaced; a receipt may also be that of a transaction    *)
(* that took the place of the one sent, which the bridge does not notice   *)
(* (cofhe_bridge.mjs 217-236).                                             *)
KeyOutcomes ==
  {"not encrypted",  (* no key goes with the result                          *)
   "not sent",       (* contract not configured, or the transaction refused  *)
                     (* or reverted                                          *)
   "unheard",        (* sent, and its receipt did not come in time           *)
   "stored",         (* mined, and its hash reported                         *)
   "replaced"}       (* another took its nonce, and its hash is reported     *)

(* The bridge answers with the transaction's hash. *)
Reported(outcome) == outcome \in {"stored", "replaced"}

KeyGoesOut(outcome) ==
  /\ Reported(outcome) => unmined \subseteq displaced
  /\ keyStore' = IF outcome = "stored" THEN attempt[Leader] ELSE keyStore
  /\ unmined' = IF outcome = "unheard" THEN unmined \union {attempt[Leader]}
                                       ELSE unmined
  /\ displaced' = IF outcome = "replaced" THEN displaced \union {attempt[Leader]}
                                          ELSE displaced

(* The result of the leader's run, with `key` and with the hash if `tx`. *)
ResultGoesOut(key, tx) ==
  /\ pc[Leader] = "uploading"
  /\ blob' = Stored
  /\ sent' = sent \union {ResultMsg(attempt[Leader], output[Leader], key, tx)}
  /\ GoTo(Leader, "submitting")
  /\ UNCHANGED <<attempt, output, iclVars>>

(* Mutant of Uploaded: the key of the previous run is encrypted. *)
UploadedWithOldKey(outcome) ==
  LET run == attempt[Leader]
      key == IF run > 1 THEN run - 1 ELSE run
  IN /\ KeyGoesOut(outcome)
     /\ ResultGoesOut(IF outcome = "not encrypted" THEN None ELSE key,
                      Reported(outcome))

(* Mutant of Uploaded: the hash is reported without waiting for a receipt. *)
UploadedUnawaited(outcome) ==
  /\ KeyGoesOut(outcome)
  /\ ResultGoesOut(IF outcome = "not encrypted" THEN None ELSE attempt[Leader],
                   Reported(outcome) \/ outcome = "unheard")

(* The upload answers with a CID.  The output key is encrypted and, if the *)
(* contract is configured and both halves came back, stored on chain; what *)
(* fails of this is only logged, and a transaction whose receipt was not   *)
(* heard may still be mined.  The result is submitted in any case.         *)
Uploaded(outcome) ==
  /\ KeyGoesOut(outcome)
  /\ ResultGoesOut(IF outcome = "not encrypted" THEN None ELSE attempt[Leader],
                   Reported(outcome))

(***************************************************************************)
(* _do_verifier_job from the polling on.                                   *)
(***************************************************************************)

(* What get_job_status may give as outputCid. *)
ServedCids == IF result = NoResult THEN {None, NoneText} ELSE {result.cid}

(* Mutant of UsableCid: the text "None" is taken for a CID. *)
AnyTextIsUsable(cid) == cid # None

(* `if cid and cid != "None"`. *)
UsableCid(cid) == cid \notin {None, NoneText}

(* A status answer names the leader's CID: the commitment is computed over *)
(* it and the verifier's own output, and CONFIRM is submitted.  Any other  *)
(* answer, or none, leaves the loop where it is.                           *)
LeaderSeen(n) ==
  /\ pc[n] = "polling"
  /\ \E cid \in ServedCids :
       /\ UsableCid(cid)
       /\ sent' = sent \union {VerdictMsg(n, cid, output[n], "CONFIRM")}
  /\ GoTo(n, "verifying")
  /\ UNCHANGED <<attempt, output, blob, chainVars, iclVars>>

(* 120 seconds without a CID: the verifier skips the job. *)
PollingTimedOut(n) ==
  /\ pc[n] = "polling"
  /\ Return(n)
  /\ UNCHANGED <<attempt, blob, sent, chainVars, iclVars>>

(***************************************************************************)
(* Both roles.                                                             *)
(***************************************************************************)

(* The submission answers, or fails for good: either is only logged. *)
Answered(n) ==
  /\ pc[n] \in {"submitting", "verifying"}
  /\ Return(n)
  /\ UNCHANGED <<attempt, blob, sent, chainVars, iclVars>>

(* wait_for's five minutes are over, or the daemon shuts down: the handler *)
(* is cancelled at its await.                                              *)
CutOff(n) ==
  /\ pc[n] # "idle"
  /\ Return(n)
  /\ UNCHANGED <<attempt, blob, sent, chainVars, iclVars>>

HandlerStep(n) ==
  \/ Start(n)
  \/ \E handles \in BOOLEAN : Claimed(n, handles)
  \/ \E o \in Outputs : Inferred(n, o)
  \/ InferenceFailed(n)
  \/ Answered(n)
  \/ CutOff(n)

LeaderStep ==
  \/ UploadFailed
  \/ \E outcome \in KeyOutcomes : Uploaded(outcome)

VerifierStep(n) == LeaderSeen(n) \/ PollingTimedOut(n)

(***************************************************************************)
(* The ICL.                                                                *)
(***************************************************************************)

(* A result request is handled, now or long after it was sent. *)
ResultAccepted ==
  /\ result' \in Results
  /\ UNCHANGED <<pc, attempt, output, blob, sent, chainVars, verdicts>>

VerdictAccepted(v) ==
  /\ \E m \in Verdicts : m.node = v /\ verdicts' = [verdicts EXCEPT ![v] = m]
  /\ UNCHANGED <<pc, attempt, output, blob, sent, chainVars, result>>

(***************************************************************************)
(* The chain.                                                              *)
(***************************************************************************)

(* A storing transaction is mined long after the bridge gave it up, those  *)
(* not displaced in the order of their nonces.                             *)
KeyMined(r) ==
  /\ r \in unmined
  /\ r \notin displaced => \A q \in unmined \ displaced : r <= q
  /\ keyStore' = r
  /\ unmined' = unmined \ {r}
  /\ UNCHANGED <<pc, attempt, output, blob, sent, displaced, iclVars>>

(* It is dropped, replaced or reverted: a later one can take its nonce and *)
(* go ahead of those behind it.                                            *)
KeyLost(r) ==
  /\ r \in unmined
  /\ unmined' = unmined \ {r}
  /\ displaced' = displaced \union {q \in unmined : q > r}
  /\ UNCHANGED <<pc, attempt, output, blob, sent, keyStore, iclVars>>

(* Another transaction of the account, sent before r's, is dropped. *)
NonceFreed(r) ==
  /\ r \in unmined
  /\ displaced' = displaced \union {q \in unmined : q >= r}
  /\ UNCHANGED <<pc, attempt, output, blob, sent, keyStore, unmined, iclVars>>

(* The bound is used up: no run is left to make. *)
RunsOver ==
  /\ \A n \in Nodes : pc[n] = "idle" /\ attempt[n] = MaxAttempts
  /\ UNCHANGED vars

Next ==
  \/ \E n \in Nodes : HandlerStep(n)
  \/ LeaderStep
  \/ \E v \in Verifiers : VerifierStep(v) \/ VerdictAccepted(v)
  \/ ResultAccepted
  \/ \E r \in Runs : KeyMined(r) \/ KeyLost(r) \/ NonceFreed(r)
  \/ RunsOver

Spec == Init /\ [][Next]_vars

(***************************************************************************)
(* Properties.                                                             *)
(***************************************************************************)

(* Whatever result reaches the ICL, late or from an abandoned run, its CID *)
(* was on IPFS when it was sent: a failed upload ends the leader's run     *)
(* (job_handler.py 202-211).                                               *)
ResultIsDownloadable == \A m \in Results : blob[m.cid] # NoBlob

(* The output key a result carries is the one its own blob was encrypted   *)
(* with, however many runs the leader made: the user can read the output.  *)
KeyOpensBlob ==
  \A m \in Results : m.key # None => blob[m.cid].key = m.key

(* A verifier commits only to a CID a leader result has named: not to a    *)
(* missing one, and not to the text "None" (job_handler.py 362-364).       *)
VerifierFollowsLeader ==
  \A v \in Verdicts : \E r \in Results : r.cid = v.cid

(* A verifier that worked on the blob of a result arrives at the result's  *)
(* commitment exactly when its output is the blob's up to whitespace: a    *)
(* disagreement of commitments is one of outputs, whatever runs, retries   *)
(* and abandoned requests the result went through (commitment.py 7-34).    *)
HonestRoundAgrees ==
  \A v \in Verdicts, r \in Results :
    v.cid = r.cid =>
      (v.commitment = r.commitment <=> v.own.text = blob[r.cid].output.text)

(* A key that a result reports as stored stays on chain until a later      *)
(* run's takes its place, whichever earlier transactions, given up by the  *)
(* bridge, are mined afterwards: the bridge waits for the receipt before   *)
(* it answers (cofhe_bridge.mjs 231-236), so nothing is left in front.     *)
(* Only a transaction displaced in the account's queue breaks this.  And   *)
(* whatever key is on chain, a result that was sent carries it, though its *)
(* own run was told that the storage had failed (job_handler.py 245-257).  *)
StoredKeyStays ==
  /\ \A m \in Results :
       m.tx => \/ keyStore >= m.key
               \/ {keyStore, m.key} \cap displaced # {}
  /\ keyStore # None => \E m \in Results : m.key = keyStore

(* README.md 601-602: a verifier "confirms/rejects".  A CONFIRM the ICL    *)
(* holds for the result it serves is one whose commitment agrees with it.  *)
ConfirmMeansMatch ==
  \A v \in Verifiers :
    /\ result # NoResult
    /\ verdicts[v] # NoResult
    /\ verdicts[v].verdict = "CONFIRM"
    /\ verdicts[v].cid = result.cid
    => verdicts[v].commitment = result.commitment
===============================================================================
