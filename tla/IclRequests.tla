------------------------------- MODULE IclRequests -------------------------------
(***************************************************************************)
(* One call of ICLClient._request (icl_client.py), with its retry: what    *)
(* JobHandler, Heartbeat and the poller take for a request "that may be    *)
(* delivered late, twice or never".                                        *)
(*                                                                         *)
(* Every attempt signs the body with the time of day.  An attempt whose    *)
(* connection breaks may have reached the ICL all the same, or reach it    *)
(* later.  External: the network and the ICL.                              *)
(***************************************************************************)
EXTENDS Naturals

CONSTANTS
  Retries,    (* the parameter `retries`, 1 in every call                  *)
  AttemptMax  (* bound: seconds (of a coarse clock) an attempt may take    *)

ASSUME RequestAssumption == Retries \in Nat /\ AttemptMax \in Nat \ {0}

VARIABLES
  request,    (* "new", "sending", "pausing", or how the call ended        *)
  attempt,    (* the loop's counter                                        *)
  since,      (* seconds since the attempt, or the pause, began            *)
  stamp,      (* seconds since the headers in use were signed              *)
  flying,     (* attempts the ICL may still receive                        *)
  taken       (* attempts the ICL has received                             *)

requestVars == <<request, attempt, since, stamp, flying, taken>>

RequestInit ==
  /\ request = "new"
  /\ attempt = 0
  /\ since = 0
  /\ stamp = 0
  /\ flying = {}
  /\ taken = {}

(* Mutant of Signed: the headers are made once, before the loop. *)
SignedOnce == IF attempt = 0 THEN 0 ELSE stamp

(* _auth_headers is called for every attempt. *)
Signed == 0

Attempt ==
  /\ request = "new" \/ (request = "pausing" /\ since = 1)
  /\ request' = "sending"
  /\ since' = 0
  /\ stamp' = Signed
  /\ flying' = flying \union {attempt}
  /\ UNCHANGED <<attempt, taken>>

(* The ICL receives an attempt, now or when its client has given it up. *)
Take(a) ==
  /\ a \in flying
  /\ flying' = flying \ {a}
  /\ taken' = taken \union {a}
  /\ UNCHANGED <<request, attempt, since, stamp>>

(* A status of 400 and more ends the call at once, 401 and 404 with        *)
(* ICLNodeUnknownError.                                                    *)
Responded ==
  /\ request = "sending"
  /\ attempt \in taken
  /\ request' \in {"returned", "unknown", "refused"}
  /\ UNCHANGED <<attempt, since, stamp, flying, taken>>

(* Mutant of MayRetry: one attempt too many. *)
MayRetryOnceMore == attempt <= Retries

MayRetry == attempt < Retries

(* A broken connection or a server that is silent for too long: one second *)
(* of pause and another attempt, or ICLClientError after the last one.     *)
Disconnected ==
  /\ request = "sending"
  /\ request' = IF MayRetry THEN "pausing" ELSE "failed"
  /\ attempt' = IF MayRetry THEN attempt + 1 ELSE attempt
  /\ since' = 0
  /\ UNCHANGED <<stamp, flying, taken>>

(* Whatever else goes wrong (the total time-out, an answer that is no      *)
(* JSON) is not caught here.                                               *)
Escaped ==
  /\ request = "sending"
  /\ request' = "raised"
  /\ UNCHANGED <<attempt, since, stamp, flying, taken>>

(* A second passes: an attempt has AttemptMax of them, the pause one. *)
Second ==
  /\ \/ request = "sending" /\ since < AttemptMax
     \/ request = "pausing" /\ since < 1
  /\ since' = since + 1
  /\ stamp' = stamp + 1
  /\ UNCHANGED <<request, attempt, flying, taken>>

RequestNext ==
  \/ Attempt
  \/ \E a \in flying : Take(a)
  \/ Responded
  \/ Disconnected
  \/ Escaped
  \/ Second

RequestSpec == RequestInit /\ [][RequestNext]_requestVars

(***************************************************************************)
(* Properties.                                                             *)
(***************************************************************************)

RequestTypeOK ==
  /\ request \in {"new", "sending", "pausing", "returned", "unknown", "refused",
                  "failed", "raised"}
  /\ attempt \in 0..Retries
  /\ since \in 0..AttemptMax
  /\ stamp \in Nat
  /\ flying \subseteq 0..Retries /\ taken \subseteq 0..Retries
  /\ flying \intersect taken = {}

(* The signature of an attempt is no older than the attempt: a retry after *)
(* a long silence is not refused for the age of its timestamp.             *)
FreshSignature == request = "sending" => stamp <= AttemptMax
===============================================================================
