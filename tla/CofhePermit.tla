-------------------------------- MODULE CofhePermit --------------------------------
(***************************************************************************)
(* The sealing permit CoFHERealClient (crypto.py) keeps between two calls  *)
(* of decrypt: it is used again until an hour before its end and then      *)
(* replaced, together with the key that unseals the answers.               *)
(*                                                                         *)
(* The client is called on the event loop, one call at a time.  External:  *)
(* the CoFHE service, which refuses an expired permit and seals its answer *)
(* for the permit's key.                                                   *)
(***************************************************************************)
EXTENDS Naturals

CONSTANTS
  Life,       (* seven days, in half hours of a coarse clock               *)
  Margin,     (* 3600 seconds                                              *)
  CallMax     (* bound: how long a request may take; its time-out is 30 s  *)

ASSUME PermitAssumption ==
  /\ Life \in Nat /\ Margin \in Nat /\ CallMax \in Nat
  /\ CallMax <= Margin /\ Margin < Life

VARIABLES
  left,       (* time the cached permit is valid for, 0 if there is none   *)
  key,        (* the cached permit's key                                   *)
  decrypt,    (* where the call is                                         *)
  used,       (* the key of the permit the call was made with              *)
  lasting     (* how long the request has taken                            *)

permitVars == <<left, key, decrypt, used, lasting>>

PermitInit ==
  /\ left = 0
  /\ key = FALSE
  /\ decrypt = "idle"
  /\ used = FALSE
  /\ lasting = 0

(* Mutant of GoodEnough: a permit is used until it expires. *)
GoodEnoughBarely == left > 0

GoodEnough == left > Margin

(* Keys alternate: a new one differs from the one before. *)
EnsurePermit ==
  /\ left' = IF GoodEnough THEN left ELSE Life
  /\ key' = IF GoodEnough THEN key ELSE ~key

Ask ==
  /\ decrypt = "idle"
  /\ EnsurePermit
  /\ decrypt' = "asked"
  /\ used' = key'
  /\ lasting' = 0

(* The service looks at the permit and seals the value for its key. *)
Seal ==
  /\ decrypt = "asked"
  /\ decrypt' = IF left > 0 THEN "sealed" ELSE "expired"
  /\ UNCHANGED <<left, key, used, lasting>>

(* The answer is unsealed, or the call fails. *)
Over ==
  /\ decrypt \in {"asked", "sealed"}
  /\ decrypt' = "idle"
  /\ UNCHANGED <<left, key, used, lasting>>

HalfHour ==
  /\ decrypt = "idle" \/ lasting < CallMax
  /\ left' = IF left > 0 THEN left - 1 ELSE 0
  /\ lasting' = IF decrypt = "idle" THEN 0 ELSE lasting + 1
  /\ UNCHANGED <<key, decrypt, used>>

PermitNext == Ask \/ Seal \/ Over \/ HalfHour

PermitSpec == PermitInit /\ [][PermitNext]_permitVars

(***************************************************************************)
(* Properties.                                                             *)
(***************************************************************************)

PermitTypeOK ==
  /\ left \in 0..Life /\ lasting \in 0..CallMax
  /\ key \in BOOLEAN /\ used \in BOOLEAN
  /\ decrypt \in {"idle", "asked", "sealed", "expired"}

(* The service never sees an expired permit, and what it seals is sealed   *)
(* for the key the client still has when the answer comes.                 *)
PermitHonoured ==
  /\ decrypt # "expired"
  /\ decrypt \in {"asked", "sealed"} => used = key
===============================================================================
