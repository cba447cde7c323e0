-------------------------------- MODULE IpfsClient --------------------------------
(***************************************************************************)
(* IPFSClient.download (ipfs_client.py): a cache with a time to live, then *)
(* the primary gateway and the fallback ones, one after the other.  All    *)
(* jobs of the daemon share one client; its coroutines interleave while    *)
(* gateways are waited for.                                                *)
(*                                                                         *)
(* Time is counted in quarters of a minute and passes freely: the timer of *)
(* fifteen seconds per gateway runs on the event loop, which other jobs    *)
(* may hold.  Gateways are external: they fail, are silent, or answer, and *)
(* nothing compares what they answer with the CID, so it may be an error   *)
(* page sent with status 200.                                              *)
(***************************************************************************)
EXTENDS Naturals, SequencesExt

CONSTANTS
  Downloads,  (* the jobs that download                                    *)
  Cids,       (* what they ask for                                         *)
  Primary,    (* the configured gateway                                    *)
  Fallbacks,  (* the public ones, in their order                           *)
  Ttl         (* the cache's time to live, 4 units                         *)

ASSUME IpfsAssumption ==
  /\ Fallbacks \in Seq(STRING) /\ IsInjective(Fallbacks)
  /\ Primary \in STRING
  /\ Ttl \in Nat

Blobs == {"asked for", "error page"}

VARIABLES
  cache,      (* per CID, the blob and how long ago it was entered         *)
  fetched,    (* history: how long ago a gateway answered with that blob   *)
  dl          (* where each download is                                    *)

ipfsVars == <<cache, fetched, dl>>

(* Clocks stop at Old, past every comparison. *)
Old == Ttl + 1
Older(t) == IF t < Old THEN t + 1 ELSE Old

NoEntry == [blob |-> "none", age |-> 0]

(* Mutant of Gateways: the primary gateway is not left out of the others. *)
GatewaysTwice == <<Primary>> \o Fallbacks

(* No gateway is among the fallback ones twice.                            *)
Others ==
  IF \E i \in DOMAIN Fallbacks : Fallbacks[i] = Primary
  THEN RemoveAt(Fallbacks, CHOOSE i \in DOMAIN Fallbacks : Fallbacks[i] = Primary)
  ELSE Fallbacks

Gateways == <<Primary>> \o Others

Resting == {d \in Downloads : dl[d].at # "trying"}
Trying == Downloads \ Resting

IpfsInit ==
  /\ cache = [c \in Cids |-> NoEntry]
  /\ fetched = [c \in Cids |-> 0]
  /\ dl = [d \in Downloads |->
             [at |-> "idle", cid |-> "none", k |-> 0, tried |-> {}, served |-> 0]]

Cached(c) == cache[c].blob # "none" /\ cache[c].age <= Ttl

(* Mutant of Hit: a hit counts as a fresh entry. *)
HitRefreshing(d, c) ==
  /\ d \in Resting /\ Cached(c)
  /\ dl' = [dl EXCEPT ![d].at = "got", ![d].cid = c, ![d].served = fetched[c]]
  /\ cache' = [cache EXCEPT ![c].age = 0]
  /\ UNCHANGED fetched

Hit(d, c) ==
  /\ d \in Resting /\ Cached(c)
  /\ dl' = [dl EXCEPT ![d].at = "got", ![d].cid = c, ![d].served = fetched[c]]
  /\ UNCHANGED <<cache, fetched>>

(* An entry that is too old goes away when it is asked for. *)
Miss(d, c) ==
  /\ d \in Resting /\ ~Cached(c)
  /\ cache' = [cache EXCEPT ![c] = NoEntry]
  /\ dl' = [dl EXCEPT ![d] = [at |-> "trying", cid |-> c, k |-> 1, tried |-> {},
                              served |-> 0]]
  /\ UNCHANGED fetched

(* The gateway that is tried answers with a status below 400. *)
Served(d, b) ==
  /\ d \in Trying
  /\ cache' = [cache EXCEPT ![dl[d].cid] = [blob |-> b, age |-> 0]]
  /\ fetched' = [fetched EXCEPT ![dl[d].cid] = 0]
  /\ dl' = [dl EXCEPT ![d].at = "got"]

Tried(d) == dl[d].tried \union {Gateways[dl[d].k]}

(* Mutant of GatewayFailed: a bad status ends the download. *)
GatewayFailedFatal(d) ==
  /\ d \in Trying
  /\ dl' = [dl EXCEPT ![d].at = "failed", ![d].tried = Tried(d)]
  /\ UNCHANGED <<cache, fetched>>

(* It times out, cannot be reached, breaks off, or answers with a bad      *)
(* status: the next one, or RuntimeError.                                  *)
GatewayFailed(d) ==
  /\ d \in Trying
  /\ dl' = [dl EXCEPT ![d] =
              IF dl[d].k < Len(Gateways)
              THEN [dl[d] EXCEPT !.k = dl[d].k + 1, !.tried = Tried(d)]
              ELSE [dl[d] EXCEPT !.at = "failed", !.tried = Tried(d)]]
  /\ UNCHANGED <<cache, fetched>>

(* Anything else that is raised, such as UnicodeDecodeError over the text  *)
(* of an error page, is not caught: no other gateway is asked.             *)
GatewayEscapes(d) ==
  /\ d \in Trying
  /\ dl' = [dl EXCEPT ![d].at = "raised", ![d].tried = Tried(d)]
  /\ UNCHANGED <<cache, fetched>>

(* The job is cut off while it downloads. *)
Cancelled(d) ==
  /\ d \in Trying
  /\ dl' = [dl EXCEPT ![d].at = "idle"]
  /\ UNCHANGED <<cache, fetched>>

(* Fifteen seconds pass. *)
FifteenSeconds ==
  /\ cache' = [c \in Cids |-> [cache[c] EXCEPT !.age = Older(@)]]
  /\ fetched' = [c \in Cids |-> Older(fetched[c])]
  /\ UNCHANGED dl

IpfsNext ==
  \/ \E d \in Downloads :
       \/ \E c \in Cids : Hit(d, c) \/ Miss(d, c)
       \/ \E b \in Blobs : Served(d, b)
       \/ GatewayFailed(d)
       \/ GatewayEscapes(d)
       \/ Cancelled(d)
  \/ FifteenSeconds

IpfsSpec == IpfsInit /\ [][IpfsNext]_ipfsVars

(***************************************************************************)
(* Properties.                                                             *)
(***************************************************************************)

IpfsTypeOK ==
  /\ cache \in [Cids -> [blob : Blobs \union {"none"}, age : 0..Old]]
  /\ fetched \in [Cids -> 0..Old]
  /\ dl \in [Downloads ->
               [at : {"idle", "trying", "got", "failed", "raised"},
                cid : Cids \union {"none"}, k : 0..Len(Gateways),
                tried : SUBSET ToSet(Gateways), served : 0..Old]]

(* A wrong answer of a gateway is forgotten: whatever is served from the   *)
(* cache was fetched within the time to live, however often and by however *)
(* many jobs it is asked for in between.                                   *)
WrongBlobForgotten == \A d \in Downloads : dl[d].at = "got" => dl[d].served <= Ttl

(* "RuntimeError: if every gateway fails or times out" (ipfs_client.py     *)
(* 120-121): a download that ends in this error has asked the primary      *)
(* gateway and every fallback one, and none of them twice, though the      *)
(* primary may be among the others.  One that ends in another error has    *)
(* not.                                                                    *)
FailsAfterAllGateways ==
  \A d \in Downloads :
    dl[d].at = "failed" =>
      /\ dl[d].tried = {Primary} \union ToSet(Fallbacks)
      /\ dl[d].k = Cardinality(dl[d].tried)
===============================================================================
