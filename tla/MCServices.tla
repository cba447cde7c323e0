------------------------------- MODULE MCServices -------------------------------
(***************************************************************************)
(* The components that share no state with one another, checked in one     *)
(* run.  `focus` says which of them moves; the others stay as they began.  *)
(* Nothing is lost by that: a property of one component depends on no      *)
(* step of another, and the states to explore are the sum of theirs        *)
(* instead of the product.                                                 *)
(***************************************************************************)
EXTENDS ChainAccount, Heartbeat, IclRequests, IpfsClient, MCRegistry, CofhePermit,
        Rounds, CofheBridge

VARIABLE focus

vars == <<focus, accountVars, beatVars, requestVars, ipfsVars, registryVars, permitVars,
          roundsVars, bridgeVars>>

MCAmount == [s \in Senders |-> IF s = "first" THEN 1 ELSE 2]

(* The primary gateway is also one of the public ones. *)
MCFallbacks == <<"pinata", "cloudflare">>

(* Each node leads one job and verifies the other. *)
MCLeader == [j \in Jobs |-> IF j = "a" THEN "n1" ELSE "n2"]

Init ==
  /\ focus \in {"account", "heartbeat", "request", "ipfs", "registry", "permit",
               "rounds", "bridge"}
  /\ AccountInit /\ BeatInit /\ RequestInit /\ IpfsInit /\ RegistryInit /\ PermitInit
  /\ RoundsInit /\ BridgeInit
  (* What only another component looks at begins in one way. *)
  /\ focus # "account" => stake.staked = 0 /\ stake.unbonding = 0
  /\ focus # "heartbeat" => uptime = 0
  /\ focus # "rounds" => room = 1
  /\ focus # "registry" => up = {"mock"} \union {b.id : b \in Custom}

Next ==
  \/ /\ focus = "account"
     /\ AccountNext
     /\ UNCHANGED <<focus, beatVars, requestVars, ipfsVars, registryVars,
                    permitVars, roundsVars, bridgeVars>>
  \/ /\ focus = "heartbeat"
     /\ BeatNext
     /\ UNCHANGED <<focus, accountVars, requestVars, ipfsVars, registryVars,
                    permitVars, roundsVars, bridgeVars>>
  \/ /\ focus = "request"
     /\ RequestNext
     /\ UNCHANGED <<focus, accountVars, beatVars, ipfsVars, registryVars,
                    permitVars, roundsVars, bridgeVars>>
  \/ /\ focus = "ipfs"
     /\ IpfsNext
     /\ UNCHANGED <<focus, accountVars, beatVars, requestVars, registryVars,
                    permitVars, roundsVars, bridgeVars>>
  \/ /\ focus = "registry"
     /\ RegistryNext
     /\ UNCHANGED <<focus, accountVars, beatVars, requestVars, ipfsVars,
                    permitVars, roundsVars, bridgeVars>>
  \/ /\ focus = "permit"
     /\ PermitNext
     /\ UNCHANGED <<focus, accountVars, beatVars, requestVars, ipfsVars,
                    registryVars, roundsVars, bridgeVars>>
  \/ /\ focus = "rounds"
     /\ RoundsNext
     /\ UNCHANGED <<focus, accountVars, beatVars, requestVars, ipfsVars,
                    registryVars, permitVars, bridgeVars>>
  \/ /\ focus = "bridge"
     /\ BridgeNext
     /\ UNCHANGED <<focus, accountVars, beatVars, requestVars, ipfsVars,
                    registryVars, permitVars, roundsVars>>

(* AccountFairness, BeatFairness, RoundsFairness and BridgeFairness, where *)
(* their component moves.                                                  *)
Spec ==
  /\ Init
  /\ [][Next]_vars
  /\ \A s \in Senders : WF_accountVars(focus = "account" /\ GoesOn(s))
  /\ WF_beatVars(focus = "heartbeat" /\ LoopStep)
  /\ WF_roundsVars(focus = "rounds" /\ RoundsProgress)
  /\ WF_bridgeVars(focus = "bridge" /\ BridgeStep)
  /\ WF_bridgeVars(focus = "bridge" /\ (ReadLine \/ ReadEof))
  /\ \A j \in Callers : WF_bridgeVars(focus = "bridge" /\ JobOver(j))

(* Every variable keeps its type. *)
ServicesTypeOK ==
  /\ AccountTypeOK /\ BeatTypeOK /\ RequestTypeOK
  /\ IpfsTypeOK /\ RegistryTypeOK /\ PermitTypeOK /\ RoundsTypeOK
  /\ BridgeTypeOK

(* A running daemon goes on sending both kinds of heartbeat                *)
(* (node_loop.py 148-168), whatever becomes of each of them.               *)
HeartbeatsGoOn ==
  \A kind \in {"icl", "onchain"} :
    []<>(focus = "heartbeat" => beat \in {kind, "down"})
===============================================================================
