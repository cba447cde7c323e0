----------------------------- MODULE ServicesProofs -----------------------------
(***************************************************************************)
(* The components of MCServices together: each of them goes through its    *)
(* own specification, whichever moves, so what is proved of one of them    *)
(* holds of all.                                                           *)
(***************************************************************************)
EXTENDS MCServices, ChainAccountProofs, ClientProofs, RoundsProofs, CofheBridgeProofs

(* A step of the whole is a step of one component, and the others stutter. *)
LEMMA OneMoves ==
  ASSUME [Next]_vars
  PROVE  /\ [AccountNext]_accountVars /\ [BeatNext]_beatVars
         /\ [RequestNext]_requestVars /\ [IpfsNext]_ipfsVars
         /\ [RegistryNext]_registryVars /\ [PermitNext]_permitVars
         /\ [RoundsNext]_roundsVars /\ [BridgeNext]_bridgeVars
<1>1. CASE UNCHANGED vars
  BY <1>1 DEF vars
<1>2. CASE Next
  BY <1>2 DEF Next
<1>3. QED
  BY <1>1, <1>2

(* The components implement their specifications side by side, whatever    *)
(* the constants of each are.                                              *)
THEOREM SideBySide ==
  Spec => /\ AccountSpec /\ BeatSpec /\ RequestSpec /\ IpfsSpec
          /\ RegistrySpec /\ PermitSpec /\ RoundsSpec /\ BridgeSpec
<1>1. Init => /\ AccountInit /\ BeatInit /\ RequestInit /\ IpfsInit
              /\ RegistryInit /\ PermitInit /\ RoundsInit /\ BridgeInit
  BY DEF Init
<1>2. QED
  BY <1>1, OneMoves, PTL
     DEF Spec, AccountSpec, BeatSpec, RequestSpec, IpfsSpec, RegistrySpec, PermitSpec,
         RoundsSpec, BridgeSpec

(* All variables of all components keep their types. *)
THEOREM ServicesTypeCorrect == Spec => []ServicesTypeOK
<1>1. RequestInv => RequestTypeOK
  BY DEF RequestInv
<1>2. PermitSpec => []PermitTypeOK
  <2>1. PermitInv => PermitTypeOK
    BY DEF PermitInv
  <2>2. QED
    BY <2>1, PermitInductive, PTL
<1>3. QED
  BY <1>1, <1>2, SideBySide, AccountTypeCorrect, BeatTypeCorrect, RequestInductive,
     IpfsTypeCorrect, RegistryTypeCorrect, RoundsTypeCorrect, BridgeTypeCorrect, PTL DEF ServicesTypeOK

(* What the components promise one by one holds of all of them at once:    *)
(* nonces (registry.py 386-391), heartbeats (node_loop.py 129-168),        *)
(* signatures (icl_client.py 73-98), gateways (ipfs_client.py 51-179),     *)
(* permits (crypto.py 171-250), backends (models/registry.py 29-79),       *)
(* verifiers that give up (job_handler.py 351-372) and the bridge's        *)
(* answers (crypto.py 402-429).                                            *)
THEOREM PromisesTogether ==
  Spec => /\ [](OwnTurn /\ IclGraceKept /\ OnChainInTime /\ FreshSignature)
          /\ [](WrongBlobForgotten /\ FailsAfterAllGateways)
          /\ [](RoutesAsRegistered /\ AlwaysAnswered)
          /\ [](PermitHonoured /\ SkippedOnlyLate)
          /\ [](AnswerLagsByStrays /\ NoPileUp)
          /\ CommandsInOrder
<1>1. Spec => [](OwnTurn /\ IclGraceKept /\ OnChainInTime /\ FreshSignature)
  BY SideBySide, TurnOwned, GraceKept, InTime, SignatureFresh, PTL
<1>2. Spec => [](WrongBlobForgotten /\ FailsAfterAllGateways)
  BY SideBySide, WrongForgotten, AllGatewaysAsked, PTL
<1>3. Spec => [](RoutesAsRegistered /\ AlwaysAnswered)
  BY SideBySide, RoutedAsRegistered, SomebodyAnswers, PTL
<1>4. Spec => [](PermitHonoured /\ SkippedOnlyLate)
  BY SideBySide, PermitGood, SkippedInTime, PTL
<1>5. Spec => CommandsInOrder
  BY SideBySide, CommandsKeepOrder, PTL
<1>6. Spec => [](AnswerLagsByStrays /\ NoPileUp)
  BY SideBySide, AnswersInStep, NothingPilesUp, PTL
<1>7. QED
  BY <1>1, <1>2, <1>3, <1>4, <1>5, <1>6
===============================================================================
