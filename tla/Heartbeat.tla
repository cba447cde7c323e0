-------------------------------- MODULE Heartbeat --------------------------------
(***************************************************************************)
(* heartbeat_loop (node_loop.py): a heartbeat to the ICL every minute, and *)
(* one on chain every Interval by the machine's monotonic clock.           *)
(*                                                                         *)
(* Time is counted in minutes.  The clock of the loop, time.monotonic(),   *)
(* is the machine's uptime; the loop starts with last_onchain = 0.0 and so *)
(* takes the machine's start for its last heartbeat.  What matters is not  *)
(* last_onchain but how long ago it was (`age`).  Clocks stop at Horizon,  *)
(* which is past every comparison the loop makes.                          *)
(***************************************************************************)
EXTENDS Naturals

CONSTANTS
  Interval,   (* ONCHAIN_INTERVAL                                          *)
  OnChainMax, (* bound: minutes update_heartbeat takes: 120 s of waiting   *)
              (* for the receipt, and the requests around it               *)
  IclMax,     (* bound: minutes send_heartbeat takes: it sets no timeout,  *)
              (* so aiohttp's five minutes, for each of two attempts       *)
  HoldMax     (* bound: minutes another coroutine keeps the event loop, by *)
              (* a call of the CoFHE bridge or an inference, each time the *)
              (* heartbeat loop awaits                                     *)

ASSUME HeartbeatAssumption ==
  /\ Interval \in Nat \ {0}
  /\ OnChainMax \in Nat /\ IclMax \in Nat /\ HoldMax \in Nat

(* The longest a pass of the loop can take, its minute of sleep and the    *)
(* holds at its three awaits included.                                     *)
Pass == OnChainMax + IclMax + 1 + 3 * HoldMax

Horizon == Interval + Pass + 1

VARIABLES
  beat,       (* where the loop is                                         *)
  spent,      (* minutes spent in the call that is under way               *)
  held,       (* minutes the event loop was held from the heartbeat loop   *)
              (* at the await it is at                                     *)
  uptime,     (* of the machine                                            *)
  age,        (* now - last_onchain                                        *)
  begun,      (* minutes since the pass read the clock                     *)
  quiet,      (* history: since the ICL last took a heartbeat, or the      *)
              (* daemon was started                                        *)
  disturbed,  (* history: since then a heartbeat failed or was kept waiting *)
              (* by the ICL, or somebody held the event loop               *)
  tried,      (* history: since the last attempt on chain of any daemon on *)
              (* this node, or since it was registered                     *)
  rebooted    (* history: the machine was restarted                        *)

clocks == <<uptime, age, begun, quiet, tried>>
beatVars == <<beat, spent, held, clocks, disturbed, rebooted>>

Later(t, n) == IF t + n > Horizon THEN Horizon ELSE t + n

Pause(n) ==
  /\ uptime' = Later(uptime, n)
  /\ age' = Later(age, n)
  /\ begun' = Later(begun, n)
  /\ quiet' = Later(quiet, n)
  /\ tried' = Later(tried, n)

BeatInit ==
  /\ beat = "check"
  /\ spent = 0 /\ held = 0
  /\ uptime \in 0..Interval
  /\ age = uptime
  /\ begun = 0
  /\ quiet = 0
  /\ tried = 0
  /\ disturbed = FALSE
  /\ rebooted = FALSE

(* The loop goes on to another place, where no time has passed yet. *)
MoveTo(place) ==
  /\ beat' = place
  /\ spent' = 0 /\ held' = 0

(* Mutant of Due: the interval is taken in the wrong unit. *)
DueInSeconds == age >= 60 * Interval

Due == age >= Interval

(* The head of the loop reads the clock. *)
Check ==
  /\ beat = "check"
  /\ MoveTo(IF Due THEN "onchain" ELSE "icl")
  /\ begun' = 0
  /\ tried' = IF Due THEN 0 ELSE tried
  /\ UNCHANGED <<uptime, age, quiet, disturbed, rebooted>>

(* A minute of waiting for the chain, in a thread of its own. *)
OnChainWaits ==
  /\ beat = "onchain"
  /\ spent < OnChainMax
  /\ spent' = spent + 1
  /\ Pause(1)
  /\ UNCHANGED <<beat, held, disturbed, rebooted>>

(* A minute of waiting for the ICL. *)
IclWaits ==
  /\ beat = "icl"
  /\ spent < IclMax
  /\ spent' = spent + 1
  /\ Pause(1)
  /\ disturbed' = TRUE
  /\ UNCHANGED <<beat, held, rebooted>>

(* update_heartbeat returns, whether its transaction was mined, reverted   *)
(* or never sent: last_onchain becomes the time read at the head.          *)
OnChainReturned ==
  /\ beat = "onchain"
  /\ MoveTo("icl")
  /\ age' = begun
  /\ UNCHANGED <<uptime, begun, quiet, tried, disturbed, rebooted>>

(* Mutant of OnChainRaised: the exception ends the pass of the loop. *)
OnChainRaisedSkips ==
  /\ beat = "onchain"
  /\ MoveTo("sleep")
  /\ UNCHANGED <<clocks, disturbed, rebooted>>

(* It raised after all, before its own try: the next pass tries again. *)
OnChainRaised ==
  /\ beat = "onchain"
  /\ MoveTo("icl")
  /\ UNCHANGED <<clocks, disturbed, rebooted>>

(* send_heartbeat returns: the ICL took it some time during the call. *)
IclReturned ==
  /\ beat = "icl"
  /\ MoveTo("sleep")
  /\ \/ quiet' = 0 /\ disturbed' = FALSE
     \/ quiet' \in 1..(spent + held) /\ disturbed' = TRUE
  /\ UNCHANGED <<uptime, age, begun, tried, rebooted>>

(* Mutant of IclRaised: a heartbeat the ICL refused may end the loop. *)
IclRaisedOrBroken ==
  /\ beat = "icl"
  /\ MoveTo("sleep") \/ MoveTo("broken")
  /\ disturbed' = TRUE
  /\ UNCHANGED <<clocks, rebooted>>

(* It raises, and the ICL may not have heard of it: nothing is retried     *)
(* before the next pass.                                                   *)
IclRaised ==
  /\ beat = "icl"
  /\ MoveTo("sleep")
  /\ disturbed' = TRUE
  /\ UNCHANGED <<clocks, rebooted>>

Wakes ==
  /\ beat = "sleep"
  /\ MoveTo("check")
  /\ Pause(1)
  /\ UNCHANGED <<disturbed, rebooted>>

(* A minute in which another coroutine does not give the event loop back. *)
LoopHeld ==
  /\ beat \in {"onchain", "icl", "sleep"}
  /\ held < HoldMax
  /\ held' = held + 1
  /\ Pause(1)
  /\ disturbed' = TRUE
  /\ UNCHANGED <<beat, spent, rebooted>>

(* The daemon ends, in any state, and may be started again.  The time in   *)
(* between is not the loop's and is not counted.                           *)
Stops ==
  /\ beat # "down"
  /\ MoveTo("down")
  /\ UNCHANGED <<clocks, disturbed, rebooted>>

(* Mutant of Starts: the daemon takes its own start for the last beat. *)
StartsAtZero ==
  /\ beat = "down"
  /\ MoveTo("check")
  /\ age' = 0
  /\ quiet' = 0
  /\ disturbed' = FALSE
  /\ UNCHANGED <<uptime, begun, tried, rebooted>>

(* last_onchain = 0.0 *)
Starts ==
  /\ beat = "down"
  /\ MoveTo("check")
  /\ age' = uptime
  /\ quiet' = 0
  /\ disturbed' = FALSE
  /\ UNCHANGED <<uptime, begun, tried, rebooted>>

(* The machine is restarted. *)
Reboots ==
  /\ beat = "down"
  /\ uptime' = 0
  /\ rebooted' = TRUE
  /\ UNCHANGED <<beat, spent, held, age, begun, quiet, tried, disturbed>>

LoopStep ==
  \/ Check
  \/ OnChainWaits \/ OnChainReturned \/ OnChainRaised
  \/ IclWaits \/ IclReturned \/ IclRaised
  \/ Wakes

BeatNext == LoopStep \/ LoopHeld \/ Stops \/ Starts \/ Reboots

BeatSpec == BeatInit /\ [][BeatNext]_beatVars

(* The loop goes on while the daemon runs, for nobody holds the event loop *)
(* for ever; a daemon need not be started, nor stopped.                    *)
BeatFairness == WF_beatVars(LoopStep)

(***************************************************************************)
(* Properties.                                                             *)
(***************************************************************************)

BeatTypeOK ==
  /\ beat \in {"check", "onchain", "icl", "sleep", "down"}
  /\ spent \in 0..(OnChainMax + IclMax)
  /\ held \in 0..HoldMax
  /\ disturbed \in BOOLEAN
  /\ uptime \in 0..Horizon /\ age \in 0..Horizon /\ begun \in 0..Horizon
  /\ quiet \in 0..Horizon /\ tried \in 0..Horizon
  /\ rebooted \in BOOLEAN

(* As long as the ICL takes heartbeats at once and nobody holds the event  *)
(* loop, the chain alone does not keep the ICL waiting for more than a     *)
(* minute's sleep and one attempt, neither when the attempt waits for its  *)
(* receipt nor when it fails or raises: below the five minutes README.md   *)
(* 324 allows.  Without those conditions there is no bound: send_heartbeat *)
(* has no timeout of its own, and a heartbeat that failed waits for the    *)
(* next pass (node_loop.py 148-168, icl_client.py 73-98).                  *)
IclGraceKept == beat # "down" /\ ~disturbed => quiet <= OnChainMax + 1

(* docs/slashing.md 86: a node with "no heartbeat" for more than 120       *)
(* seconds is excluded from jobs; node_loop.py 140-141: the ICL heartbeat  *)
(* "keeps the node eligible for job dispatch".                             *)
EligibleWhileRunning == beat # "down" /\ ~disturbed => quiet <= 2

(* The contract's grace is Interval (docstring, node_loop.py 138-140).     *)
(* Restarts of the daemon do not stretch the time between two attempts on  *)
(* chain, for last_onchain = 0.0 can only make the next one come sooner;   *)
(* neither do attempts that raise.                                         *)
OnChainInTime == ~rebooted => tried <= Interval + Pass

(* README.md 33: heartbeats "every 10 days on-chain".                      *)
OnChainEveryTenDays == tried <= Interval + Pass
===============================================================================
