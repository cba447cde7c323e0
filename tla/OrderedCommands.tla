---------------------------- MODULE OrderedCommands ----------------------------
(***************************************************************************)
(* What a command that sends transactions promises its user, without       *)
(* nonces, receipts or time-outs: its transactions take effect in their    *)
(* order, each once at most, and it reports success only after all of them *)
(* did.  A command that reported nothing or a failure promises nothing: a  *)
(* transaction of it may still take effect.                                *)
(***************************************************************************)
EXTENDS Sequences

CONSTANTS
  Users,      (* who runs a command                                        *)
  Programs    (* the commands there are, each the sequence of its calls    *)

VARIABLES
  todo,       (* the calls of each user's command without effect so far    *)
  report      (* "idle", "open", "ok" or "over"                            *)

outcomeVars == <<todo, report>>

OutcomeInit ==
  /\ todo = [u \in Users |-> <<>>]
  /\ report = [u \in Users |-> "idle"]

(* A command may find nothing to do and end at once. *)
Begin(u) ==
  /\ report[u] = "idle"
  /\ \E p \in Programs : todo' = [todo EXCEPT ![u] = p]
  /\ \E r \in {"open", "over"} : report' = [report EXCEPT ![u] = r]

TakeEffect(u) ==
  /\ todo[u] # <<>>
  /\ todo' = [todo EXCEPT ![u] = Tail(todo[u])]
  /\ UNCHANGED report

Succeed(u) ==
  /\ report[u] = "open"
  /\ todo[u] = <<>>
  /\ report' = [report EXCEPT ![u] = "ok"]
  /\ UNCHANGED todo

GiveUp(u) ==
  /\ report[u] = "open"
  /\ report' = [report EXCEPT ![u] = "over"]
  /\ UNCHANGED todo

OutcomeNext == \E u \in Users : Begin(u) \/ TakeEffect(u) \/ Succeed(u) \/ GiveUp(u)

OutcomeSpec == OutcomeInit /\ [][OutcomeNext]_outcomeVars
===============================================================================
