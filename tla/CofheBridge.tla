----------------------------- MODULE CofheBridge ------------------------------
(***************************************************************************)
(* CoFHEBridgeClient of crypto.py and the Node.js process it keeps, with   *)
(* the three pipes between them, as the job tasks of the daemon's event    *)
(* loop use it.                                                            *)
(*                                                                         *)
(* A call writes one line and then reads the answer character by character *)
(* without giving the event loop back: from the write to the end of the    *)
(* read nothing else of the daemon runs, timers and signals included.      *)
(* Nobody reads the bridge's stderr.                                       *)
(***************************************************************************)
EXTENDS Integers, Sequences, FiniteSets

CONSTANTS
  Callers,     (* job tasks that use the bridge                            *)
  Free,        (* the event loop is in no bridge call                      *)
  StderrRoom,  (* stack traces the stderr pipe holds (64 KiB on Linux)     *)
  MaxCalls,    (* bound: bridge calls made                                 *)
  MaxStrays    (* bound: lines on stdout that answer nothing               *)

ASSUME BridgeAssumption ==
  /\ Free \notin Callers
  /\ StderrRoom \in Nat
  /\ MaxCalls \in Nat
  /\ MaxStrays \in Nat

VARIABLES
  loop,    (* the job whose call holds the event loop, or Free             *)
  job,     (* the job tasks, cut off by their timer or by themselves       *)
  counter, (* `_req_counter`                                               *)
  proc,    (* `_process`: dying has closed its pipes, poll() still None    *)
  bridge,  (* what cofhe_bridge.mjs is doing                               *)
  serving, (* the request it is doing it for                               *)
  stdin,   (* requests it has not read                                     *)
  stdout,  (* lines the client has not read                                *)
  stderr,  (* stack traces nobody reads                                    *)
  strays,  (* stray lines printed since the start                          *)
  missed,  (* stray lines read as answers since this process was spawned   *)
  last     (* the last call that got an answer, and whose answer it was    *)

clientVars == <<loop, counter, missed, last>>
processVars == <<bridge, serving, stdin, stdout, stderr, strays>>
bridgeVars == <<job, proc, clientVars, processVars>>

Stray == 0     (* a line that is no answer: blank, or not JSON             *)
Ids == 1..MaxCalls

BridgeTypeOK ==
  /\ loop \in Callers \union {Free}
  /\ job \in [Callers -> {"running", "over"}]
  /\ counter \in 0..MaxCalls
  /\ proc \in {"none", "alive", "dying", "dead"}
  /\ bridge \in {"idle", "working", "reporting"}
  /\ serving \in 0..MaxCalls
  /\ stdin \in Seq(Ids)
  /\ stdout \in Seq(Ids \union {Stray})
  /\ stderr \in 0..StderrRoom
  /\ strays \in 0..MaxStrays
  /\ missed \in Nat
  /\ last \in [call : 0..MaxCalls, answer : 0..MaxCalls]

BridgeInit ==
  /\ loop = Free
  /\ job = [j \in Callers |-> "running"]
  /\ counter = 0
  /\ proc = "none"
  /\ bridge = "idle"
  /\ serving = 0
  /\ stdin = <<>>
  /\ stdout = <<>>
  /\ stderr = 0
  /\ strays = 0
  /\ missed = 0
  /\ last = [call |-> 0, answer |-> 0]

(***************************************************************************)
(* CoFHEBridgeClient: _ensure_process, _run_bridge_json and                *)
(* _read_response_line.                                                    *)
(***************************************************************************)

(* No process, or a dead one: spawn, with pipes of its own. *)
CallSpawning(j) ==
  /\ proc \in {"none", "dead"}
  /\ proc' = "alive"
  /\ bridge' = "idle"
  /\ serving' = 0
  /\ stdin' = <<counter + 1>>
  /\ stdout' = <<>>
  /\ stderr' = 0
  /\ missed' = 0
  /\ loop' = j
  /\ UNCHANGED <<strays, last>>

CallAlive(j) ==
  /\ proc = "alive"
  /\ stdin' = Append(stdin, counter + 1)
  /\ loop' = j
  /\ UNCHANGED <<proc, bridge, serving, stdout, stderr, strays, missed, last>>

(* poll() has not seen the exit yet: the write raises. *)
CallDying ==
  /\ proc = "dying"
  /\ UNCHANGED <<proc, processVars, loop, missed, last>>

(* decrypt_prompt_key, encrypt_uint128_values or store_prompt_key. *)
Call(j) ==
  /\ loop = Free
  /\ job[j] = "running"
  /\ counter < MaxCalls
  /\ counter' = counter + 1
  /\ CallSpawning(j) \/ CallAlive(j) \/ CallDying
  /\ UNCHANGED job

(* Mutant of ReadLine: the read is given up after a while, and the answer  *)
(* stays in the pipe.                                                      *)
ReadLineOrGiveUp ==
  /\ loop # Free
  /\ \/ /\ stdout = <<>>
        /\ UNCHANGED <<stdout, last>>
     \/ /\ stdout # <<>>
        /\ stdout' = Tail(stdout)
        /\ last' = [call |-> counter, answer |-> Head(stdout)]
  /\ loop' = Free
  /\ UNCHANGED <<job, proc, counter, missed, bridge, serving, stdin, stderr,
                 strays>>

(* The first line is taken for the answer, whatever _requestId it carries; *)
(* one that is blank or no JSON raises, and the answer stays in the pipe.  *)
ReadLine ==
  /\ loop # Free
  /\ stdout # <<>>
  /\ stdout' = Tail(stdout)
  /\ IF Head(stdout) = Stray
     THEN missed' = missed + 1 /\ UNCHANGED last
     ELSE last' = [call |-> counter, answer |-> Head(stdout)] /\ UNCHANGED missed
  /\ loop' = Free
  /\ UNCHANGED <<job, proc, counter, bridge, serving, stdin, stderr, strays>>

(* Mutant of ReadEof: end of file is read on and on. *)
ReadEofForever ==
  /\ loop # Free
  /\ stdout = <<>>
  /\ proc \in {"dying", "dead"}
  /\ UNCHANGED bridgeVars

(* End of file: the call raises. *)
ReadEof ==
  /\ loop # Free
  /\ stdout = <<>>
  /\ proc \in {"dying", "dead"}
  /\ loop' = Free
  /\ UNCHANGED <<job, proc, counter, missed, last, processVars>>

(* A job ends: by itself, or because its 300 seconds are over.  Both need  *)
(* the event loop.                                                         *)
JobOver(j) ==
  /\ loop = Free
  /\ job[j] = "running"
  /\ job' = [job EXCEPT ![j] = "over"]
  /\ UNCHANGED <<proc, clientVars, processVars>>

(***************************************************************************)
(* cofhe_bridge.mjs: one line at a time.                                   *)
(***************************************************************************)

TakeLine ==
  /\ proc = "alive"
  /\ bridge = "idle"
  /\ stdin # <<>>
  /\ bridge' = "working"
  /\ serving' = Head(stdin)
  /\ stdin' = Tail(stdin)
  /\ UNCHANGED <<job, proc, clientVars, stdout, stderr, strays>>

Respond ==
  /\ stdout' = Append(stdout, serving)
  /\ bridge' = "idle"
  /\ serving' = 0
  /\ UNCHANGED <<job, proc, clientVars, stdin, strays>>

Finish ==
  /\ proc = "alive"
  /\ bridge = "working"
  /\ Respond
  /\ UNCHANGED stderr

Fail ==
  /\ proc = "alive"
  /\ bridge = "working"
  /\ bridge' = "reporting"
  /\ UNCHANGED <<job, proc, clientVars, serving, stdin, stdout, stderr, strays>>

(* Mutant of ReportError: the trace is written whether there is room or not. *)
ReportRegardless ==
  /\ proc = "alive"
  /\ bridge = "reporting"
  /\ stderr' = stderr + 1
  /\ Respond

(* The stack trace goes to stderr before the answer goes to stdout, and    *)
(* the write blocks while the pipe is full.                                *)
ReportError ==
  /\ proc = "alive"
  /\ bridge = "reporting"
  /\ stderr < StderrRoom
  /\ stderr' = stderr + 1
  /\ Respond

(* Something else in the process prints a line. *)
PrintStray ==
  /\ proc = "alive"
  /\ bridge = "working"
  /\ strays < MaxStrays
  /\ strays' = strays + 1
  /\ stdout' = Append(stdout, Stray)
  /\ UNCHANGED <<job, proc, clientVars, bridge, serving, stdin, stderr>>

Die ==
  /\ proc = "alive"
  /\ proc' = "dying"
  /\ UNCHANGED <<job, clientVars, processVars>>

Exit ==
  /\ proc = "dying"
  /\ proc' = "dead"
  /\ UNCHANGED <<job, clientVars, processVars>>

BridgeStep == TakeLine \/ Finish \/ Fail \/ ReportError \/ Exit

(* No job is left to make a call. *)
AllOver ==
  /\ \A j \in Callers : job[j] = "over"
  /\ UNCHANGED bridgeVars

BridgeNext ==
  \/ \E j \in Callers : Call(j) \/ JobOver(j)
  \/ ReadLine
  \/ ReadEof
  \/ BridgeStep
  \/ PrintStray
  \/ Die
  \/ AllOver

BridgeSpec == BridgeInit /\ [][BridgeNext]_bridgeVars

(* CoFHE and the chain answer the bridge in the end, a line that is there  *)
(* is read, and the timer of a job goes off; the bridge need never die.    *)
BridgeFairness ==
  /\ WF_bridgeVars(BridgeStep)
  /\ WF_bridgeVars(ReadLine \/ ReadEof)
  /\ \A j \in Callers : WF_bridgeVars(JobOver(j))

BridgeFairSpec == BridgeSpec /\ BridgeFairness

(***************************************************************************)
(* Properties.                                                             *)
(***************************************************************************)

(* A call gets the answer of its own request as long as this process has   *)
(* printed no stray line; every stray line read puts the client one answer *)
(* behind, until the process is replaced.                                  *)
AnswerLagsByStrays == last.call # 0 =>
  (loop = Free /\ counter = last.call => last.answer = last.call - missed)

(* Where stdout holds an answer. *)
Answers == {i \in 1..Len(stdout) : stdout[i] # Stray}

(* Requests without an answer the client has read. *)
Outstanding ==
  Len(stdin) + (IF bridge = "idle" THEN 0 ELSE 1) + Cardinality(Answers)

(* Requests pile up in the bridge only behind stray lines: what it has yet *)
(* to answer, and what is answered but unread, is the current call and one *)
(* more per stray line read.                                               *)
NoPileUp ==
  proc = "alive" => Outstanding = missed + (IF loop = Free THEN 0 ELSE 1)

(* A call comes back, whether the bridge answers, fails or dies, except    *)
(* when the bridge waits for room in its stderr.                           *)
CallReturns ==
  loop # Free ~> \/ loop = Free
                 \/ bridge = "reporting" /\ stderr = StderrRoom

(* node_loop.py 291: "5 minutes max per job". *)
EveryJobEnds == \A j \in Callers : job[j] = "running" ~> job[j] = "over"
===============================================================================
