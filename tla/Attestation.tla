----------------------------- MODULE Attestation ------------------------------
(***************************************************************************)
(* The node's attestation certificate: in the daemon's memory, in          *)
(* config.json and on chain.                                               *)
(*                                                                         *)
(* `_re_attest` (node_loop.py) is called by start_daemon, by the watchdog  *)
(* and by the poller, the last two at the same time if it so happens.  It  *)
(* runs on the event loop, except that update_attestation (registry.py)    *)
(* runs in a thread.  Commands (cli.py: attest, models add) are processes  *)
(* of their own: each loads config.json, changes its copy and saves the    *)
(* whole of it.                                                            *)
(*                                                                         *)
(* External: the ICL, which issues certificates, and the NodeRegistry,     *)
(* where the account has at most one transaction pending, for its senders  *)
(* all number it by the count of the mined ones.                           *)
(***************************************************************************)
EXTENDS Integers, FiniteSets

CONSTANTS
  MaxCerts,   (* bound: certificates are numbered as issued, up to here    *)
  Empty,      (* config.json truncated by an open save                     *)
  Garbage     (* config.json with two saves mixed up                       *)

Callers == {"startup", "watchdog", "poller"}

(* 0 is no certificate.                                                    *)
Certs == 0..MaxCerts

(* The part of Config that changes: `custom` says whether custom_backends  *)
(* has the path a `models add` adds.                                       *)
Configs == [cert : Certs, custom : BOOLEAN]

ASSUME AttestationAssumption ==
  /\ MaxCerts \in Nat \ {0}
  /\ Empty # Garbage
  /\ Empty \notin Configs /\ Garbage \notin Configs

VARIABLES
  daemon,   (* "down", "starting" or "serving"                             *)
  must,     (* start_daemon found the certificate expired                  *)
  mem,      (* the daemon's Config                                         *)
  step,     (* where each call of _re_attest stands                        *)
  answer,   (* the certificate the ICL issued to a call                    *)
  saving,   (* processes between open and close of save_config             *)
  file,     (* config.json                                                 *)
  cmd,      (* the command that runs, and how far it is                    *)
  own,      (* that command's Config                                       *)
  issued,   (* the newest certificate                                      *)
  due,      (* certificates up to this one end within six hours            *)
  tx,       (* the certificate in the pending transaction, 0 if none       *)
  chain,    (* the certificate the NodeRegistry holds                      *)
  known,    (* history: the newest certificate the node was given          *)
  mishap,   (* history: the worst that has happened, see Mishaps           *)
  added     (* history: models add has printed "Added"                     *)

daemonVars == <<daemon, must, mem, step, answer>>
cmdVars    == <<cmd, own, added>>
chainVars  == <<tx, chain>>
vars == <<daemonVars, saving, file, cmdVars, issued, due, chainVars, known,
          mishap>>

(* The mishaps that the code does not always survive, from none to worst:  *)
(* a process died while it saved or had to; attest ended after it had      *)
(* registered the node; two calls or commands were under way at once.      *)
Mishaps == 0..3
None    == 0
Death   == 1
Unsaved == 2
Overlap == 3

(* asking: the challenge and its submission, two requests with nothing     *)
(* shared touched between them.                                            *)
Steps == {"idle", "asking", "saving", "sending", "waiting"}
Cmds  == {"none", "attesting", "certified", "registered", "adding",
          "savingCert", "savingAdd"}

TypeOK ==
  /\ daemon \in {"down", "starting", "serving"}
  /\ must \in BOOLEAN
  /\ mem \in Configs
  /\ step \in [Callers -> Steps]
  /\ answer \in [Callers -> Certs]
  /\ saving \in SUBSET {"daemon", "command"}
  /\ file \in Configs \union {Empty, Garbage}
  /\ cmd \in Cmds
  /\ own \in Configs
  /\ issued \in Certs
  /\ due \in Certs
  /\ tx \in Certs
  /\ chain \in Certs
  /\ known \in Certs
  /\ mishap \in Mishaps
  /\ added \in BOOLEAN

(* `init` has written the file. *)
Fresh == [cert |-> 0, custom |-> FALSE]

Init ==
  /\ daemon = "down"
  /\ must = FALSE
  /\ mem = Fresh
  /\ step = [c \in Callers |-> "idle"]
  /\ answer = [c \in Callers |-> 0]
  /\ saving = {}
  /\ file = Fresh
  /\ cmd = "none"
  /\ own = Fresh
  /\ issued = 0
  /\ due = 0
  /\ tx = 0
  /\ chain = 0
  /\ known = 0
  /\ mishap = None
  /\ added = FALSE

(***************************************************************************)
(* Helpers.                                                                *)
(***************************************************************************)

Readable == file \in Configs

Busy == cmd # "none" \/ \E c \in Callers : step[c] # "idle"

(* save_config blocks the event loop from open to close. *)
LoopFree == "daemon" \notin saving

(* Numbers stop at the bound, where the newest certificate never ages. *)
NextCert == IF issued < MaxCerts THEN issued + 1 ELSE issued

Greater(a, b) == IF a > b THEN a ELSE b

(* What the file may be once `config` is written: if something was written *)
(* since this process truncated it, the two may overlap.                   *)
Written(config) == IF file = Empty THEN {config} ELSE {config, Garbage}

Begin(c) ==
  /\ step' = [step EXCEPT ![c] = "asking"]
  /\ mishap' = IF Busy THEN Overlap ELSE mishap

(***************************************************************************)
(* blindference-node run, start_daemon, attestation_watchdog and the       *)
(* poller's handler of ICLNodeUnknownError.                                *)
(***************************************************************************)

(* Mutant of Run: a file that cannot be parsed is not an error. *)
RunUnparsed(expired) ==
  /\ daemon = "down"
  /\ IF Readable THEN file.cert # 0 ELSE TRUE
  /\ daemon' = "starting"
  /\ mem' = file
  /\ must' = expired
  /\ Begin("startup")
  /\ UNCHANGED <<answer, saving, file, cmdVars, issued, due, chainVars, known>>

(* `run` loads the configuration, refuses one it cannot read or without a  *)
(* certificate, and always re-attests before the loops start.              *)
Run(expired) ==
  /\ daemon = "down"
  /\ Readable
  /\ file.cert # 0
  /\ expired => file.cert <= due
  /\ daemon' = "starting"
  /\ mem' = file
  /\ must' = expired
  /\ Begin("startup")
  /\ UNCHANGED <<answer, saving, file, cmdVars, issued, due, chainVars, known>>

(* The watchdog's check, made every ten minutes. *)
WatchdogDue ==
  /\ daemon = "serving"
  /\ LoopFree
  /\ step["watchdog"] = "idle"
  /\ mem.cert <= due
  /\ Begin("watchdog")
  /\ UNCHANGED <<daemon, must, mem, answer, saving, file, cmdVars, issued, due,
                 chainVars, known>>

(* The ICL does not know the node. *)
NodeUnknown ==
  /\ daemon = "serving"
  /\ LoopFree
  /\ step["poller"] = "idle"
  /\ Begin("poller")
  /\ UNCHANGED <<daemon, must, mem, answer, saving, file, cmdVars, issued, due,
                 chainVars, known>>

(***************************************************************************)
(* _re_attest.                                                             *)
(***************************************************************************)

(* The ICL takes a submission; a repeated one, too. *)
Issue(c) ==
  /\ step[c] = "asking"
  /\ issued' = NextCert
  /\ answer' = [answer EXCEPT ![c] = NextCert]
  /\ UNCHANGED <<daemon, must, mem, step, saving, file, cmdVars, due, chainVars,
                 known, mishap>>

(* Mutant of Answered: the certificate is kept in memory only. *)
AnsweredWithoutSave(c) ==
  /\ step[c] = "asking"
  /\ LoopFree
  /\ answer[c] # 0
  /\ mem' = [mem EXCEPT !.cert = answer[c]]
  /\ known' = Greater(known, answer[c])
  /\ step' = [step EXCEPT ![c] = "sending"]
  /\ UNCHANGED <<daemon, must, answer, saving, file, cmdVars, issued, due,
                 chainVars, mishap>>

(* The certificate is in the daemon's Config and save_config opens the     *)
(* file.                                                                   *)
Answered(c) ==
  /\ step[c] = "asking"
  /\ LoopFree
  /\ answer[c] # 0
  /\ mem' = [mem EXCEPT !.cert = answer[c]]
  /\ known' = Greater(known, answer[c])
  /\ file' = Empty
  /\ saving' = saving \union {"daemon"}
  /\ step' = [step EXCEPT ![c] = "saving"]
  /\ UNCHANGED <<daemon, must, answer, cmdVars, issued, due, chainVars, mishap>>

(* Mutant of Saved: what the file holds is the Config of the start. *)
SavedStale(c) ==
  /\ step[c] = "saving"
  /\ file' \in Written([mem EXCEPT !.cert = 0])
  /\ saving' = saving \ {"daemon"}
  /\ step' = [step EXCEPT ![c] = "sending"]
  /\ UNCHANGED <<daemon, must, mem, answer, cmdVars, issued, due, chainVars,
                 known, mishap>>

(* The file is written and closed, and the thread started. *)
Saved(c) ==
  /\ step[c] = "saving"
  /\ file' \in Written(mem)
  /\ saving' = saving \ {"daemon"}
  /\ step' = [step EXCEPT ![c] = "sending"]
  /\ UNCHANGED <<daemon, must, mem, answer, cmdVars, issued, due, chainVars,
                 known, mishap>>

(* update_attestation sends its transaction, in place of one that is still *)
(* pending under the same number; without success, see Finished.           *)
Sent(c) ==
  /\ step[c] = "sending"
  /\ tx' = answer[c]
  /\ step' = [step EXCEPT ![c] = "waiting"]
  /\ UNCHANGED <<daemon, must, mem, answer, saving, file, cmdVars, issued, due,
                 chain, known, mishap>>

(* The call returns to its caller: start_daemon goes on to its loops, and  *)
(* the loops to their next wait.                                           *)
Return(c) ==
  /\ step' = [step EXCEPT ![c] = "idle"]
  /\ answer' = [answer EXCEPT ![c] = 0]

(* The thread is back: with a receipt, without one, or without having sent *)
(* anything.  _re_attest has succeeded.                                    *)
Finished(c) ==
  /\ step[c] \in {"sending", "waiting"}
  /\ LoopFree
  /\ Return(c)
  /\ daemon' = IF c = "startup" THEN "serving" ELSE daemon
  /\ must' = (must /\ c # "startup")
  /\ UNCHANGED <<mem, saving, file, cmdVars, issued, due, chainVars,
                 known, mishap>>

(* Mutant of Failed: the error ends the caller's loop. *)
FailedFatal(c) ==
  /\ step[c] = "asking"
  /\ LoopFree
  /\ step' = [step EXCEPT ![c] = "over"]
  /\ answer' = [answer EXCEPT ![c] = 0]
  /\ daemon' = IF c # "startup" THEN daemon ELSE IF must THEN "down" ELSE "serving"
  /\ UNCHANGED <<must, mem, saving, file, cmdVars, issued, due, chainVars,
                 known, mishap>>

(* A request fails, perhaps after the ICL took it.  start_daemon gives up  *)
(* if the certificate had expired.                                         *)
Failed(c) ==
  /\ step[c] = "asking"
  /\ LoopFree
  /\ Return(c)
  /\ daemon' = IF c # "startup" THEN daemon ELSE IF must THEN "down" ELSE "serving"
  /\ must' = (must /\ c # "startup")
  /\ mem' = IF daemon' = "down" THEN Fresh ELSE mem
  /\ UNCHANGED <<saving, file, cmdVars, issued, due, chainVars,
                 known, mishap>>

CallStep(c) ==
  Answered(c) \/ Saved(c) \/ Sent(c) \/ Finished(c)

(* The daemon ends, by a signal or by a crash.  A thread that had yet to   *)
(* send may still do so.  What a process had in memory goes with it: `mem` *)
(* and `own` mean nothing while there is none.                             *)
Die ==
  /\ daemon # "down"
  /\ daemon' = "down"
  /\ mem' = Fresh
  /\ must' = FALSE
  /\ step' = [c \in Callers |-> "idle"]
  /\ answer' = [c \in Callers |-> 0]
  /\ saving' = saving \ {"daemon"}
  /\ mishap' = IF LoopFree THEN mishap ELSE Greater(mishap, Death)
  /\ tx' \in {tx} \union {answer[c] : c \in {d \in Callers : step[d] = "sending"}}
  /\ UNCHANGED <<file, cmdVars, issued, due, chain, known>>

(***************************************************************************)
(* Commands.                                                               *)
(***************************************************************************)

(* attest or models add loads the configuration. *)
Load(kind) ==
  /\ cmd = "none"
  /\ Readable
  /\ cmd' = kind
  /\ own' = file
  /\ mishap' = IF Busy THEN Overlap ELSE mishap
  /\ UNCHANGED <<daemonVars, saving, file, added, issued, due, chainVars, known>>

(* attest gets its certificate from the ICL. *)
CmdCertified ==
  /\ cmd = "attesting"
  /\ issued' = NextCert
  /\ own' = [own EXCEPT !.cert = NextCert]
  /\ known' = Greater(known, NextCert)
  /\ cmd' = "certified"
  /\ UNCHANGED <<daemonVars, saving, file, added, due, chainVars, mishap>>

(* A node the registry does not have is registered, certificate and all,   *)
(* before anything is saved.                                               *)
CmdRegister ==
  /\ cmd = "certified"
  /\ chain = 0
  /\ tx' = own.cert
  /\ cmd' = "registered"
  /\ UNCHANGED <<daemonVars, saving, file, own, added, issued, due, chain, known,
                 mishap>>

CmdOpen(next) ==
  /\ cmd' = next
  /\ file' = Empty
  /\ saving' = saving \union {"command"}
  /\ UNCHANGED <<daemonVars, added, issued, due, chainVars, known, mishap>>

AttestSaves ==
  /\ cmd \in {"certified", "registered"}
  /\ CmdOpen("savingCert")
  /\ UNCHANGED own

AddSaves ==
  /\ cmd = "adding"
  /\ ~own.custom
  /\ own' = [own EXCEPT !.custom = TRUE]
  /\ CmdOpen("savingAdd")

CmdSaved ==
  /\ cmd \in {"savingCert", "savingAdd"}
  /\ file' \in Written(own)
  /\ saving' = saving \ {"command"}
  /\ added' = (added \/ cmd = "savingAdd")
  /\ cmd' = "none"
  /\ own' = Fresh
  /\ UNCHANGED <<daemonVars, issued, due, chainVars, known, mishap>>

(* The command gives up, has nothing to do, or is killed. *)
CmdEnds ==
  /\ cmd # "none"
  /\ cmd' = "none"
  /\ saving' = saving \ {"command"}
  /\ mishap' = CASE cmd \in {"attesting", "adding"} -> mishap
                 [] cmd = "registered" -> Greater(mishap, Unsaved)
                 [] OTHER -> Greater(mishap, Death)
  /\ own' = Fresh
  /\ UNCHANGED <<daemonVars, file, added, issued, due, chainVars, known>>

(* load_config cannot parse the file: neither daemon nor command gets past *)
(* it, until somebody repairs the file by hand.                            *)
Refused ==
  /\ daemon = "down"
  /\ cmd = "none"
  /\ ~Readable
  /\ UNCHANGED vars

(***************************************************************************)
(* Time and the chain.                                                     *)
(***************************************************************************)

(* One more certificate comes within six hours of its end. *)
Age ==
  /\ due < issued
  /\ due + 1 < MaxCerts
  /\ due' = due + 1
  /\ UNCHANGED <<daemonVars, saving, file, cmdVars, issued, chainVars, known,
                 mishap>>

(* The transaction is mined: it took effect, or it reverted. *)
Mined ==
  /\ tx # 0
  /\ chain' \in {tx, chain}
  /\ tx' = 0
  /\ UNCHANGED <<daemonVars, saving, file, cmdVars, issued, due, known, mishap>>

Next ==
  \/ \E expired \in BOOLEAN : Run(expired)
  \/ WatchdogDue
  \/ NodeUnknown
  \/ \E c \in Callers : CallStep(c) \/ Issue(c) \/ Failed(c)
  \/ Die
  \/ \E kind \in {"attesting", "adding"} : Load(kind)
  \/ CmdCertified
  \/ CmdRegister
  \/ AttestSaves
  \/ AddSaves
  \/ CmdSaved
  \/ CmdEnds
  \/ Refused
  \/ Age
  \/ Mined

Spec == Init /\ [][Next]_vars

(* The operator starts the daemon; the watchdog's wait ends; a blocking    *)
(* save ends; an ICL that is asked again and again answers some time.      *)
Fairness ==
  /\ WF_vars(Run(FALSE))
  /\ WF_vars(WatchdogDue)
  /\ \A c \in Callers : WF_vars(Saved(c))
  /\ WF_vars(Finished("watchdog"))
  /\ SF_vars(Issue("watchdog"))
  /\ SF_vars(Answered("watchdog"))

FairSpec == Spec /\ Fairness

(***************************************************************************)
(* Properties.                                                             *)
(***************************************************************************)

Quiet == ~Busy /\ saving = {}

(* As long as calls and commands never overlap and none dies half way,     *)
(* config.json can be read whenever nothing is going on, and it holds the  *)
(* newest certificate the node was given, by whichever process, across     *)
(* restarts of the daemon and in spite of the old copies it keeps.         *)
NewestIsSaved ==
  Quiet /\ mishap = None => Readable /\ file.cert = known

(* The daemon saves before it sends (node_loop.py 94-108): a configuration *)
(* that can be loaded is never behind the chain, whatever died and when,   *)
(* so that a restart comes up with a certificate at least as new as the    *)
(* registered one.  attest registers before it saves (cli.py 518-550): it  *)
(* must not end in between.                                                *)
RestartKeepsUp ==
  mishap <= Death /\ cmd = "none" /\ Readable
    => chain <= file.cert /\ tx <= file.cert

(* A certificate that comes within six hours of its end is renewed while   *)
(* the daemon lives, whatever fails in between and whatever older answer   *)
(* of the poller's call overtakes the watchdog's.                          *)
WatchdogRenews ==
  daemon = "serving" /\ mem.cert <= due
    ~> daemon # "serving" \/ mem.cert > due

(* cli.py 763-766: the path `models add` adds "is persisted in             *)
(* ./config.json" and "loaded automatically on the next run".  Asked only  *)
(* where nothing overlapped and nothing died half way.                     *)
AddedPersists == added /\ Quiet /\ mishap = None => file.custom

(* updates.md 95: `attestation_expiry == 0` "triggers auto-re-attest:      *)
(* Handles fresh installations without requiring manual attest command".   *)
(* The operator keeps trying to run the daemon on what `init` has written. *)
FreshNodeIsAttested == file = Fresh ~> issued > 0 \/ file # Fresh
===============================================================================
