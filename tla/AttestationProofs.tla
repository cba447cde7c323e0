--------------------------- MODULE AttestationProofs --------------------------
(***************************************************************************)
(* For any number of certificates: config.json keeps up with what the node *)
(* was given and with what the chain has.                                  *)
(*                                                                         *)
(* Both properties excuse overlaps, so the argument is about the one call  *)
(* or command that is under way: what it holds is the newest certificate   *)
(* there is, and between opening and closing the file nobody else touches  *)
(* it.                                                                     *)
(***************************************************************************)
EXTENDS Attestation, TLAPS

(***************************************************************************)
(* The invariant.                                                          *)
(***************************************************************************)

(* Nobody has a certificate that was not issued.                           *)
Bounded ==
  /\ \A c \in Callers : answer[c] <= issued
  /\ tx <= issued /\ chain <= issued /\ known <= issued
  /\ mem.cert <= issued /\ own.cert <= issued
  /\ file \in Configs => file.cert <= issued

(* A call of _re_attest or a command, but no two.                          *)
Alone ==
  /\ \A c, d \in Callers : step[c] # "idle" /\ step[d] # "idle" => c = d
  /\ \A c \in Callers : step[c] # "idle" => cmd = "none"

(* The call's certificate is the newest one, from the answer on; it is in  *)
(* the file before it is sent.                                             *)
CallSound ==
  \A c \in Callers :
    /\ step[c] = "idle" => answer[c] = 0
    /\ step[c] = "asking" /\ answer[c] # 0 => answer[c] = issued
    /\ step[c] = "saving" => /\ answer[c] = issued /\ mem.cert = issued
                             /\ file = Empty /\ "daemon" \in saving
    /\ step[c] \in {"sending", "waiting"} =>
         answer[c] = issued /\ file \in Configs /\ file.cert = issued

(* A command's copy is the file as it was loaded, until attest has a newer *)
(* certificate in it.                                                      *)
CmdSound ==
  /\ cmd \in {"attesting", "adding"} => file \in Configs /\ own = file
  /\ cmd \in {"certified", "registered", "savingCert"} => own.cert = issued
  /\ cmd \in {"savingCert", "savingAdd"} => file = Empty
  /\ cmd = "savingAdd" => chain <= own.cert /\ tx <= own.cert

NotBehind ==
  file \in Configs /\ cmd # "registered"
    => chain <= file.cert /\ tx <= file.cert

(* The newest certificate the node was given is in the file, or with the   *)
(* call or the command that is about to write it.                          *)
Holding == {"certified", "registered", "savingCert", "savingAdd"}

NewestKept ==
  /\ \A c \in Callers : step[c] = "saving" => mem.cert = known
  /\ cmd \in Holding => own.cert = known
  /\ (\A c \in Callers : step[c] # "saving") /\ cmd \notin Holding
       => file \in Configs /\ file.cert = known

AttestInv ==
  /\ TypeOK
  /\ Bounded
  /\ mishap <= Death => Alone /\ CallSound /\ CmdSound /\ NotBehind
  /\ mishap = None => NewestKept

(* What `init` writes is a configuration. *)
LEMMA FreshTyped == Fresh \in Configs /\ Fresh.cert = 0 /\ 0 \in Certs
BY AttestationAssumption DEF Fresh, Configs, Certs

(***************************************************************************)
(* The daemon.                                                             *)
(***************************************************************************)

(* `run` starts with what the file has, and takes up the first call. *)
LEMMA RunKeeps ==
  ASSUME AttestInv, NEW expired \in BOOLEAN, Run(expired)
  PROVE  AttestInv'
<1> USE AttestationAssumption
    DEF AttestInv, Run, Begin, Readable, cmdVars, chainVars
<1>1. TypeOK'
  BY DEF TypeOK, Callers, Steps, Mishaps, Overlap
<1>2. Bounded'
  BY DEF TypeOK, Bounded
<1>3. mishap' <= Death => ~Busy /\ mishap <= Death
  BY DEF TypeOK, Mishaps, Death, Overlap
<1>4. ~Busy => Alone'
  BY DEF TypeOK, Alone, Busy, Callers
<1>5. CallSound /\ ~Busy => CallSound'
  BY DEF TypeOK, CallSound, Busy, Callers
<1>6. CmdSound => CmdSound'
  BY DEF CmdSound
<1>7. NotBehind => NotBehind'
  BY DEF NotBehind
<1>8. mishap' = None => NewestKept'
  BY <1>3 DEF TypeOK, NewestKept, Callers, Busy, None, Overlap
<1> QED BY <1>1, <1>2, <1>3, <1>4, <1>5, <1>6, <1>7, <1>8

(* The watchdog and the poller make a call of their own. *)
LEMMA BeginKeeps ==
  ASSUME AttestInv, NEW c \in Callers, step[c] = "idle", Begin(c),
         UNCHANGED <<daemon, must, mem, answer, saving, file, cmdVars, issued,
                     due, chainVars, known>>
  PROVE  AttestInv'
<1> USE AttestationAssumption DEF AttestInv, Begin, cmdVars, chainVars
<1>1. TypeOK'
  BY DEF TypeOK, Steps, Mishaps, Overlap
<1>2. Bounded'
  BY DEF TypeOK, Bounded
<1>3. mishap' <= Death => ~Busy /\ mishap <= Death
  BY DEF TypeOK, Mishaps, Death, Overlap
<1>4. ~Busy => Alone'
  BY DEF TypeOK, Alone, Busy
<1>5. CallSound /\ ~Busy => CallSound'
  BY DEF TypeOK, CallSound, Busy
<1>6. CmdSound => CmdSound'
  BY DEF CmdSound
<1>7. NotBehind => NotBehind'
  BY DEF NotBehind
<1>8. mishap' = None => NewestKept'
  BY <1>3 DEF TypeOK, NewestKept, Busy, None, Overlap
<1> QED BY <1>1, <1>2, <1>3, <1>4, <1>5, <1>6, <1>7, <1>8

(* The ICL's numbers go up, and nobody but this call is affected. *)
LEMMA IssueKeeps ==
  ASSUME AttestInv, NEW c \in Callers, Issue(c)
  PROVE  AttestInv'
<1> USE AttestationAssumption DEF AttestInv, Issue, cmdVars, chainVars
<1>1. /\ NextCert \in Certs /\ issued <= NextCert /\ issued \in Int
      /\ NextCert \in Int
  BY DEF TypeOK, Certs, NextCert
<1>2. TypeOK'
  BY <1>1 DEF TypeOK
<1>3. Bounded'
  BY <1>1 DEF TypeOK, Bounded, Certs, Configs
<1>4. Alone => Alone'
  BY DEF Alone
<1>5. Alone /\ CallSound => CallSound'
  BY DEF TypeOK, Alone, CallSound
<1>6. Alone /\ CmdSound => CmdSound'
  BY DEF Alone, CmdSound
<1>7. NotBehind => NotBehind'
  BY DEF NotBehind
<1>8. NewestKept => NewestKept'
  BY DEF NewestKept
<1> QED BY <1>2, <1>3, <1>4, <1>5, <1>6, <1>7, <1>8

(* The answer is in the daemon's Config and the file is open. *)
LEMMA AnsweredKeeps ==
  ASSUME AttestInv, NEW c \in Callers, Answered(c)
  PROVE  AttestInv'
<1> USE AttestationAssumption DEF AttestInv, Answered, cmdVars, chainVars
<1>1. /\ mem' \in Configs /\ mem'.cert = answer[c] /\ answer[c] \in Int
      /\ known \in Int /\ issued \in Int /\ known' \in {known, answer[c]}
      /\ known <= known' /\ answer[c] <= known'
  BY DEF TypeOK, Certs, Configs, Greater
<1>2. TypeOK'
  BY <1>1 DEF TypeOK, Steps
<1>3. Bounded'
  BY <1>1 DEF Bounded
<1>4. Alone => Alone'
  BY DEF TypeOK, Alone
<1>5. Alone /\ CallSound => CallSound'
  BY <1>1 DEF TypeOK, Alone, CallSound
<1>6. Alone => cmd = "none"
  BY DEF Alone
<1>7. Alone => CmdSound' /\ NotBehind'
  BY <1>6 DEF CmdSound, NotBehind
<1>8. CallSound => answer[c] = issued /\ known' = issued
  BY <1>1 DEF CallSound, Bounded
<1>9. Alone /\ CallSound => NewestKept'
  BY <1>1, <1>6, <1>8 DEF TypeOK, Alone, NewestKept, Holding
<1> QED BY <1>2, <1>3, <1>4, <1>5, <1>7, <1>9 DEF TypeOK, Mishaps, None, Death

(* The file has the daemon's Config: nobody wrote it since it was opened. *)
LEMMA SavedKeeps ==
  ASSUME AttestInv, NEW c \in Callers, Saved(c)
  PROVE  AttestInv'
<1> USE AttestationAssumption DEF AttestInv, Saved, cmdVars, chainVars
<1>1. file' = mem \/ file' = Garbage
  BY DEF Written
<1>2. CallSound => file' = mem
  BY DEF CallSound, Written
<1>3. TypeOK'
  BY <1>1 DEF TypeOK, Steps
<1>4. Bounded'
  BY <1>1 DEF TypeOK, Bounded
<1>5. Alone => Alone'
  BY DEF TypeOK, Alone
<1>6. Alone /\ CallSound => CallSound'
  BY <1>2 DEF TypeOK, Alone, CallSound
<1>7. Alone => cmd = "none"
  BY DEF Alone
<1>8. Alone => CmdSound'
  BY <1>7 DEF CmdSound
<1>9. CallSound => NotBehind'
  BY <1>2 DEF CallSound, NotBehind, Bounded
<1>10. Alone /\ CallSound /\ NewestKept => NewestKept'
  BY <1>2, <1>7 DEF TypeOK, Alone, NewestKept, Holding
<1> QED BY <1>3, <1>4, <1>5, <1>6, <1>8, <1>9, <1>10
        DEF TypeOK, Mishaps, None, Death
(* The certificate that is sent is in the file. *)
LEMMA SentKeeps ==
  ASSUME AttestInv, NEW c \in Callers, Sent(c)
  PROVE  AttestInv'
<1> USE AttestationAssumption DEF AttestInv, Sent, cmdVars
<1>1. TypeOK'
  BY DEF TypeOK, Steps
<1>2. Bounded'
  BY DEF TypeOK, Bounded
<1>3. Alone => Alone'
  BY DEF TypeOK, Alone
<1>4. CallSound => CallSound'
  BY DEF TypeOK, CallSound
<1>5. Alone => cmd = "none"
  BY DEF Alone
<1>6. Alone => CmdSound'
  BY <1>5 DEF CmdSound
<1>7. CallSound /\ NotBehind => NotBehind'
  BY DEF TypeOK, CallSound, NotBehind, Certs, Configs
<1>8. NewestKept => NewestKept'
  BY DEF TypeOK, NewestKept
<1> QED BY <1>1, <1>2, <1>3, <1>4, <1>6, <1>7, <1>8

(* A call that is over, with or without success, leaves the file alone. *)
LEMMA ReturnedKeeps ==
  ASSUME AttestInv, NEW c \in Callers, step[c] \notin {"idle", "saving"},
         Return(c), daemon' \in {"down", "starting", "serving"},
         must' \in BOOLEAN, mem' \in {mem, Fresh},
         UNCHANGED <<saving, file, cmdVars, issued, due, chainVars, known, mishap>>
  PROVE  AttestInv'
<1> USE AttestationAssumption DEF AttestInv, Return, cmdVars, chainVars
<1>1. TypeOK'
  <2>1. mem' \in Configs
    BY FreshTyped DEF TypeOK
  <2>2. step' \in [Callers -> Steps] /\ answer' \in [Callers -> Certs]
    BY DEF TypeOK, Steps, Certs
  <2> QED BY <2>1, <2>2 DEF TypeOK
<1>2. Bounded'
  BY DEF TypeOK, Bounded, Certs, Configs, Fresh
<1>3. Alone => Alone'
  BY DEF TypeOK, Alone
<1>4. Alone /\ CallSound => CallSound'
  BY DEF TypeOK, Alone, CallSound
<1>5. CmdSound => CmdSound'
  BY DEF CmdSound
<1>6. NotBehind => NotBehind'
  BY DEF NotBehind
<1>7. Alone /\ NewestKept => NewestKept'
  BY DEF TypeOK, Alone, NewestKept
<1> QED BY <1>1, <1>2, <1>3, <1>4, <1>5, <1>6, <1>7
        DEF TypeOK, Mishaps, None, Death

(* A thread's transaction may outlive the daemon; an open file is a mishap. *)
LEMMA DieKeeps ==
  ASSUME AttestInv, Die
  PROVE  AttestInv'
<1> USE AttestationAssumption DEF AttestInv, Die, cmdVars
<1>1. TypeOK'
  <2>1. mem' \in Configs
    BY FreshTyped DEF TypeOK
  <2>2. step' \in [Callers -> Steps] /\ answer' \in [Callers -> Certs]
    BY DEF TypeOK, Steps, Certs
  <2>3. mishap' \in Mishaps
    BY DEF TypeOK, Mishaps, Death, Greater
  <2>4. tx' \in Certs
    BY DEF TypeOK
  <2> QED BY <2>1, <2>2, <2>3, <2>4 DEF TypeOK
<1>2. Bounded'
  BY DEF TypeOK, Bounded, Certs, Configs, Fresh
<1>3. mishap' <= Death => mishap <= Death
  BY DEF TypeOK, Mishaps, Death, Greater
<1>4. Alone' /\ (CallSound => CallSound')
  BY DEF Alone, CallSound
<1>5. tx' = tx \/ \E c \in Callers : step[c] = "sending" /\ tx' = answer[c]
  OBVIOUS
<1>6. Alone /\ CmdSound => CmdSound'
  BY <1>5 DEF Alone, CmdSound
<1>7. CallSound /\ NotBehind => NotBehind'
  BY <1>5 DEF TypeOK, CallSound, NotBehind, Certs, Configs
<1>8. ASSUME mishap' = None PROVE NewestKept'
  <2>1. mishap = None /\ "daemon" \notin saving
    BY <1>8 DEF TypeOK, Mishaps, None, Death, Greater, LoopFree
  <2>2. CallSound /\ NewestKept
    BY <2>1 DEF None, Death
  <2>3. \A c \in Callers : step[c] # "saving"
    BY <2>1, <2>2 DEF CallSound
  <2> QED BY <2>2, <2>3 DEF NewestKept
<1> QED BY <1>1, <1>2, <1>3, <1>4, <1>6, <1>7, <1>8

(***************************************************************************)
(* Commands.                                                               *)
(***************************************************************************)

(* A command starts from the file. *)
LEMMA LoadKeeps ==
  ASSUME AttestInv, NEW kind \in {"attesting", "adding"}, Load(kind)
  PROVE  AttestInv'
<1> USE AttestationAssumption
    DEF AttestInv, Load, Readable, daemonVars, chainVars
<1>1. TypeOK'
  BY DEF TypeOK, Cmds, Mishaps, Overlap
<1>2. Bounded'
  BY DEF TypeOK, Bounded
<1>3. mishap' <= Death => ~Busy /\ mishap <= Death
  BY DEF TypeOK, Mishaps, Death, Overlap
<1>4. ~Busy => Alone'
  BY DEF Alone, Busy
<1>5. CallSound => CallSound'
  BY DEF CallSound
<1>6. CmdSound'
  BY DEF CmdSound
<1>7. NotBehind => NotBehind'
  BY DEF NotBehind
<1>8. mishap' = None => NewestKept'
  BY <1>3 DEF TypeOK, NewestKept, Holding, None, Overlap
<1> QED BY <1>1, <1>2, <1>3, <1>4, <1>5, <1>6, <1>7, <1>8

(* attest has the newest certificate. *)
LEMMA CmdCertifiedKeeps ==
  ASSUME AttestInv, CmdCertified
  PROVE  AttestInv'
<1> USE AttestationAssumption DEF AttestInv, CmdCertified, daemonVars, chainVars
<1>1. /\ NextCert \in Certs /\ issued <= NextCert /\ issued \in Int
      /\ NextCert \in Int /\ known \in Int /\ known <= NextCert
      /\ known' = NextCert
  BY DEF TypeOK, Certs, NextCert, Bounded, Greater
<1>2. own' \in Configs /\ own'.cert = NextCert
  BY <1>1 DEF TypeOK, Configs
<1>3. TypeOK'
  BY <1>1, <1>2 DEF TypeOK, Cmds
<1>4. Bounded'
  BY <1>1, <1>2 DEF TypeOK, Bounded, Certs, Configs
<1>5. Alone => Alone'
  BY DEF Alone
<1>6. Alone /\ CallSound => CallSound'
  BY DEF Alone, CallSound
<1>7. CmdSound => CmdSound'
  BY <1>2 DEF CmdSound
<1>8. NotBehind => NotBehind'
  BY DEF NotBehind
<1>9. Alone => NewestKept'
  BY <1>1, <1>2 DEF Alone, NewestKept, Holding
<1> QED BY <1>3, <1>4, <1>5, <1>6, <1>7, <1>8, <1>9
        DEF TypeOK, Mishaps, None, Death

(* The registration is ahead of the file, which `registered` stands for. *)
LEMMA CmdRegisterKeeps ==
  ASSUME AttestInv, CmdRegister
  PROVE  AttestInv'
<1> USE AttestationAssumption DEF AttestInv, CmdRegister, daemonVars
<1>1. TypeOK'
  BY DEF TypeOK, Cmds, Configs
<1>2. Bounded'
  BY DEF TypeOK, Bounded
<1>3. Alone => Alone'
  BY DEF Alone
<1>4. CallSound => CallSound'
  BY DEF CallSound
<1>5. CmdSound => CmdSound'
  BY DEF CmdSound
<1>6. NotBehind'
  BY DEF NotBehind
<1>7. NewestKept => NewestKept'
  BY DEF NewestKept, Holding
<1> QED BY <1>1, <1>2, <1>3, <1>4, <1>5, <1>6, <1>7
(* A command opens the file to write its copy.                             *)
LEMMA OpenKeeps ==
  ASSUME AttestInv, AttestSaves \/ AddSaves
  PROVE  AttestInv'
<1> USE AttestationAssumption
    DEF AttestInv, AttestSaves, AddSaves, CmdOpen, daemonVars, chainVars
<1>1. own' \in Configs /\ own'.cert = own.cert
  BY DEF TypeOK, Configs
<1>2. TypeOK'
  BY <1>1 DEF TypeOK, Cmds
<1>3. Bounded'
  BY <1>1 DEF TypeOK, Bounded
<1>4. Alone => Alone'
  BY DEF Alone
<1>5. Alone /\ CallSound => CallSound'
  BY DEF Alone, CallSound
<1>6. CmdSound /\ NotBehind => CmdSound'
  BY <1>1 DEF CmdSound, NotBehind
<1>7. NotBehind'
  BY DEF NotBehind
<1>8. Alone /\ CmdSound /\ NewestKept => NewestKept'
  BY <1>1 DEF TypeOK, Alone, CmdSound, NewestKept, Holding
<1> QED BY <1>2, <1>3, <1>4, <1>5, <1>6, <1>7, <1>8
        DEF TypeOK, Mishaps, None, Death

(* The file has the command's copy. *)
LEMMA CmdSavedKeeps ==
  ASSUME AttestInv, CmdSaved
  PROVE  AttestInv'
<1> USE AttestationAssumption DEF AttestInv, CmdSaved, daemonVars, chainVars
<1>1. file' = own \/ file' = Garbage
  BY DEF Written
<1>2. CmdSound => file' = own
  BY DEF CmdSound, Written
<1>3. own' \in Configs /\ own'.cert = 0 /\ added' \in BOOLEAN
  BY AttestationAssumption DEF Fresh, Configs, Certs
<1>4. TypeOK'
  BY <1>1, <1>3 DEF TypeOK, Cmds
<1>5. Bounded'
  BY <1>1, <1>3 DEF TypeOK, Bounded, Certs
<1>6. Alone => Alone'
  BY DEF Alone
<1>7. Alone /\ CallSound => CallSound'
  BY DEF Alone, CallSound
<1>8. CmdSound'
  BY DEF CmdSound
<1>9. CmdSound => NotBehind'
  BY <1>2 DEF CmdSound, NotBehind, Bounded
<1>10. CmdSound /\ NewestKept => NewestKept'
  BY <1>2 DEF TypeOK, NewestKept, Holding
<1> QED BY <1>4, <1>5, <1>6, <1>7, <1>8, <1>9, <1>10
        DEF TypeOK, Mishaps, None, Death

(* A command that ends with a newer certificate than the file is a mishap. *)
LEMMA CmdEndsKeeps ==
  ASSUME AttestInv, CmdEnds
  PROVE  AttestInv'
<1> USE AttestationAssumption DEF AttestInv, CmdEnds, daemonVars, chainVars
<1>1. own' \in Configs /\ own'.cert = 0
  BY DEF Fresh, Configs, Certs
<1>2. mishap' \in Mishaps /\ mishap <= mishap'
  BY DEF TypeOK, Mishaps, Greater, Unsaved, Death
<1>3. TypeOK'
  BY <1>1, <1>2 DEF TypeOK, Cmds
<1>4. Bounded'
  BY <1>1 DEF TypeOK, Bounded, Certs
<1>5. Alone => Alone'
  BY DEF Alone
<1>6. Alone /\ CallSound => CallSound'
  BY DEF Alone, CallSound
<1>7. CmdSound'
  BY DEF CmdSound
<1>8. mishap' <= Death => cmd # "registered"
  BY DEF TypeOK, Mishaps, Greater, Unsaved, Death
<1>9. cmd # "registered" /\ NotBehind => NotBehind'
  BY DEF NotBehind
<1>10. mishap' = None => mishap = None /\ cmd \in {"attesting", "adding"}
  BY DEF TypeOK, Mishaps, Greater, Unsaved, Death, None
<1>11. mishap' = None => NewestKept'
  BY <1>10 DEF NewestKept, Holding
<1>12. mishap' <= Death => mishap <= Death
  BY <1>2 DEF TypeOK, Mishaps, Death
<1> QED BY <1>3, <1>4, <1>5, <1>6, <1>7, <1>8, <1>9, <1>11, <1>12

(***************************************************************************)
(* The chain, time, and the theorems.                                      *)
(***************************************************************************)

(* A mined transaction has taken effect or not. *)
LEMMA MinedKeeps ==
  ASSUME AttestInv, Mined
  PROVE  AttestInv'
<1> USE AttestationAssumption DEF AttestInv, Mined, daemonVars, cmdVars
<1>1. TypeOK'
  BY DEF TypeOK, Certs
<1>2. Bounded'
  BY DEF TypeOK, Bounded, Certs
<1>3. Alone => Alone'
  BY DEF Alone
<1>4. CallSound => CallSound'
  BY DEF CallSound
<1>5. CmdSound => CmdSound'
  BY DEF TypeOK, CmdSound, Certs, Configs
<1>6. NotBehind => NotBehind'
  BY DEF TypeOK, NotBehind, Certs, Configs
<1>7. NewestKept => NewestKept'
  BY DEF NewestKept
<1> QED BY <1>1, <1>2, <1>3, <1>4, <1>5, <1>6, <1>7

(* Only `due` changes, if anything. *)
LEMMA IdleKeeps ==
  ASSUME AttestInv, Age \/ UNCHANGED vars
  PROVE  AttestInv'
<1>1. UNCHANGED <<daemonVars, saving, file, cmdVars, issued, chainVars, known,
                  mishap>>
  BY DEF Age, vars
<1>2. due' \in Certs
  BY AttestationAssumption DEF AttestInv, TypeOK, Age, vars, Certs
<1> USE <1>1 DEF AttestInv, daemonVars, cmdVars, chainVars
<1>3. TypeOK' /\ Bounded'
  BY <1>2 DEF TypeOK, Bounded
<1>4. Alone <=> Alone'
  BY DEF Alone
<1>5. CallSound => CallSound'
  BY DEF CallSound
<1>6. CmdSound /\ NotBehind => CmdSound' /\ NotBehind'
  BY DEF CmdSound, NotBehind
<1>7. NewestKept => NewestKept'
  BY DEF NewestKept
<1> QED BY <1>3, <1>4, <1>5, <1>6, <1>7

(* `init` has written a file without a certificate, and nothing runs. *)
LEMMA AttestInitInv == Init => AttestInv
<1> SUFFICES ASSUME Init PROVE AttestInv
  OBVIOUS
<1> USE DEF Init
<1>1. 0 \in Certs /\ Fresh \in Configs /\ Fresh.cert = 0
  BY FreshTyped
<1>2. TypeOK
  <2>1. step \in [Callers -> Steps] /\ answer \in [Callers -> Certs]
    BY <1>1 DEF Steps
  <2>2. cmd \in Cmds /\ mishap \in Mishaps
    BY DEF Cmds, Mishaps, None
  <2>3. must \in BOOLEAN /\ added \in BOOLEAN /\ saving \in SUBSET {"daemon", "command"}
    OBVIOUS
  <2> QED BY <1>1, <2>1, <2>2, <2>3 DEF TypeOK
<1>3. Bounded
  BY <1>1 DEF Bounded
<1>4. Alone /\ CallSound /\ CmdSound
  BY DEF Alone, CallSound, CmdSound
<1>5. NotBehind /\ NewestKept
  BY <1>1 DEF NotBehind, NewestKept, Holding
<1> QED BY <1>2, <1>3, <1>4, <1>5 DEF AttestInv

(* Every step of the daemon, the commands and the chain keeps it. *)
LEMMA AttestStepKeeps == AttestInv /\ [Next]_vars => AttestInv'
<1> SUFFICES ASSUME AttestInv, [Next]_vars PROVE AttestInv'
  OBVIOUS
<1>1. ASSUME NEW expired \in BOOLEAN, Run(expired) PROVE AttestInv'
  BY <1>1, RunKeeps
<1>2. CASE WatchdogDue
  <2>1. "watchdog" \in Callers
    BY DEF Callers
  <2> QED BY <1>2, <2>1, BeginKeeps DEF WatchdogDue
<1>3. CASE NodeUnknown
  <2>1. "poller" \in Callers
    BY DEF Callers
  <2> QED BY <1>3, <2>1, BeginKeeps DEF NodeUnknown
<1>4. ASSUME NEW c \in Callers, CallStep(c) \/ Issue(c) \/ Failed(c)
      PROVE  AttestInv'
  <2>1. CASE Answered(c)
    BY <2>1, AnsweredKeeps
  <2>2. CASE Saved(c)
    BY <2>2, SavedKeeps
  <2>3. CASE Sent(c)
    BY <2>3, SentKeeps
  <2>4. CASE Finished(c)
    BY <2>4, ReturnedKeeps DEF Finished, AttestInv, TypeOK
  <2>5. CASE Issue(c)
    BY <2>5, IssueKeeps
  <2>6. CASE Failed(c)
    BY <2>6, ReturnedKeeps DEF Failed, AttestInv, TypeOK
  <2> QED BY <1>4, <2>1, <2>2, <2>3, <2>4, <2>5, <2>6 DEF CallStep
<1>5. CASE Die
  BY <1>5, DieKeeps
<1>6. ASSUME NEW kind \in {"attesting", "adding"}, Load(kind) PROVE AttestInv'
  BY <1>6, LoadKeeps
<1>7. CASE CmdCertified \/ CmdRegister
  BY <1>7, CmdCertifiedKeeps, CmdRegisterKeeps
<1>8. CASE AttestSaves \/ AddSaves
  BY <1>8, OpenKeeps
<1>9. CASE CmdSaved \/ CmdEnds
  BY <1>9, CmdSavedKeeps, CmdEndsKeeps
<1>10. CASE Mined
  BY <1>10, MinedKeeps
<1>11. CASE Age \/ UNCHANGED vars
  BY <1>11, IdleKeeps
<1> QED BY <1>1, <1>2, <1>3, <1>4, <1>5, <1>6, <1>7, <1>8, <1>9, <1>10, <1>11
        DEF Next, Refused

(* The invariant holds throughout. *)
THEOREM AttestInductive == Spec => []AttestInv
BY AttestInitInv, AttestStepKeeps, PTL DEF Spec

(* The state of daemon, commands, file and chain is well formed (TypeOK).  *)
THEOREM AttestTypeCorrect == Spec => []TypeOK
<1>1. AttestInv => TypeOK
  BY DEF AttestInv
<1> QED BY <1>1, AttestInductive, PTL

(* Without overlaps and deaths, config.json has the newest certificate     *)
(* whenever nothing is going on (node_loop.py 85-92, cli.py 533-552).      *)
THEOREM NewestSaved == Spec => []NewestIsSaved
<1>1. ASSUME AttestInv PROVE NewestIsSaved
  <2> SUFFICES ASSUME Quiet, mishap = None
               PROVE  Readable /\ file.cert = known
    BY DEF NewestIsSaved
  <2>1. NewestKept
    BY <1>1 DEF AttestInv
  <2> QED BY <2>1 DEF NewestKept, Holding, Quiet, Busy, Readable
<1> QED BY <1>1, AttestInductive, PTL

(* A configuration that can be loaded is not behind the chain, whatever    *)
(* died and when, unless attest ended between registering and saving.      *)
THEOREM KeepsUp == Spec => []RestartKeepsUp
<1>1. AttestInv => RestartKeepsUp
  BY DEF AttestInv, NotBehind, RestartKeepsUp, Readable
<1> QED BY <1>1, AttestInductive, PTL
===============================================================================
