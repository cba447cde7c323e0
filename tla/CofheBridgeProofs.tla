--------------------------- MODULE CofheBridgeProofs --------------------------
(***************************************************************************)
(* For any number of jobs, calls and stray lines, and any stderr: a call   *)
(* gets the answer that as many calls ago as stray lines were read asked   *)
(* for, and nothing piles up in the bridge but for those lines.            *)
(*                                                                         *)
(* The requests of one process have consecutive numbers.  The argument is  *)
(* that they stay in that order on their way through stdin, the bridge and *)
(* stdout, with none missing: at any time they are an interval, of which   *)
(* each pipe holds a part.                                                 *)
(***************************************************************************)
EXTENDS CofheBridge, FiniteSetTheorems, FunctionTheorems, TLAPS

Busy   == IF bridge = "idle" THEN 0 ELSE 1
InCall == IF loop = Free THEN 0 ELSE 1

(* The newest request whose answer was read, had all calls been in step,   *)
(* and the newest one that the bridge has answered.                        *)
Read     == counter - missed - InCall
Answered == counter - Len(stdin) - Busy

(***************************************************************************)
(* The invariant.                                                          *)
(***************************************************************************)

(* The bridge works on a request.                                          *)
ServesOne == bridge # "idle" => serving \in Ids

(* stdin holds the requests the bridge has not taken, in order. *)
StdinInOrder == \A i \in 1..Len(stdin) : stdin[i] = counter - Len(stdin) + i

ServingNext == bridge # "idle" => serving = counter - Len(stdin)

(* stdout holds each answer that was not read, in order, once. *)
StdoutBounded ==
  \A i \in 1..Len(stdout) :
    stdout[i] # Stray => Read < stdout[i] /\ stdout[i] <= Answered

StdoutIncreasing ==
  \A i, k \in 1..Len(stdout) :
    i < k /\ stdout[i] # Stray /\ stdout[k] # Stray => stdout[i] < stdout[k]

StdoutComplete ==
  \A a \in Ids : Read < a /\ a <= Answered
    => \E i \in 1..Len(stdout) : stdout[i] = a

InOrder ==
  /\ Read <= Answered
  /\ 0 <= Read
  /\ StdinInOrder
  /\ ServingNext
  /\ StdoutBounded
  /\ StdoutIncreasing
  /\ StdoutComplete

(* The last answer came to an earlier call, or to this one. *)
LastBefore ==
  /\ last.call <= counter
  /\ loop # Free => last.call < counter
  /\ loop = Free /\ last.call = counter /\ last.call # 0
       => last.answer = last.call - missed

(* The order is lost with the process, when no call is left to see it.     *)
BridgeInv ==
  /\ BridgeTypeOK
  /\ ServesOne
  /\ proc = "alive" \/ loop # Free => InOrder
  /\ LastBefore

(***************************************************************************)
(* The client's steps.                                                     *)
(***************************************************************************)

(* A new process has the call's request in its stdin and nothing else.     *)
LEMMA SpawnKeeps ==
  ASSUME BridgeInv, NEW j \in Callers, Call(j), CallSpawning(j)
  PROVE  BridgeInv'
<1> USE BridgeAssumption DEF BridgeInv, Call, CallSpawning
<1>1. BridgeTypeOK'
  BY DEF BridgeTypeOK, Ids
<1>2. /\ loop' # Free /\ counter' = counter + 1 /\ counter \in Nat
      /\ Len(stdin') = 1 /\ stdin'[1] = counter + 1 /\ Len(stdout') = 0
  BY DEF BridgeTypeOK
<1>3. Read' = counter /\ Answered' = counter
  BY <1>2 DEF Read, Answered, Busy, InCall
<1>4. StdinInOrder' /\ ServingNext' /\ ServesOne'
  BY <1>2 DEF StdinInOrder, ServingNext, ServesOne
<1>5. StdoutBounded' /\ StdoutIncreasing'
  BY <1>2 DEF StdoutBounded, StdoutIncreasing
<1>6. StdoutComplete'
  BY <1>2, <1>3 DEF StdoutComplete, Ids
<1>7. InOrder'
  BY <1>2, <1>3, <1>4, <1>5, <1>6 DEF InOrder
<1>8. LastBefore'
  BY <1>2 DEF LastBefore, BridgeTypeOK
<1> QED BY <1>1, <1>4, <1>7, <1>8

(* A running process gets the request behind those it has. *)
LEMMA AliveKeeps ==
  ASSUME BridgeInv, NEW j \in Callers, Call(j), CallAlive(j)
  PROVE  BridgeInv'
<1> USE BridgeAssumption DEF BridgeInv, Call, CallAlive
<1>1. BridgeTypeOK'
  BY DEF BridgeTypeOK, Ids
<1>2. /\ loop = Free /\ loop' # Free /\ counter' = counter + 1
      /\ counter \in Nat /\ missed \in Nat /\ Len(stdin) \in Nat
      /\ Len(stdin') = Len(stdin) + 1 /\ stdin'[Len(stdin) + 1] = counter + 1
      /\ \A i \in 1..Len(stdin) : stdin'[i] = stdin[i]
  BY DEF BridgeTypeOK
<1>3. Read' = Read /\ Answered' = Answered
  BY <1>2 DEF Read, Answered, Busy, InCall, BridgeTypeOK
<1>4. InOrder
  OBVIOUS
<1>5. StdinInOrder'
  BY <1>2, <1>4 DEF StdinInOrder, InOrder
<1>6. ServingNext' /\ ServesOne'
  BY <1>2, <1>4 DEF ServingNext, InOrder, ServesOne
<1>7. StdoutBounded' /\ StdoutIncreasing' /\ StdoutComplete'
  BY <1>3, <1>4 DEF InOrder, StdoutBounded, StdoutIncreasing, StdoutComplete
<1>8. InOrder'
  BY <1>3, <1>4, <1>5, <1>6, <1>7 DEF InOrder
<1>9. LastBefore'
  BY <1>2 DEF LastBefore, BridgeTypeOK
<1> QED BY <1>1, <1>6, <1>8, <1>9

(* A call that cannot write leaves the process as it is. *)
LEMMA DyingKeeps ==
  ASSUME BridgeInv, NEW j \in Callers, Call(j), CallDying
  PROVE  BridgeInv'
<1> USE BridgeAssumption DEF BridgeInv, Call, CallDying, processVars
<1>1. BridgeTypeOK' /\ ServesOne'
  BY DEF BridgeTypeOK, ServesOne, Ids
<1>2. LastBefore'
  BY DEF LastBefore, BridgeTypeOK
<1> QED BY <1>1, <1>2

(* The first answer in stdout is the next one to be read. *)
LEMMA HeadIsNext ==
  ASSUME BridgeInv, loop # Free, stdout # <<>>, Head(stdout) # Stray
  PROVE  Head(stdout) = Read + 1 /\ Read + 1 \in Ids
<1>1. /\ stdout \in Seq(Ids \union {Stray}) /\ 1 \in 1..Len(stdout)
      /\ Head(stdout) = stdout[1] /\ stdout[1] \in Ids
      /\ \A i \in 1..Len(stdout) : stdout[i] \in Ids \union {Stray}
  BY DEF BridgeInv, BridgeTypeOK
<1>2. InOrder /\ Read \in Int /\ Answered \in Int
  BY DEF BridgeInv, BridgeTypeOK, Read, Answered, Busy, InCall
<1>3. Read < stdout[1] /\ stdout[1] <= Answered
  BY <1>1, <1>2 DEF InOrder, StdoutBounded
<1>4. Read + 1 \in Ids /\ Read + 1 <= Answered
  BY <1>1, <1>2, <1>3, BridgeAssumption DEF InOrder, Ids
<1>5. PICK i \in 1..Len(stdout) : stdout[i] = Read + 1
  BY <1>2, <1>4 DEF InOrder, StdoutComplete
<1>6. ~(1 < i)
  <2> SUFFICES ASSUME 1 < i PROVE FALSE
    OBVIOUS
  <2>1. stdout[i] # Stray
    BY <1>4, <1>5 DEF Ids, Stray
  <2>2. stdout[1] < stdout[i]
    BY <1>1, <1>2, <2>1 DEF InOrder, StdoutIncreasing
  <2> QED BY <1>1, <1>2, <1>3, <1>5, <2>2 DEF Ids
<1> QED BY <1>1, <1>4, <1>5, <1>6

(* Reading a line takes it out of the order: the next answer, or a stray   *)
(* line for which the call goes without.                                   *)
LEMMA ReadLineKeeps ==
  ASSUME BridgeInv, ReadLine
  PROVE  BridgeInv'
<1> USE DEF ReadLine
<1>1. /\ stdout \in Seq(Ids \union {Stray}) /\ Len(stdout) \in Nat /\ Len(stdout) > 0
      /\ Head(stdout) = stdout[1] /\ Head(stdout) \in Ids \union {Stray}
      /\ stdout' \in Seq(Ids \union {Stray})
      /\ Len(stdout') = Len(stdout) - 1
      /\ \A i \in 1..Len(stdout') : stdout'[i] = stdout[i + 1]
  BY DEF BridgeInv, BridgeTypeOK
<1>2. /\ counter \in Nat /\ missed \in Nat /\ Len(stdin) \in Nat
      /\ loop # Free /\ loop' = Free
      /\ UNCHANGED <<counter, bridge, serving, stdin>>
  BY DEF BridgeInv, BridgeTypeOK
<1>3. BridgeTypeOK'
  BY <1>1 DEF BridgeInv, BridgeTypeOK, Ids
<1>4. Answered' = Answered /\ Read \in Int /\ Answered \in Int
  BY <1>2 DEF Answered, Read, Busy, InCall
<1>5. Read' = IF Head(stdout) = Stray THEN Read ELSE Read + 1
  BY <1>2 DEF Read, InCall
<1>6. InOrder
  BY DEF BridgeInv
<1>7. \A i \in 1..Len(stdout') : stdout'[i] # Stray
        => Read' < stdout'[i] /\ stdout'[i] <= Answered
  <2> SUFFICES ASSUME NEW i \in 1..Len(stdout'), stdout'[i] # Stray
               PROVE  Read' < stdout'[i] /\ stdout'[i] <= Answered
    OBVIOUS
  <2>1. i + 1 \in 1..Len(stdout) /\ 1 \in 1..Len(stdout) /\ stdout'[i] = stdout[i + 1]
        /\ stdout[i + 1] \in Ids
    BY <1>1
  <2>2. Read < stdout[i + 1] /\ stdout[i + 1] <= Answered
    BY <1>6, <2>1 DEF InOrder, StdoutBounded
  <2>3. CASE Head(stdout) = Stray
    BY <1>5, <2>1, <2>2, <2>3
  <2>4. CASE Head(stdout) # Stray
    <3>1. stdout[1] < stdout[i + 1]
      BY <1>1, <1>6, <2>1, <2>4 DEF InOrder, StdoutIncreasing
    <3>2. stdout[1] = Read + 1
      BY <1>1, <2>4, HeadIsNext
    <3> QED BY <1>4, <1>5, <2>1, <2>2, <2>4, <3>1, <3>2 DEF Ids
  <2> QED BY <2>3, <2>4
<1>8. StdoutIncreasing'
  BY <1>1, <1>6 DEF InOrder, StdoutIncreasing
<1>9. \A a \in Ids : Read' < a /\ a <= Answered
        => \E i \in 1..Len(stdout') : stdout'[i] = a
  <2> SUFFICES ASSUME NEW a \in Ids, Read' < a, a <= Answered
               PROVE  \E i \in 1..Len(stdout') : stdout'[i] = a
    OBVIOUS
  <2>1. Read < a
    BY <1>4, <1>5 DEF Ids
  <2>2. PICK i \in 1..Len(stdout) : stdout[i] = a
    BY <1>6, <2>1 DEF InOrder, StdoutComplete
  <2>3. i # 1
    BY <1>1, <1>2, <1>4, <1>5, <2>2, HeadIsNext DEF Ids, Stray
  <2>4. i - 1 \in 1..Len(stdout') /\ stdout'[i - 1] = a
    BY <1>1, <2>2, <2>3
  <2> QED BY <2>4
<1>10. Read' <= Answered /\ 0 <= Read'
  BY <1>1, <1>2, <1>4, <1>5, <1>6, HeadIsNext DEF InOrder, StdoutBounded, Ids
<1>11. InOrder'
  <2>1. StdoutBounded'
    BY <1>4, <1>7 DEF StdoutBounded
  <2>2. StdoutComplete'
    BY <1>4, <1>9 DEF StdoutComplete
  <2>3. StdinInOrder' /\ ServingNext'
    BY <1>2, <1>6 DEF InOrder, StdinInOrder, ServingNext
  <2> QED BY <1>4, <1>8, <1>10, <2>1, <2>2, <2>3 DEF InOrder
<1>12. LastBefore'
  <2>1. CASE Head(stdout) = Stray
    BY <1>2, <2>1 DEF BridgeInv, BridgeTypeOK, LastBefore
  <2>2. CASE Head(stdout) # Stray
    BY <1>2, <2>2, HeadIsNext DEF LastBefore, Read, InCall
  <2> QED BY <2>1, <2>2
<1>13. ServesOne'
  BY <1>2 DEF BridgeInv, ServesOne
<1> QED BY <1>3, <1>11, <1>12, <1>13 DEF BridgeInv

(* End of file ends the call, and the order with it. *)
LEMMA ReadEofKeeps ==
  ASSUME BridgeInv, ReadEof
  PROVE  BridgeInv'
<1> USE DEF BridgeInv, ReadEof, processVars
<1>1. BridgeTypeOK' /\ ServesOne'
  BY DEF BridgeTypeOK, ServesOne, Ids
<1>2. LastBefore'
  BY DEF LastBefore, BridgeTypeOK
<1>3. ~(proc' = "alive" \/ loop' # Free)
  OBVIOUS
<1> QED BY <1>1, <1>2, <1>3

(***************************************************************************)
(* The bridge's steps.                                                     *)
(***************************************************************************)

(* The bridge takes the oldest request. *)
LEMMA TakeKeeps ==
  ASSUME BridgeInv, TakeLine
  PROVE  BridgeInv'
<1> USE DEF TakeLine, clientVars
<1>1. /\ stdin \in Seq(Ids) /\ Len(stdin) \in Nat /\ Len(stdin) > 0
      /\ Head(stdin) = stdin[1] /\ stdin[1] \in Ids /\ stdin' \in Seq(Ids)
      /\ Len(stdin') = Len(stdin) - 1
      /\ \A i \in 1..Len(stdin') : stdin'[i] = stdin[i + 1]
  BY DEF BridgeInv, BridgeTypeOK
<1>2. counter \in Nat /\ missed \in Nat
  BY DEF BridgeInv, BridgeTypeOK
<1>3. BridgeTypeOK' /\ ServesOne'
  BY <1>1 DEF BridgeInv, BridgeTypeOK, ServesOne, Ids
<1>4. Read' = Read /\ Answered' = Answered
  BY <1>1, <1>2 DEF Read, Answered, Busy, InCall
<1>5. InOrder
  BY DEF BridgeInv
<1>6. StdinInOrder'
  BY <1>1, <1>2, <1>5 DEF InOrder, StdinInOrder
<1>7. ServingNext'
  BY <1>1, <1>2, <1>5 DEF InOrder, StdinInOrder, ServingNext
<1>8. InOrder'
  BY <1>4, <1>5, <1>6, <1>7
     DEF InOrder, StdoutBounded, StdoutIncreasing, StdoutComplete
<1>9. LastBefore'
  BY DEF BridgeInv, LastBefore
<1> QED BY <1>3, <1>8, <1>9 DEF BridgeInv

(* Its answer is the newest in stdout. *)
LEMMA RespondKeeps ==
  ASSUME BridgeInv, proc = "alive", bridge # "idle", Respond,
         stderr' \in 0..StderrRoom
  PROVE  BridgeInv'
<1> USE DEF Respond, clientVars
<1> DEFINE l == Len(stdout)
<1>1. /\ stdout \in Seq(Ids \union {Stray}) /\ l \in Nat
      /\ serving \in Ids /\ serving \in Nat /\ serving # Stray
      /\ stdout' \in Seq(Ids \union {Stray})
      /\ Len(stdout') = l + 1 /\ stdout'[l + 1] = serving
      /\ \A i \in 1..l : /\ stdout'[i] = stdout[i]
                         /\ stdout[i] \in Ids \union {Stray}
                         /\ stdout[i] \in Nat
  BY DEF BridgeInv, BridgeTypeOK, ServesOne, Ids, Stray
<1>2. counter \in Nat /\ missed \in Nat /\ Len(stdin) \in Nat
  BY DEF BridgeInv, BridgeTypeOK
<1>3. BridgeTypeOK' /\ ServesOne'
  BY <1>1, BridgeAssumption DEF BridgeInv, BridgeTypeOK, ServesOne, Ids
<1>4. InOrder
  BY DEF BridgeInv
<1>5. /\ Read' = Read /\ Answered' = Answered + 1 /\ serving = Answered + 1
      /\ Read \in Int /\ Answered \in Int
  BY <1>2, <1>4 DEF InOrder, ServingNext, Read, Answered, Busy, InCall
<1> HIDE DEF l
<1>6. StdoutBounded'
  <2> SUFFICES ASSUME NEW i \in 1..(l + 1), stdout'[i] # Stray
               PROVE  Read < stdout'[i] /\ stdout'[i] <= Answered + 1
    BY <1>1, <1>5 DEF StdoutBounded
  <2>1. CASE i = l + 1
    BY <1>1, <1>4, <1>5, <2>1 DEF InOrder
  <2>2. CASE i \in 1..l
    BY <1>1, <1>4, <1>5, <2>2 DEF InOrder, StdoutBounded, l
  <2> QED BY <1>1, <2>1, <2>2
<1>7. StdoutIncreasing'
  <2> SUFFICES ASSUME NEW i \in 1..(l + 1), NEW k \in 1..(l + 1), i < k,
                      stdout'[i] # Stray, stdout'[k] # Stray
               PROVE  stdout'[i] < stdout'[k]
    BY <1>1 DEF StdoutIncreasing
  <2>1. i \in 1..l /\ stdout'[i] = stdout[i]
    BY <1>1
  <2>2. CASE k = l + 1
    <3>1. stdout[i] <= Answered
      BY <1>4, <2>1 DEF InOrder, StdoutBounded, l
    <3> QED BY <1>1, <1>5, <2>1, <2>2, <3>1
  <2>3. CASE k \in 1..l
    BY <1>1, <1>4, <2>1, <2>3 DEF InOrder, StdoutIncreasing, l
  <2> QED BY <1>1, <2>2, <2>3
<1>8. StdoutComplete'
  <2> SUFFICES ASSUME NEW a \in Ids, Read < a, a <= Answered + 1
               PROVE  \E i \in 1..(l + 1) : stdout'[i] = a
    BY <1>1, <1>5 DEF StdoutComplete
  <2>1. CASE a = Answered + 1
    BY <1>1, <1>5, <2>1
  <2>2. CASE a <= Answered
    <3>1. PICK i \in 1..l : stdout[i] = a
      BY <1>4, <2>2 DEF InOrder, StdoutComplete, l
    <3> QED BY <1>1, <3>1
  <2>3. a = Answered + 1 \/ a <= Answered
    BY <1>5, BridgeAssumption DEF Ids
  <2> QED BY <2>1, <2>2, <2>3
<1>9. StdinInOrder' /\ ServingNext'
  BY <1>4 DEF InOrder, StdinInOrder, ServingNext
<1>10. Read' <= Answered' /\ 0 <= Read'
  BY <1>4, <1>5 DEF InOrder
<1>11. InOrder'
  BY <1>6, <1>7, <1>8, <1>9, <1>10 DEF InOrder
<1>12. LastBefore'
  BY DEF BridgeInv, LastBefore
<1> QED BY <1>3, <1>11, <1>12 DEF BridgeInv
(* A stray line goes between the answers. *)
LEMMA PrintStrayKeeps ==
  ASSUME BridgeInv, PrintStray
  PROVE  BridgeInv'
<1> USE DEF PrintStray, clientVars
<1> DEFINE l == Len(stdout)
<1>1. /\ stdout \in Seq(Ids \union {Stray}) /\ l \in Nat
      /\ stdout' \in Seq(Ids \union {Stray})
      /\ Len(stdout') = l + 1 /\ stdout'[l + 1] = Stray
      /\ \A i \in 1..l : stdout'[i] = stdout[i]
  BY DEF BridgeInv, BridgeTypeOK
<1>2. BridgeTypeOK' /\ ServesOne'
  BY <1>1, BridgeAssumption DEF BridgeInv, BridgeTypeOK, ServesOne
<1>3. InOrder /\ Read' = Read /\ Answered' = Answered
  BY DEF BridgeInv, Read, Answered, Busy, InCall
<1> HIDE DEF l
<1>4. \A i \in 1..Len(stdout') : stdout'[i] # Stray
        => i \in 1..l /\ stdout'[i] = stdout[i]
  BY <1>1
<1>5. StdoutBounded' /\ StdoutIncreasing'
  BY <1>3, <1>4 DEF InOrder, StdoutBounded, StdoutIncreasing, l
<1>6. StdoutComplete'
  <2> SUFFICES ASSUME NEW a \in Ids, Read < a, a <= Answered
               PROVE  \E i \in 1..Len(stdout') : stdout'[i] = a
    BY <1>3 DEF StdoutComplete
  <2>1. PICK i \in 1..l : stdout[i] = a
    BY <1>3 DEF InOrder, StdoutComplete, l
  <2> QED BY <1>1, <2>1
<1>7. StdinInOrder' /\ ServingNext'
  BY <1>3 DEF InOrder, StdinInOrder, ServingNext
<1>8. InOrder'
  BY <1>3, <1>5, <1>6, <1>7 DEF InOrder
<1>9. LastBefore'
  BY DEF BridgeInv, LastBefore
<1> QED BY <1>2, <1>8, <1>9 DEF BridgeInv

(* The other steps move no line. *)
LEMMA QuietKeeps ==
  ASSUME BridgeInv,
         UNCHANGED <<loop, counter, missed, last, serving, stdin, stdout, stderr,
                     strays>>,
         job' \in [Callers -> {"running", "over"}],
         \/ proc' = proc /\ bridge' = bridge
         \/ bridge' = bridge /\ proc' \in {"dying", "dead"}
         \/ proc' = proc /\ bridge = "working" /\ bridge' = "reporting"
  PROVE  BridgeInv'
<1>1. BridgeTypeOK' /\ ServesOne'
  BY DEF BridgeInv, BridgeTypeOK, ServesOne
<1>2. Read' = Read /\ Answered' = Answered
  BY DEF Read, Answered, Busy, InCall
<1>3. InOrder => InOrder'
  BY <1>2
     DEF InOrder, StdinInOrder, ServingNext, StdoutBounded, StdoutIncreasing,
         StdoutComplete
<1>4. proc' = "alive" \/ loop' # Free => proc = "alive" \/ loop # Free
  OBVIOUS
<1>5. LastBefore'
  BY DEF BridgeInv, LastBefore
<1> QED BY <1>1, <1>3, <1>4, <1>5 DEF BridgeInv

(***************************************************************************)
(* Theorems.                                                               *)
(***************************************************************************)

(* Before the first call there is no process. *)
LEMMA BridgeInitInv == BridgeInit => BridgeInv
BY BridgeAssumption
   DEF BridgeInit, BridgeInv, BridgeTypeOK, Ids, ServesOne, LastBefore

(* Every step of the client and of the bridge keeps the invariant. *)
LEMMA BridgeStepKeeps == BridgeInv /\ [BridgeNext]_bridgeVars => BridgeInv'
<1> SUFFICES ASSUME BridgeInv, [BridgeNext]_bridgeVars PROVE BridgeInv'
  OBVIOUS
<1>1. ASSUME NEW j \in Callers, Call(j) PROVE BridgeInv'
  BY <1>1, SpawnKeeps, AliveKeeps, DyingKeeps DEF Call
<1>2. ASSUME NEW j \in Callers, JobOver(j) PROVE BridgeInv'
  <2>1. job' \in [Callers -> {"running", "over"}]
    BY <1>2 DEF JobOver, BridgeInv, BridgeTypeOK
  <2> QED BY <1>2, <2>1, QuietKeeps DEF JobOver, clientVars, processVars
<1>3. CASE ReadLine
  BY <1>3, ReadLineKeeps
<1>4. CASE ReadEof
  BY <1>4, ReadEofKeeps
<1>5. CASE TakeLine
  BY <1>5, TakeKeeps
<1>6. CASE Finish
  BY <1>6, RespondKeeps DEF Finish, BridgeInv, BridgeTypeOK
<1>7. CASE ReportError
  <2>1. stderr' \in 0..StderrRoom
    BY <1>7, BridgeAssumption DEF ReportError, BridgeInv, BridgeTypeOK
  <2> QED BY <1>7, <2>1, RespondKeeps DEF ReportError
<1>8. CASE Fail
  BY <1>8, QuietKeeps DEF Fail, clientVars, BridgeInv, BridgeTypeOK
<1>9. CASE PrintStray
  BY <1>9, PrintStrayKeeps
<1>10. CASE Die \/ Exit
  BY <1>10, QuietKeeps DEF Die, Exit, clientVars, processVars, BridgeInv, BridgeTypeOK
<1>11. CASE UNCHANGED bridgeVars
  BY <1>11, QuietKeeps DEF bridgeVars, clientVars, processVars, BridgeInv, BridgeTypeOK
<1> QED BY <1>1, <1>2, <1>3, <1>4, <1>5, <1>6, <1>7, <1>8, <1>9, <1>10, <1>11
        DEF BridgeNext, BridgeStep, AllOver

(* The invariant holds throughout. *)
THEOREM BridgeInductive == BridgeSpec => []BridgeInv
BY BridgeInitInv, BridgeStepKeeps, PTL DEF BridgeSpec

(* The client's and the bridge's state is well formed (BridgeTypeOK). *)
THEOREM BridgeTypeCorrect == BridgeSpec => []BridgeTypeOK
<1>1. BridgeInv => BridgeTypeOK
  BY DEF BridgeInv
<1> QED BY <1>1, BridgeInductive, PTL

(* A call that read an answer read its own, or the one as many calls back  *)
(* as stray lines were read (crypto.py: the first line is the answer).     *)
THEOREM AnswersInStep == BridgeSpec => []AnswerLagsByStrays
<1>1. BridgeInv => AnswerLagsByStrays
  BY DEF BridgeInv, LastBefore, AnswerLagsByStrays
<1> QED BY <1>1, BridgeInductive, PTL

(* In order, the answers in stdout are as many as the numbers they cover.  *)
LEMMA AnswersCounted ==
  ASSUME BridgeInv, InOrder
  PROVE  Cardinality(Answers) = Answered - Read
<1>1. Read \in Int /\ Answered \in Int /\ Read <= Answered /\ 0 <= Read
  BY DEF BridgeInv, InOrder, BridgeTypeOK, Read, Answered, Busy, InCall
<1>2. Answered <= MaxCalls
  BY BridgeAssumption DEF BridgeInv, BridgeTypeOK, Answered, Busy
<1> DEFINE S == (Read + 1)..Answered
           f == [i \in Answers |-> stdout[i]]
<1>3. \A i \in Answers : stdout[i] \in S
  <2> SUFFICES ASSUME NEW i \in 1..Len(stdout), stdout[i] # Stray
               PROVE  stdout[i] \in S
    BY DEF Answers
  <2>1. stdout[i] \in Ids
    BY DEF BridgeInv, BridgeTypeOK
  <2>2. Read < stdout[i] /\ stdout[i] <= Answered
    BY DEF InOrder, StdoutBounded
  <2> QED BY <1>1, <2>1, <2>2, BridgeAssumption DEF Ids
<1>4. f \in [Answers -> S]
  BY <1>3
<1>5. \A a \in S : \E i \in Answers : f[i] = a
  <2> SUFFICES ASSUME NEW a \in S PROVE \E i \in Answers : stdout[i] = a
    OBVIOUS
  <2>1. a \in Ids /\ Read < a /\ a <= Answered /\ a # Stray
    BY <1>1, <1>2, BridgeAssumption DEF Ids, Stray
  <2>2. PICK i \in 1..Len(stdout) : stdout[i] = a
    BY <2>1 DEF InOrder, StdoutComplete
  <2> QED BY <2>1, <2>2 DEF Answers
<1>6. \A i, k \in Answers : f[i] = f[k] => i = k
  <2> SUFFICES ASSUME NEW i \in Answers, NEW k \in Answers, stdout[i] = stdout[k]
               PROVE  i = k
    OBVIOUS
  <2>1. /\ i < k => stdout[i] < stdout[k]
        /\ k < i => stdout[k] < stdout[i]
    BY DEF InOrder, StdoutIncreasing, Answers
  <2>2. i \in Int /\ k \in Int /\ stdout[i] \in Int /\ stdout[k] \in Int
    BY <1>1, <1>3 DEF Answers
  <2> QED BY <2>1, <2>2
<1>7. IsFiniteSet(S) /\ Cardinality(S) = Answered - Read
  <2>1. Read + 1 \in Int /\ Answered - (Read + 1) + 1 = Answered - Read
    BY <1>1
  <2>2. /\ IsFiniteSet(S)
        /\ Cardinality(S) = IF Read + 1 > Answered THEN 0
                            ELSE Answered - (Read + 1) + 1
    BY <1>1, <2>1, FS_Interval
  <2> QED BY <1>1, <2>1, <2>2
<1>8. f \in Injection(Answers, S) /\ f \in Surjection(Answers, S)
  <2> HIDE DEF f, S
  <2>1. f \in Injection(Answers, S)
    BY <1>4, <1>6, Fun_IsInj
  <2>2. f \in Surjection(Answers, S)
    BY <1>4, <1>5, Fun_IsSurj
  <2> QED BY <2>1, <2>2
<1> HIDE DEF f, S
<1> QED BY <1>7, <1>8, FS_Injection

(* While the process runs, what it has yet to answer and what is answered  *)
(* but unread is the current call, and one more per stray line read.       *)
THEOREM NothingPilesUp == BridgeSpec => []NoPileUp
<1>1. ASSUME BridgeInv PROVE NoPileUp
  <2> SUFFICES ASSUME proc = "alive"
               PROVE  Outstanding = missed + InCall
    BY DEF NoPileUp, InCall
  <2>1. Cardinality(Answers) = Answered - Read
    BY <1>1, AnswersCounted DEF BridgeInv
  <2>2. counter \in Nat /\ missed \in Nat /\ Len(stdin) \in Nat
    BY <1>1 DEF BridgeInv, BridgeTypeOK
  <2>3. Busy \in Int /\ InCall \in Int
    BY DEF Busy, InCall
  <2>4. Outstanding = Len(stdin) + Busy + Cardinality(Answers)
    BY DEF Outstanding, Busy
  <2> QED BY <2>1, <2>2, <2>3, <2>4 DEF Answered, Read
<1> QED BY <1>1, BridgeInductive, PTL

(* A process there never was cannot be waited for. *)
CallHasProcess == loop # Free => proc # "none"

(* A call spawns its process first, and no step leads back to none. *)
LEMMA ProcessThere == BridgeSpec => []CallHasProcess
<1>1. BridgeInit => CallHasProcess
  BY DEF BridgeInit, CallHasProcess
<1>2. CallHasProcess /\ [BridgeNext]_bridgeVars => CallHasProcess'
  <2> SUFFICES ASSUME CallHasProcess, [BridgeNext]_bridgeVars
               PROVE  CallHasProcess'
    OBVIOUS
  <2>1. ASSUME NEW j \in Callers, Call(j)
        PROVE  CallHasProcess'
    BY <2>1 DEF CallHasProcess, Call, CallSpawning, CallAlive, CallDying
  <2>2. ASSUME NEW j \in Callers, JobOver(j)
        PROVE  CallHasProcess'
    BY <2>2 DEF CallHasProcess, JobOver, clientVars
  <2>3. CASE ReadLine \/ ReadEof
    BY <2>3 DEF CallHasProcess, ReadLine, ReadEof
  <2>4. CASE BridgeStep \/ PrintStray \/ Die
    BY <2>4 DEF CallHasProcess, BridgeStep, TakeLine, Finish, Fail, ReportError, Respond, Exit,
                PrintStray, Die, clientVars
  <2>5. CASE AllOver \/ UNCHANGED bridgeVars
    BY <2>5 DEF CallHasProcess, AllOver, bridgeVars, clientVars
  <2>6. QED
    BY <2>1, <2>2, <2>3, <2>4, <2>5 DEF BridgeNext
<1>3. QED
  BY <1>1, <1>2, PTL DEF BridgeSpec

(* The client can go on with a line or with the end of the file, the       *)
(* bridge with its command; it cannot while its trace finds no room.       *)
CanRead == stdout # <<>> \/ proc \in {"dying", "dead"}

CanServe ==
  /\ proc = "alive"
  /\ \/ bridge = "idle" /\ stdin # <<>>
     \/ bridge = "working"
     \/ bridge = "reporting" /\ stderr < StderrRoom

StderrFull == proc = "alive" /\ bridge = "reporting" /\ stderr = StderrRoom

BlockedByStderr == loop # Free => CanRead \/ CanServe \/ StderrFull

(* A call that holds the event loop is never left without somebody to go   *)
(* on, but for one case: the bridge waits for room in a stderr nobody      *)
(* reads (crypto.py 379-429, cofhe_bridge.mjs 287).  No answer gets lost   *)
(* on its way, and no request is overlooked, whatever stray lines, deaths  *)
(* and failed commands there were: what CallReturns rests on.              *)
THEOREM OnlyStderrBlocks == BridgeSpec => []BlockedByStderr
<1>1. BridgeInv /\ CallHasProcess => BlockedByStderr
  <2> SUFFICES ASSUME BridgeInv, loop # Free, proc = "alive", stdout = <<>>
               PROVE  CanServe \/ StderrFull
    BY DEF BridgeInv, BridgeTypeOK, CallHasProcess, BlockedByStderr, CanRead
  <2>1. CASE bridge = "working"
    BY <2>1 DEF CanServe
  <2>2. CASE bridge = "reporting"
    BY <2>2, BridgeAssumption DEF BridgeInv, BridgeTypeOK, CanServe, StderrFull
  <2>3. CASE bridge = "idle"
    <3>1. InOrder
      BY DEF BridgeInv
    <3>2. SUFFICES ASSUME stdin = <<>>
                   PROVE  FALSE
      BY <2>3 DEF CanServe
    <3>3. /\ counter \in 0..MaxCalls /\ missed \in Nat
          /\ Len(stdin) = 0 /\ Len(stdout) = 0
      BY <3>2 DEF BridgeInv, BridgeTypeOK
    <3>4. Read = counter - missed - 1 /\ Answered = counter
      BY <2>3, <3>3 DEF Read, Answered, Busy, InCall
    <3>5. 0 <= Read
      BY <3>1 DEF InOrder
    <3>6. counter \in Ids /\ Read < counter /\ counter <= Answered
      BY <3>3, <3>4, <3>5, BridgeAssumption DEF Ids
    <3>7. \E i \in 1..Len(stdout) : stdout[i] = counter
      BY <3>1, <3>6 DEF InOrder, StdoutComplete
    <3>8. QED
      BY <3>3, <3>7
  <2>4. QED
    BY <2>1, <2>2, <2>3 DEF BridgeInv, BridgeTypeOK
<1>2. QED
  BY <1>1, BridgeInductive, ProcessThere, PTL
===============================================================================
