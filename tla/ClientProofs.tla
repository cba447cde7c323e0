------------------------------ MODULE ClientProofs ------------------------------
(***************************************************************************)
(* The clients of the ICL, of IPFS and of the CoFHE service, and the loop  *)
(* of heartbeats: what their times guarantee, for every bound; and the     *)
(* registry of models: who answers, for every sequence of registrations.   *)
(***************************************************************************)
EXTENDS IclRequests, IpfsClient, CofhePermit, Heartbeat, ModelRegistry,
        FiniteSetTheorems, FunctionTheorems, SequenceTheorems, WellFoundedInduction, TLAPS

(***************************************************************************)
(* ICLClient._request                                                      *)
(***************************************************************************)

(* While an attempt is out its signature is as old as the attempt, and no  *)
(* attempt of the same number was made before.                             *)
RequestInv ==
  /\ RequestTypeOK
  /\ request = "new" => attempt = 0 /\ flying = {} /\ taken = {}
  /\ request = "sending" => /\ stamp = since
                            /\ \A a \in flying \union taken : a <= attempt
  /\ request = "pausing" => \A a \in flying \union taken : a < attempt

(* Every step of a request keeps it. *)
LEMMA RequestNextInv == RequestInv /\ [RequestNext]_requestVars => RequestInv'
<1> SUFFICES ASSUME RequestInv, [RequestNext]_requestVars
             PROVE  RequestInv'
  OBVIOUS
<1> USE RequestAssumption DEF RequestInv, RequestTypeOK
<1>1. CASE Attempt
  BY <1>1 DEF Attempt, Signed
<1>2. ASSUME NEW a \in flying, Take(a)
      PROVE  RequestInv'
  BY <1>2 DEF Take
<1>3. CASE Responded
  BY <1>3 DEF Responded
<1>4. CASE Disconnected
  BY <1>4 DEF Disconnected, MayRetry
<1>5. CASE Escaped
  BY <1>5 DEF Escaped
<1>6. CASE Second
  BY <1>6 DEF Second
<1>7. CASE UNCHANGED requestVars
  BY <1>7 DEF requestVars
<1> HIDE RequestAssumption DEF RequestInv, RequestTypeOK
<1>8. QED
  BY <1>1, <1>2, <1>3, <1>4, <1>5, <1>6, <1>7 DEF RequestNext

(* The inductive invariant of a request. *)
THEOREM RequestInductive == RequestSpec => []RequestInv
<1>1. RequestInit => RequestInv
  BY RequestAssumption DEF RequestInit, RequestInv, RequestTypeOK
<1>2. QED
  BY <1>1, RequestNextInv, PTL DEF RequestSpec

(* A retry is not refused for the age of its timestamp                     *)
(* (icl_client.py 73-98), for any number of retries.                       *)
THEOREM SignatureFresh == RequestSpec => []FreshSignature
<1>1. RequestInv => FreshSignature
  BY RequestAssumption DEF RequestInv, RequestTypeOK, FreshSignature
<1>2. QED
  BY <1>1, RequestInductive, PTL

(***************************************************************************)
(* CoFHERealClient                                                         *)
(***************************************************************************)

(* A call that is out has a permit with more than an hour's margin, less   *)
(* the time the call has taken.                                            *)
PermitInv ==
  /\ PermitTypeOK
  /\ decrypt # "expired"
  /\ decrypt \in {"asked", "sealed"} => used = key /\ left + lasting > Margin

(* Every step of a call and of the clock keeps it. *)
LEMMA PermitNextInv == PermitInv /\ [PermitNext]_permitVars => PermitInv'
<1> SUFFICES ASSUME PermitInv, [PermitNext]_permitVars
             PROVE  PermitInv'
  OBVIOUS
<1> USE PermitAssumption DEF PermitInv, PermitTypeOK
<1>1. CASE Ask
  <2>1. key' \in BOOLEAN /\ used' \in BOOLEAN
    BY <1>1, Zenon DEF Ask, EnsurePermit
  <2>2. left' \in 0..Life /\ left' > Margin /\ left' + 0 = left'
    BY <1>1 DEF Ask, EnsurePermit, GoodEnough
  <2>3. decrypt' = "asked" /\ lasting' = 0
    BY <1>1 DEF Ask
  <2>4. used' = key'
    BY <1>1 DEF Ask
  <2>5. PermitTypeOK'
    BY <2>1, <2>2, <2>3
  <2>6. left' + lasting' > Margin
    BY <2>2, <2>3
  <2> QED
    BY <2>3, <2>4, <2>5, <2>6 DEF PermitInv
<1>2. CASE Seal
  BY <1>2 DEF Seal
<1>3. CASE Over
  BY <1>3 DEF Over
<1>4. CASE HalfHour
  BY <1>4 DEF HalfHour
<1>5. CASE UNCHANGED permitVars
  BY <1>5 DEF permitVars
<1> HIDE PermitAssumption DEF PermitInv, PermitTypeOK
<1>6. QED
  BY <1>1, <1>2, <1>3, <1>4, <1>5 DEF PermitNext

(* In every state a permit that is out is good for the call it is used in, *)
(* for any life of a permit and any margin that is longer than a call.     *)
THEOREM PermitInductive == PermitSpec => []PermitInv
<1>1. PermitInit => PermitInv
  <2> SUFFICES ASSUME PermitInit
               PROVE  PermitInv
    OBVIOUS
  <2>1. key \in BOOLEAN /\ used \in BOOLEAN
    BY Zenon DEF PermitInit
  <2>2. QED
    BY <2>1, PermitAssumption DEF PermitInit, PermitInv, PermitTypeOK
<1>2. QED
  BY <1>1, PermitNextInv, PTL DEF PermitSpec

(* The service never sees an expired permit, and the answer is sealed for  *)
(* the key at hand (crypto.py 171-250).                                    *)
THEOREM PermitGood == PermitSpec => []PermitHonoured
<1>1. PermitInv => PermitHonoured
  BY DEF PermitInv, PermitHonoured
<1>2. QED
  BY <1>1, PermitInductive, PTL

(***************************************************************************)
(* IPFSClient.download                                                     *)
(***************************************************************************)

(* The public gateways but for the primary one, each once. *)
LEMMA OthersFacts ==
  /\ Others \in Seq(STRING)
  /\ \A i \in DOMAIN Others : Others[i] \in ToSet(Fallbacks) \ {Primary}
  /\ \A g \in ToSet(Fallbacks) \ {Primary} : \E i \in DOMAIN Others : Others[i] = g
  /\ \A i, j \in DOMAIN Others : Others[i] = Others[j] => i = j
<1> DEFINE F == Fallbacks
           n == Len(F)
<1>1. /\ F \in Seq(STRING) /\ n \in Nat /\ DOMAIN F = 1..n
      /\ \A i \in 1..n : F[i] \in STRING
      /\ \A i, j \in 1..n : F[i] = F[j] => i = j
  BY IpfsAssumption, LenProperties, ElementOfSeq DEF IsInjective
<1>2. CASE \A i \in DOMAIN F : F[i] # Primary
  BY <1>1, <1>2 DEF Others, ToSet
<1>3. CASE \E i \in DOMAIN F : F[i] = Primary
  <2> DEFINE p == CHOOSE i \in DOMAIN F : F[i] = Primary
             A == SubSeq(F, 1, p - 1)
             B == SubSeq(F, p + 1, n)
  <2>1. p \in 1..n /\ F[p] = Primary
    BY <1>1, <1>3
  <2>2. Others = A \o B
    BY <1>3 DEF Others, RemoveAt
  <2> HIDE DEF p
  <2>3. /\ A \in Seq(STRING) /\ Len(A) = p - 1
        /\ \A i \in 1..p - 1 : A[i] = F[i]
    <3>1. /\ 1 \in Int /\ p - 1 \in Int /\ 1..p - 1 \subseteq 1..n
          /\ (p - 1) - 1 + 1 = p - 1 /\ \A i \in 1..p - 1 : 1 + i - 1 = i
          /\ (~(1 <= p - 1) => p - 1 = 0)
      BY <1>1, <2>1
    <3>2. \A i \in 1..p - 1 : F[i] \in STRING
      BY <1>1, <3>1
    <3> HIDE DEF n, F
    <3>3. /\ SubSeq(F, 1, p - 1) \in Seq(STRING)
          /\ Len(SubSeq(F, 1, p - 1)) = IF 1 <= p - 1 THEN (p - 1) - 1 + 1 ELSE 0
          /\ \A i \in 1..(p - 1) - 1 + 1 : SubSeq(F, 1, p - 1)[i] = F[1 + i - 1]
      BY <3>1, <3>2, SubSeqProperties
    <3>4. QED
      BY <3>1, <3>3
  <2>4. /\ B \in Seq(STRING) /\ Len(B) = n - p
        /\ \A i \in 1..n - p : B[i] = F[p + i]
    <3>1. /\ p + 1 \in Int /\ n \in Int /\ p + 1..n \subseteq 1..n
          /\ n - (p + 1) + 1 = n - p /\ \A i \in 1..n - p : p + 1 + i - 1 = p + i
          /\ (~(p + 1 <= n) => n - p = 0)
      <4>1. n \in Int /\ p \in Int /\ 1 <= p /\ p <= n
        BY <1>1, <2>1
      <4> HIDE DEF n, F
      <4>2. p + 1 \in Int /\ p + 1..n \subseteq 1..n /\ n - (p + 1) + 1 = n - p
        BY <4>1
      <4>3. \A i \in 1..n - p : p + 1 + i - 1 = p + i
        BY <4>1
      <4>4. ~(p + 1 <= n) => n - p = 0
        BY <4>1
      <4>5. QED
        BY <4>1, <4>2, <4>3, <4>4
    <3>2. \A i \in p + 1..n : F[i] \in STRING
      BY <1>1, <3>1
    <3> HIDE DEF n, F
    <3>3. /\ SubSeq(F, p + 1, n) \in Seq(STRING)
          /\ Len(SubSeq(F, p + 1, n)) = IF p + 1 <= n THEN n - (p + 1) + 1 ELSE 0
          /\ \A i \in 1..n - (p + 1) + 1 : SubSeq(F, p + 1, n)[i] = F[p + 1 + i - 1]
      BY <3>1, <3>2, SubSeqProperties
    <3>4. QED
      BY <3>1, <3>3
  <2> HIDE DEF A, B
  <2>5. /\ Others \in Seq(STRING) /\ Len(Others) = n - 1
        /\ \A i \in 1..n - 1 : Others[i] = IF i < p THEN F[i] ELSE F[i + 1]
    <3>1. /\ Len(A) + Len(B) = n - 1
          /\ \A i \in 1..n - 1 : i <= Len(A) <=> i < p
          /\ \A i \in 1..n - 1 : i < p => i \in 1..p - 1
          /\ \A i \in 1..n - 1 : ~(i < p) =>
               i - Len(A) \in 1..n - p /\ p + (i - Len(A)) = i + 1
      BY <1>1, <2>1, <2>3, <2>4
    <3>2. /\ Others \in Seq(STRING) /\ Len(Others) = Len(A) + Len(B)
          /\ \A i \in 1..Len(A) + Len(B) :
               Others[i] = IF i <= Len(A) THEN A[i] ELSE B[i - Len(A)]
      BY <2>2, <2>3, <2>4, ConcatProperties
    <3> HIDE DEF n, F
    <3>3. QED
      BY <2>3, <2>4, <3>1, <3>2
  <2>6. DOMAIN Others = 1..n - 1
    BY <2>5, LenProperties
  <2>7. ASSUME NEW i \in DOMAIN Others
        PROVE  Others[i] \in ToSet(F) \ {Primary}
    <3>1. CASE i < p
      BY <1>1, <2>1, <2>5, <2>6, <3>1 DEF ToSet
    <3>2. CASE ~(i < p)
      BY <1>1, <2>1, <2>5, <2>6, <3>2 DEF ToSet
    <3>3. QED
      BY <3>1, <3>2
  <2>8. ASSUME NEW g \in ToSet(F) \ {Primary}
        PROVE  \E i \in DOMAIN Others : Others[i] = g
    <3>1. PICK j \in 1..n : F[j] = g
      BY <1>1 DEF ToSet
    <3>2. CASE j < p
      BY <1>1, <2>1, <2>5, <2>6, <3>1, <3>2
    <3>3. CASE j > p
      <4>1. j - 1 \in 1..n - 1 /\ ~(j - 1 < p) /\ (j - 1) + 1 = j
        BY <1>1, <2>1, <3>3
      <4>2. QED
        BY <2>5, <2>6, <3>1, <4>1
    <3>4. QED
      BY <1>1, <2>1, <3>1, <3>2, <3>3
  <2>9. ASSUME NEW i \in DOMAIN Others, NEW j \in DOMAIN Others, Others[i] = Others[j]
        PROVE  i = j
    <3> DEFINE at(x) == IF x < p THEN x ELSE x + 1
    <3>1. at(i) \in 1..n /\ at(j) \in 1..n
      BY <1>1, <2>1, <2>6
    <3>2. Others[i] = F[at(i)] /\ Others[j] = F[at(j)]
      BY <2>5, <2>6
    <3>3. at(i) = at(j)
      BY <1>1, <2>9, <3>1, <3>2
    <3>4. QED
      BY <1>1, <2>1, <2>6, <3>3
  <2>10. QED
    BY <2>5, <2>7, <2>8, <2>9
<1>4. QED
  BY <1>2, <1>3

(* Every gateway is tried once: as many places as there are gateways.      *)
LEMMA GatewayFacts ==
  /\ Len(Gateways) \in Nat /\ Len(Gateways) >= 1
  /\ DOMAIN Gateways = 1..Len(Gateways)
  /\ ToSet(Gateways) = {Primary} \union ToSet(Fallbacks)
  /\ Cardinality(ToSet(Gateways)) = Len(Gateways)
<1> DEFINE n == Len(Gateways)
<1>1. /\ Gateways \in Seq(STRING) /\ n = 1 + Len(Others)
      /\ \A i \in 1..n : Gateways[i] = IF i = 1 THEN Primary ELSE Others[i - 1]
  <2>1. /\ <<Primary>> \in Seq(STRING) /\ Len(<<Primary>>) = 1
        /\ <<Primary>>[1] = Primary
    <3>1. Primary \in STRING
      BY IpfsAssumption
    <3>2. \A S : Primary \in S => <<Primary>> \in Seq(S)
      OBVIOUS
    <3>3. Len(<<Primary>>) = 1 /\ <<Primary>>[1] = Primary
      OBVIOUS
    <3>4. QED
      BY <3>1, <3>2, <3>3
  <2>2. Others \in Seq(STRING) /\ Len(Others) \in Nat
    BY OthersFacts, LenProperties
  <2>3. /\ Gateways \in Seq(STRING) /\ n = 1 + Len(Others)
        /\ \A i \in 1..1 + Len(Others) :
             Gateways[i] = IF i <= 1 THEN <<Primary>>[i] ELSE Others[i - 1]
    BY <2>1, <2>2, ConcatProperties DEF Gateways
  <2>4. \A i \in 1..n : i <= 1 <=> i = 1
    BY <2>2, <2>3
  <2>5. QED
    BY <2>1, <2>3, <2>4
<1>2. /\ n \in Nat /\ n >= 1 /\ DOMAIN Gateways = 1..n /\ DOMAIN Others = 1..n - 1
  BY <1>1, OthersFacts, LenProperties
<1>3. \A i \in 1..n : i # 1 => i - 1 \in DOMAIN Others
  BY <1>2
<1>4. ToSet(Gateways) = {Primary} \union ToSet(Fallbacks)
  <2>1. ASSUME NEW i \in 1..n
        PROVE  Gateways[i] \in {Primary} \union ToSet(Fallbacks)
    BY <1>1, <1>3, OthersFacts
  <2>2. Gateways[1] = Primary /\ 1 \in 1..n
    BY <1>1, <1>2
  <2>3. ASSUME NEW g \in ToSet(Fallbacks) \ {Primary}
        PROVE  \E i \in 1..n : Gateways[i] = g
    <3>1. PICK j \in DOMAIN Others : Others[j] = g
      BY OthersFacts
    <3>2. j + 1 \in 1..n /\ j + 1 # 1 /\ (j + 1) - 1 = j
      BY <1>2
    <3>3. QED
      BY <1>1, <3>1, <3>2
  <2>4. QED
    BY <1>2, <2>1, <2>2, <2>3 DEF ToSet
<1>5. ASSUME NEW i \in 1..n, NEW j \in 1..n, Gateways[i] = Gateways[j]
      PROVE  i = j
  <2>1. CASE i = 1 \/ j = 1
    BY <1>1, <1>3, <1>5, <2>1, OthersFacts
  <2>2. CASE i # 1 /\ j # 1
    <3>1. i - 1 = j - 1
      BY <1>1, <1>3, <1>5, <2>2, OthersFacts
    <3>2. QED
      BY <1>2, <3>1
  <2>3. QED
    BY <2>1, <2>2
<1>6. Cardinality(ToSet(Gateways)) = n
  <2>1. Gateways \in [1..n -> ToSet(Gateways)]
    BY <1>1, <1>2 DEF ToSet
  <2>2. Gateways \in Bijection(1..n, ToSet(Gateways))
    BY <1>2, <1>5, <2>1 DEF Bijection, Injection, Surjection, IsInjective, ToSet
  <2>3. ExistsBijection(1..n, ToSet(Gateways))
    BY <2>2 DEF ExistsBijection
  <2> HIDE DEF n
  <2>4. QED
    BY <1>2, <2>3, FS_CountingElements
<1>7. QED
  BY <1>2, <1>4, <1>6

(* The gateways before the k-th. *)
GatewaysBefore(k) == {Gateways[i] : i \in 1..k - 1}

Entry == [blob : Blobs \union {"none"}, age : 0..Old]

Download ==
  [at : {"idle", "trying", "got", "failed", "raised"},
   cid : Cids \union {"none"}, k : 0..Len(Gateways),
   tried : SUBSET ToSet(Gateways), served : 0..Old]

(* A download that is under way has had every gateway before the one it is *)
(* at, and, like one a gateway has just served, nothing from the cache;    *)
(* one that failed has had them all.                                       *)
UnderWay(q) ==
  /\ q.at \in {"trying", "got"} => q.served <= Ttl
  /\ q.at = "trying" =>
       /\ q.cid \in Cids
       /\ q.k >= 1 /\ q.tried = GatewaysBefore(q.k)
  /\ q.at = "failed" => q.tried = ToSet(Gateways) /\ q.k = Len(Gateways)

(* An entry is as old as the answer it came from. *)
IpfsInv ==
  /\ IpfsTypeOK
  /\ \A c \in Cids : cache[c].blob # "none" => fetched[c] = cache[c].age
  /\ \A d \in Downloads : UnderWay(dl[d])

(* Clocks go on by one and stop at Old. *)
LEMMA OlderFacts ==
  /\ Old \in Nat /\ Old = Ttl + 1
  /\ \A t \in 0..Old : Older(t) \in 0..Old
BY IpfsAssumption DEF Old, Older

(* From one gateway to the next; after the last one, all have been tried.  *)
LEMMA BeforeNext ==
  ASSUME NEW k \in 1..Len(Gateways)
  PROVE  /\ GatewaysBefore(k) \union {Gateways[k]} = GatewaysBefore(k + 1)
         /\ GatewaysBefore(k + 1) \subseteq ToSet(Gateways)
         /\ k = Len(Gateways) => GatewaysBefore(k + 1) = ToSet(Gateways)
         /\ GatewaysBefore(1) = {}
<1> DEFINE n == Len(Gateways)
<1>1. n \in Nat /\ DOMAIN Gateways = 1..n
  BY GatewayFacts
<1> HIDE DEF n
<1>2. 1..(k + 1) - 1 = (1..k - 1) \union {k} /\ 1..1 - 1 = {} /\ 1..(k + 1) - 1 \subseteq 1..n
  BY <1>1 DEF n
<1>3. k = n => 1..(k + 1) - 1 = 1..n
  BY <1>1
<1>4. QED
  BY <1>1, <1>2, <1>3 DEF GatewaysBefore, ToSet, n

(* A download at its n-th gateway, and one that ends in an error. *)
Moved(q, n, T) == [q EXCEPT !.k = n, !.tried = T]
Ended(q, how, T) == [q EXCEPT !.at = how, !.tried = T]

(* On to the next gateway. *)
LEMMA MovedOn ==
  ASSUME NEW q \in Download, UnderWay(q), q.at = "trying", q.k < Len(Gateways),
         NEW T, T = q.tried \union {Gateways[q.k]}
  PROVE  Moved(q, q.k + 1, T) \in Download /\ UnderWay(Moved(q, q.k + 1, T))
<1> DEFINE m == Moved(q, q.k + 1, T)
<1>1. q.k \in 1..Len(Gateways) /\ q.k + 1 \in 1..Len(Gateways)
  BY GatewayFacts DEF UnderWay, Download
<1>2. T = GatewaysBefore(q.k + 1) /\ T \subseteq ToSet(Gateways)
  BY <1>1, BeforeNext DEF UnderWay
<1>3. q.k + 1 \in 0..Len(Gateways) /\ T \in SUBSET ToSet(Gateways)
  BY <1>1, <1>2
<1>4. /\ m \in Download /\ m.at = q.at /\ m.cid = q.cid /\ m.served = q.served
      /\ m.k = q.k + 1 /\ m.tried = T
  BY <1>3 DEF Moved, Download
<1> HIDE DEF m
<1>5. q.k + 1 >= 1
  BY <1>1
<1>6. UnderWay(m)
  BY <1>2, <1>4, <1>5 DEF UnderWay
<1>7. QED
  BY <1>4, <1>6 DEF m

(* It ends in an error: after every gateway if none is left to ask. *)
LEMMA EndedWell ==
  ASSUME NEW q \in Download, UnderWay(q), q.at = "trying",
         NEW how \in {"failed", "raised"},
         how = "failed" => ~(q.k < Len(Gateways)),
         NEW T, T = q.tried \union {Gateways[q.k]}
  PROVE  Ended(q, how, T) \in Download /\ UnderWay(Ended(q, how, T))
<1>1. q.k \in 1..Len(Gateways) /\ Len(Gateways) \in Nat
  BY GatewayFacts DEF UnderWay, Download
<1>2. T = GatewaysBefore(q.k + 1) /\ T \subseteq ToSet(Gateways)
  BY <1>1, BeforeNext DEF UnderWay
<1>3. how = "failed" => q.k = Len(Gateways) /\ T = ToSet(Gateways)
  BY <1>1, <1>2, BeforeNext
<1>4. /\ Ended(q, how, T) \in Download /\ Ended(q, how, T).at = how
      /\ Ended(q, how, T).tried = T /\ Ended(q, how, T).k = q.k
  BY <1>2 DEF Ended, Download
<1> HIDE DEF Ended
<1>5. QED
  BY <1>3, <1>4 DEF UnderWay

(* The type of the variables, with the names used here. *)
LEMMA IpfsTypes ==
  IpfsTypeOK <=> /\ cache \in [Cids -> Entry]
                 /\ fetched \in [Cids -> 0..Old]
                 /\ dl \in [Downloads -> Download]
BY DEF IpfsTypeOK, Entry, Download

(* What a step that touches one download and one entry must show. *)
LEMMA OneDownload ==
  ASSUME IpfsInv, NEW d \in Downloads,
         NEW r \in Download, UnderWay(r), dl' = [dl EXCEPT ![d] = r],
         cache' \in [Cids -> Entry], fetched' \in [Cids -> 0..Old],
         \A c \in Cids : cache'[c].blob # "none" => fetched'[c] = cache'[c].age
  PROVE  IpfsInv'
<1>1. dl \in [Downloads -> Download]
  BY IpfsTypes DEF IpfsInv
<1>2. dl' \in [Downloads -> Download] /\ \A x \in Downloads : dl'[x] = IF x = d THEN r ELSE dl[x]
  BY <1>1
<1>3. IpfsTypeOK'
  BY <1>2 DEF IpfsTypeOK, Entry, Download
<1>4. ASSUME NEW x \in Downloads
      PROVE  UnderWay(dl'[x])
  <2>1. CASE x = d
    BY <1>2, <2>1
  <2>2. CASE x # d
    BY <1>2, <2>2 DEF IpfsInv
  <2>3. QED
    BY <2>1, <2>2
<1>5. QED
  BY <1>3, <1>4 DEF IpfsInv

(* Every step of a download and of the clock keeps the invariant. *)
LEMMA IpfsNextInv == IpfsInv /\ [IpfsNext]_ipfsVars => IpfsInv'
<1> SUFFICES ASSUME IpfsInv, [IpfsNext]_ipfsVars
             PROVE  IpfsInv'
  OBVIOUS
<1>0. /\ cache \in [Cids -> Entry] /\ fetched \in [Cids -> 0..Old]
      /\ dl \in [Downloads -> Download]
      /\ \A d \in Downloads : dl[d] \in Download /\ UnderWay(dl[d])
      /\ \A c \in Cids : cache[c].blob # "none" => fetched[c] = cache[c].age
  BY IpfsTypes DEF IpfsInv
<1>1. ASSUME NEW d \in Downloads, NEW c \in Cids, Hit(d, c)
      PROVE  IpfsInv'
  <2> DEFINE r == [dl[d] EXCEPT !.at = "got", !.cid = c, !.served = fetched[c]]
  <2>1. dl' = [dl EXCEPT ![d] = r] /\ cache' = cache /\ fetched' = fetched
    BY <1>1 DEF Hit
  <2>2. dl[d] \in Download /\ fetched[c] \in 0..Old
    BY <1>0
  <2>3. r \in Download /\ r.at = "got" /\ r.served = fetched[c]
    BY <2>2 DEF Download
  <2>4. fetched[c] <= Ttl
    BY <1>0, <1>1 DEF Hit, Cached
  <2> HIDE DEF r
  <2>5. UnderWay(r)
    BY <2>3, <2>4 DEF UnderWay
  <2>6. QED
    BY <1>0, <2>1, <2>3, <2>5, OneDownload
<1>2. ASSUME NEW d \in Downloads, NEW c \in Cids, Miss(d, c)
      PROVE  IpfsInv'
  <2> DEFINE r == [at |-> "trying", cid |-> c, k |-> 1, tried |-> {}, served |-> 0]
  <2>1. /\ dl' = [dl EXCEPT ![d] = r] /\ fetched' = fetched
        /\ cache' = [cache EXCEPT ![c] = NoEntry]
    BY <1>2 DEF Miss
  <2>2. 1 \in 1..Len(Gateways) /\ 0 \in 0..Len(Gateways) /\ 0 \in 0..Old /\ GatewaysBefore(1) = {}
    <3>1. 1 \in 1..Len(Gateways) /\ 0 \in 0..Len(Gateways)
      BY GatewayFacts
    <3>2. QED
      BY <3>1, OlderFacts, BeforeNext
  <2>3. r \in Download
    BY <2>2 DEF Download
  <2>4. UnderWay(r)
    BY <2>2, IpfsAssumption DEF UnderWay
  <2>5. NoEntry \in Entry /\ NoEntry.blob = "none"
    BY <2>2 DEF NoEntry, Entry
  <2> HIDE DEF r
  <2>6. cache' \in [Cids -> Entry]
    BY <1>0, <2>1, <2>5
  <2>7. \A x \in Cids : cache'[x].blob # "none" => fetched'[x] = cache'[x].age
    BY <1>0, <2>1, <2>5
  <2>8. QED
    BY <1>0, <2>1, <2>3, <2>4, <2>6, <2>7, OneDownload
<1>3. ASSUME NEW d \in Downloads, NEW b \in Blobs, Served(d, b)
      PROVE  IpfsInv'
  <2> DEFINE r == [dl[d] EXCEPT !.at = "got"]
             c == dl[d].cid
             e == [blob |-> b, age |-> 0]
  <2>1. /\ dl' = [dl EXCEPT ![d] = r]
        /\ fetched' = [fetched EXCEPT ![c] = 0]
        /\ cache' = [cache EXCEPT ![c] = e]
    BY <1>3 DEF Served
  <2>2. dl[d] \in Download /\ dl[d].served <= Ttl /\ c \in Cids
    BY <1>0, <1>3 DEF Served, Trying, Resting, UnderWay, Download
  <2>3. r \in Download /\ r.at = "got" /\ r.served = dl[d].served
    BY <2>2 DEF Download
  <2>4. e \in Entry /\ e.age = 0
    BY OlderFacts DEF Entry
  <2> HIDE DEF r, c, e
  <2>5. UnderWay(r)
    BY <2>2, <2>3 DEF UnderWay
  <2>6. cache' \in [Cids -> Entry] /\ fetched' \in [Cids -> 0..Old]
    BY <1>0, <2>1, <2>2, <2>4, OlderFacts
  <2>7. \A x \in Cids : cache'[x].blob # "none" => fetched'[x] = cache'[x].age
    BY <1>0, <2>1, <2>2, <2>4
  <2>8. QED
    BY <2>1, <2>3, <2>5, <2>6, <2>7, OneDownload
<1>4. ASSUME NEW d \in Downloads, GatewayFailed(d)
      PROVE  IpfsInv'
  <2>1. dl[d] \in Download /\ UnderWay(dl[d]) /\ dl[d].at = "trying"
    BY <1>0, <1>4 DEF GatewayFailed, Trying, Resting
  <2>2. cache' = cache /\ fetched' = fetched
    BY <1>4 DEF GatewayFailed
  <2>3. CASE dl[d].k < Len(Gateways)
    <3> DEFINE m == Moved(dl[d], dl[d].k + 1, Tried(d))
    <3>1. m \in Download /\ UnderWay(m)
      BY <2>1, <2>3, MovedOn DEF Tried
    <3>2. dl' = [dl EXCEPT ![d] = m]
      BY <1>4, <2>3 DEF GatewayFailed, Moved
    <3> HIDE DEF m
    <3>3. QED
      BY <1>0, <2>2, <3>1, <3>2, OneDownload
  <2>4. CASE ~(dl[d].k < Len(Gateways))
    <3> DEFINE f == Ended(dl[d], "failed", Tried(d))
    <3>1. f \in Download /\ UnderWay(f)
      BY <2>1, <2>4, EndedWell DEF Tried
    <3>2. dl' = [dl EXCEPT ![d] = f]
      BY <1>4, <2>4 DEF GatewayFailed, Ended
    <3> HIDE DEF f
    <3>3. QED
      BY <1>0, <2>2, <3>1, <3>2, OneDownload
  <2>5. QED
    BY <2>3, <2>4
<1>9. ASSUME NEW d \in Downloads, GatewayEscapes(d)
      PROVE  IpfsInv'
  <2> DEFINE f == Ended(dl[d], "raised", Tried(d))
  <2>1. dl[d] \in Download /\ UnderWay(dl[d]) /\ dl[d].at = "trying"
    BY <1>0, <1>9 DEF GatewayEscapes, Trying, Resting
  <2>2. f \in Download /\ UnderWay(f)
    BY <2>1, EndedWell DEF Tried
  <2>3. dl' = [dl EXCEPT ![d] = f] /\ cache' = cache /\ fetched' = fetched
    BY <1>9 DEF GatewayEscapes, Ended
  <2> HIDE DEF f
  <2>4. QED
    BY <1>0, <2>2, <2>3, OneDownload
<1>5. ASSUME NEW d \in Downloads, Cancelled(d)
      PROVE  IpfsInv'
  <2> DEFINE r == [dl[d] EXCEPT !.at = "idle"]
  <2>1. dl' = [dl EXCEPT ![d] = r] /\ cache' = cache /\ fetched' = fetched
    BY <1>5 DEF Cancelled
  <2>2. r \in Download /\ r.at = "idle"
    BY <1>0 DEF Download
  <2> HIDE DEF r
  <2>3. UnderWay(r)
    BY <2>2 DEF UnderWay
  <2>4. QED
    BY <1>0, <2>1, <2>2, <2>3, OneDownload
<1>6. CASE FifteenSeconds
  <2>1. cache' \in [Cids -> Entry] /\ fetched' \in [Cids -> 0..Old]
    BY <1>0, <1>6, OlderFacts DEF FifteenSeconds, Entry
  <2>2. \A x \in Cids : cache'[x].blob # "none" => fetched'[x] = cache'[x].age
    BY <1>0, <1>6 DEF FifteenSeconds, Entry
  <2>3. dl' = dl
    BY <1>6 DEF FifteenSeconds
  <2>4. IpfsTypeOK'
    BY <1>0, <2>1, <2>3 DEF IpfsTypeOK, Entry, Download
  <2>5. QED
    BY <1>0, <2>2, <2>3, <2>4 DEF IpfsInv
<1>7. CASE UNCHANGED ipfsVars
  BY <1>7 DEF ipfsVars, IpfsInv, IpfsTypeOK
<1>8. QED
  BY <1>1, <1>2, <1>3, <1>4, <1>5, <1>6, <1>7, <1>9 DEF IpfsNext

(* In every state, for any gateways, number of jobs and time to live, the  *)
(* cache and the downloads are as IpfsInv says.                            *)
THEOREM IpfsInductive == IpfsSpec => []IpfsInv
<1>1. IpfsInit => IpfsInv
  <2> SUFFICES ASSUME IpfsInit
               PROVE  IpfsInv
    OBVIOUS
  <2>1. 0 \in 0..Len(Gateways) /\ 0 \in 0..Old
    BY GatewayFacts, OlderFacts
  <2>2. cache \in [Cids -> Entry] /\ fetched \in [Cids -> 0..Old]
    BY <2>1 DEF IpfsInit, NoEntry, Entry
  <2>3. dl \in [Downloads -> Download]
    BY <2>1 DEF IpfsInit, Download
  <2>4. \A c \in Cids : cache[c].blob = "none"
    BY DEF IpfsInit, NoEntry
  <2>5. \A d \in Downloads : UnderWay(dl[d])
    BY DEF IpfsInit, UnderWay
  <2>6. QED
    BY <2>2, <2>3, <2>4, <2>5, IpfsTypes DEF IpfsInv
<1>2. QED
  BY <1>1, IpfsNextInv, PTL DEF IpfsSpec

(* The cache and the downloads keep their types. *)
THEOREM IpfsTypeCorrect == IpfsSpec => []IpfsTypeOK
<1>1. IpfsInv => IpfsTypeOK
  BY DEF IpfsInv
<1>2. QED
  BY <1>1, IpfsInductive, PTL

(* Whatever the cache serves was fetched within its time to live           *)
(* (ipfs_client.py 51-59, 123-155), for any number of jobs and any ttl.    *)
THEOREM WrongForgotten == IpfsSpec => []WrongBlobForgotten
<1>1. IpfsInv => WrongBlobForgotten
  BY DEF IpfsInv, UnderWay, WrongBlobForgotten
<1>2. QED
  BY <1>1, IpfsInductive, PTL

(* A download that ends in "every gateway fails" has asked each of them    *)
(* exactly once (ipfs_client.py 130-182), for any list of gateways.        *)
THEOREM AllGatewaysAsked == IpfsSpec => []FailsAfterAllGateways
<1>1. IpfsInv => FailsAfterAllGateways
  <2> SUFFICES ASSUME IpfsInv, NEW d \in Downloads, dl[d].at = "failed"
               PROVE  /\ dl[d].tried = {Primary} \union ToSet(Fallbacks)
                      /\ dl[d].k = Cardinality(dl[d].tried)
    BY DEF FailsAfterAllGateways
  <2>1. dl[d].tried = ToSet(Gateways) /\ dl[d].k = Len(Gateways)
    BY DEF IpfsInv, UnderWay
  <2>2. QED
    BY <2>1, GatewayFacts
<1>2. QED
  BY <1>1, IpfsInductive, PTL

(***************************************************************************)
(* heartbeat_loop                                                          *)
(***************************************************************************)

(* How long the ICL has heard nothing, by where the loop is, as long as    *)
(* nothing but the loop itself and the chain takes time.                   *)
QuietBounds ==
  ~disturbed =>
    /\ beat = "check" => quiet <= 1
    /\ beat = "onchain" => quiet <= 1 + spent
    /\ beat = "icl" => quiet <= OnChainMax + 1
    /\ beat = "sleep" => quiet = 0

(* A call has its time, and nothing else takes any. *)
SpentBounds ==
  /\ beat \in {"check", "down"} => held = 0
  /\ beat \in {"check", "sleep", "down"} => spent = 0
  /\ beat = "onchain" => spent <= OnChainMax
  /\ beat = "icl" => spent <= IclMax

(* The last attempt on chain is not older than the loop takes it for, nor  *)
(* than the machine's start.                                               *)
NotOlder == ~rebooted => tried <= age /\ tried <= uptime

(* An attempt that is under way began when the pass read the clock. *)
BegunAtAttempt == beat = "onchain" => begun = tried /\ tried <= spent + held

(* How old that attempt is, by where the loop is. *)
TriedBounds ==
  ~rebooted =>
    /\ tried <= Interval + Pass
    /\ beat = "icl" => tried <= Interval + OnChainMax + HoldMax + spent + held
    /\ beat = "sleep" =>
         tried <= Interval + OnChainMax + IclMax + 2 * HoldMax + held

BeatInv ==
  /\ BeatTypeOK
  /\ QuietBounds
  /\ SpentBounds
  /\ NotOlder
  /\ BegunAtAttempt
  /\ TriedBounds


(* Horizon is past the bound on attempts. *)
LEMMA HorizonFacts ==
  /\ Pass \in Nat /\ Horizon \in Nat
  /\ Pass = OnChainMax + IclMax + 1 + 3 * HoldMax
  /\ Interval + Pass <= Horizon
BY HeartbeatAssumption DEF Pass, Horizon

(* A clock that stops at Horizon goes on by one at most and not back. *)
LEMMA LaterFacts ==
  ASSUME NEW t \in 0..Horizon
  PROVE  /\ Later(t, 1) \in 0..Horizon
         /\ Later(t, 1) <= t + 1
         /\ \A u \in 0..Horizon : t <= u => Later(t, 1) <= Later(u, 1)
BY HeartbeatAssumption, HorizonFacts DEF Later

(* The loop starts within all bounds, whatever the uptime is. *)
LEMMA BeatInitInv == BeatInit => BeatInv
<1> SUFFICES ASSUME BeatInit
             PROVE  BeatInv
  OBVIOUS
<1> USE HeartbeatAssumption, HorizonFacts DEF BeatInit
<1>1. uptime \in Nat /\ uptime <= Interval /\ uptime <= Horizon
  OBVIOUS
<1>2. BeatTypeOK
  <2>1. rebooted \in BOOLEAN /\ disturbed \in BOOLEAN
    BY Zenon
  <2>2. QED
    BY <1>1, <2>1 DEF BeatTypeOK
<1>3. QuietBounds /\ SpentBounds /\ BegunAtAttempt
  BY DEF QuietBounds, SpentBounds, BegunAtAttempt
<1>4. NotOlder
  BY <1>1 DEF NotOlder
<1>5. TriedBounds
  BY DEF TriedBounds
<1>6. QED
  BY <1>2, <1>3, <1>4, <1>5 DEF BeatInv

(* No step of the loop, no stop and no start leaves them. *)
LEMMA BeatNextInv == BeatInv /\ [BeatNext]_beatVars => BeatInv'
<1> SUFFICES ASSUME BeatInv, [BeatNext]_beatVars
             PROVE  BeatInv'
  OBVIOUS
<1> USE HeartbeatAssumption, HorizonFacts
        DEF BeatInv, BeatTypeOK, QuietBounds, SpentBounds, NotOlder, BegunAtAttempt,
            TriedBounds
<1>1. CASE Check
  BY <1>1 DEF Check, Due, MoveTo
<1>2. CASE OnChainWaits
  BY <1>2, LaterFacts DEF OnChainWaits, Pause
<1>3. CASE OnChainReturned
  BY <1>3 DEF OnChainReturned, MoveTo
<1>4. CASE OnChainRaised
  BY <1>4 DEF OnChainRaised, MoveTo, clocks
<1>5. CASE IclWaits
  BY <1>5, LaterFacts DEF IclWaits, Pause
<1>6. CASE IclReturned
  <2>1. disturbed' \in BOOLEAN /\ rebooted' \in BOOLEAN
    BY <1>6, Zenon DEF IclReturned
  <2>2. /\ beat' = "sleep" /\ spent' = 0 /\ held' = 0
        /\ quiet' = 0 \/ quiet' \in 1..(spent + held)
        /\ UNCHANGED <<uptime, age, begun, tried, rebooted>>
    BY <1>6 DEF IclReturned, MoveTo
  <2>3. spent \in 0..IclMax /\ held \in 0..HoldMax /\ quiet' \in 0..Horizon
    BY <1>6, <2>2 DEF IclReturned, Pass, Horizon
  <2>4. BeatTypeOK'
    BY <2>1, <2>2, <2>3
  <2>5. ~disturbed' => quiet' = 0
    BY <1>6, Zenon DEF IclReturned
  <2>6. QuietBounds' /\ SpentBounds' /\ BegunAtAttempt'
    BY <2>2, <2>5
  <2>7. NotOlder' /\ TriedBounds'
    BY <1>6, <2>2, <2>3 DEF IclReturned
  <2>8. QED
    BY <2>4, <2>6, <2>7
<1>7. CASE IclRaised
  BY <1>7 DEF IclRaised, MoveTo, clocks
<1>8. CASE Wakes
  BY <1>8, LaterFacts DEF Wakes, MoveTo, Pause
<1>9. CASE LoopHeld
  BY <1>9, LaterFacts DEF LoopHeld, Pause
<1>11. CASE Stops
  BY <1>11 DEF Stops, MoveTo, clocks
<1>12. CASE Starts
  <2>1. disturbed' \in BOOLEAN /\ rebooted' \in BOOLEAN
    BY <1>12, Zenon DEF Starts
  <2>2. /\ beat' = "check" /\ spent' = 0 /\ held' = 0 /\ age' = uptime /\ quiet' = 0
        /\ UNCHANGED <<uptime, begun, tried, rebooted>>
    BY <1>12 DEF Starts, MoveTo
  <2>3. BeatTypeOK'
    BY <2>1, <2>2
  <2>4. QuietBounds' /\ SpentBounds' /\ BegunAtAttempt'
    BY <2>2
  <2>5. NotOlder' /\ TriedBounds'
    BY <2>2
  <2>6. QED
    BY <2>3, <2>4, <2>5
<1>13. CASE Reboots
  BY <1>13 DEF Reboots
<1>10. CASE UNCHANGED beatVars
  BY <1>10 DEF beatVars, clocks
<1> HIDE HeartbeatAssumption, HorizonFacts DEF BeatInv
<1>14. QED
  BY <1>1, <1>2, <1>3, <1>4, <1>5, <1>6, <1>7, <1>8, <1>9, <1>10, <1>11, <1>12, <1>13
     DEF BeatNext, LoopStep

(* The bounds by place, from which the two properties follow. *)
THEOREM BeatInductive == BeatSpec => []BeatInv
BY BeatInitInv, BeatNextInv, PTL DEF BeatSpec

(* Clocks and counters of the loop stay within their bounds. *)
THEOREM BeatTypeCorrect == BeatSpec => []BeatTypeOK
<1>1. BeatInv => BeatTypeOK
  BY DEF BeatInv
<1>2. QED
  BY <1>1, BeatInductive, PTL

(* What the loop and the chain add to the ICL's silence is one attempt on  *)
(* chain and a minute (node_loop.py 148-168), however long that attempt    *)
(* may take and whatever the interval is.                                  *)
THEOREM GraceKept == BeatSpec => []IclGraceKept
<1>1. BeatInv => IclGraceKept
  BY HeartbeatAssumption, HorizonFacts
     DEF BeatInv, BeatTypeOK, QuietBounds, SpentBounds, IclGraceKept
<1>2. QED
  BY <1>1, BeatInductive, PTL

(* Restarts of the daemon do not stretch the time between two attempts on  *)
(* chain (node_loop.py 146-156), while the machine stays up.               *)
THEOREM InTime == BeatSpec => []OnChainInTime
<1>1. BeatInv => OnChainInTime
  BY DEF BeatInv, TriedBounds, OnChainInTime
<1>2. QED
  BY <1>1, BeatInductive, PTL

(***************************************************************************)
(* ModelRegistry                                                           *)
(***************************************************************************)

(* Everything that is ever registered. *)
Entries ==
  Custom \union {Backend("vllm", {}), Backend("vllm", {"opt-125m"}),
                 Backend("groq", {"llama"}), Backend("gemini", {"gemini"}),
                 Backend("mock", {"*"})}

Mock == Backend("mock", {"*"})

(* Where a name, or a model, comes up in the log; and the last such place. *)
NamedAt(L, name) == {i \in DOMAIN L : L[i].name = name}
Listing(L, m) == {i \in DOMAIN L : m \in L[i].models}
LastOf(i, S) == i \in S /\ \A j \in S : j <= i

(* A name has one entry: what was registered under it last. *)
EntriesAreLast ==
  \A k \in DOMAIN backends :
    \E i \in DOMAIN log : LastOf(i, NamedAt(log, backends[k].name)) /\ backends[k] = log[i]

NamesKept ==
  \A i \in DOMAIN log : \E k \in DOMAIN backends : backends[k].name = log[i].name

(* Entries are in the order in which their names came up first. *)
OrderKept ==
  \A k, l \in DOMAIN backends :
    k < l => \E i \in NamedAt(log, backends[k].name) : \A j \in NamedAt(log, backends[l].name) : i < j

(* A model belongs to the name that listed it last. *)
MapKept ==
  /\ \A m \in DOMAIN modelMap :
       \E i \in DOMAIN log : LastOf(i, Listing(log, m)) /\ modelMap[m] = log[i].name
  /\ \A i \in DOMAIN log : log[i].models \ {"*"} \subseteq DOMAIN modelMap

(* The mock backend is available, and registered or about to be. *)
MockKept ==
  /\ "mock" \in up
  /\ \/ \E i \in DOMAIN log : log[i] = Mock
     \/ \E i \in DOMAIN builtins : builtins[i] = Mock

RegistryInv ==
  /\ log \in Seq(Entries)
  /\ backends \in Seq(Entries)
  /\ builtins \in Seq(Entries)
  /\ EntriesAreLast
  /\ NamesKept
  /\ OrderKept
  /\ MapKept
  /\ MockKept

(***************************************************************************)
(* Least and last places.                                                  *)
(***************************************************************************)

(* A set of numbers that is not empty has a least one. *)
LEMMA LeastNumber ==
  ASSUME NEW S, S \subseteq Nat, S # {}
  PROVE  First(S) \in S /\ \A j \in S : First(S) <= j
<1>1. IsWellFoundedOn(OpToRel(<, Nat), Nat)
  BY NatLessThanWellFounded
<1>2. PICK n \in S : \A m \in S : <<m, n>> \notin OpToRel(<, Nat)
  BY <1>1, WFMin
<1>3. \A m \in S : ~(m < n)
  BY <1>2 DEF OpToRel
<1>4. n \in S /\ \A m \in S : n <= m
  BY <1>3
<1>5. QED
  BY <1>4 DEF First

(* What is last in a set of places is what Last1 says. *)
LEMMA LastIsLast1 ==
  ASSUME NEW S, S \subseteq Nat \ {0}, NEW i \in S, LastOf(i, S)
  PROVE  Last1(S) = i
<1>1. \A k \in S : (\A j \in S : j <= k) => k = i
  BY DEF LastOf
<1>2. QED
  BY <1>1 DEF LastOf, Last1

(***************************************************************************)
(* Registering.                                                            *)
(***************************************************************************)

(* The built-in backends are entries, the mock the last of them. *)
LEMMA BuiltinsTyped ==
  ASSUME NEW gpu
  PROVE  /\ Builtins(gpu) \in Seq(Entries)
         /\ \E i \in DOMAIN Builtins(gpu) : Builtins(gpu)[i] = Mock
<1>1. Backend("vllm", IF gpu THEN {"opt-125m"} ELSE {}) \in Entries
  BY DEF Entries
<1>2. /\ Backend("groq", {"llama"}) \in Entries /\ Backend("gemini", {"gemini"}) \in Entries
      /\ Backend("mock", {"*"}) \in Entries
  BY DEF Entries
<1> HIDE DEF Entries
<1>3. Builtins(gpu) \in Seq(Entries)
  BY <1>1, <1>2 DEF Builtins
<1>4. 4 \in DOMAIN Builtins(gpu) /\ Builtins(gpu)[4] = Mock
  BY DEF Builtins, Mock
<1>5. QED
  BY <1>3, <1>4

(* Nothing is registered yet, or again. *)
LEMMA EmptyRegistry ==
  ASSUME backends = <<>>, modelMap = <<>>, log = <<>>
  PROVE  /\ log \in Seq(Entries) /\ backends \in Seq(Entries)
         /\ EntriesAreLast /\ NamesKept /\ OrderKept /\ MapKept
BY EmptySeq DEF EntriesAreLast, NamesKept, OrderKept, MapKept

(* What register adds to the log. *)
LEMMA LogGrows ==
  ASSUME RegistryInv, NEW b \in Entries, log' = Append(log, b)
  PROVE  /\ log' \in Seq(Entries)
         /\ DOMAIN log = 1..Len(log) /\ Len(log) \in Nat
         /\ DOMAIN log' = 1..(Len(log) + 1)
         /\ \A i \in DOMAIN log : i \in DOMAIN log' /\ log'[i] = log[i]
         /\ log'[Len(log) + 1] = b
BY AppendProperties, LenProperties DEF RegistryInv

(* What register does to the entries: the one of that name is replaced, or *)
(* there is one more.                                                      *)
LEMMA EntrySet ==
  ASSUME RegistryInv, NEW b \in Entries, backends' = SetEntry(b)
  PROVE  /\ backends' \in Seq(Entries)
         /\ DOMAIN backends = 1..Len(backends) /\ Len(backends) \in Nat
         /\ DOMAIN backends \subseteq DOMAIN backends'
         /\ \A k \in DOMAIN backends :
              backends'[k] = IF backends[k].name = b.name THEN b ELSE backends[k]
         /\ \A k \in DOMAIN backends' \ DOMAIN backends :
              /\ k = Len(backends) + 1 /\ backends'[k] = b
              /\ \A l \in DOMAIN backends : backends[l].name # b.name
         /\ \E k \in DOMAIN backends' : backends'[k].name = b.name
<1>1. backends \in Seq(Entries)
  BY DEF RegistryInv
<1>2. DOMAIN backends = 1..Len(backends) /\ Len(backends) \in Nat
  BY <1>1, LenProperties
<1>3. CASE \E i \in DOMAIN backends : backends[i].name = b.name
  <2>1. backends' = [i \in 1..Len(backends) |->
                       IF backends[i].name = b.name THEN b ELSE backends[i]]
    BY <1>2, <1>3 DEF SetEntry
  <2>2. \A i \in 1..Len(backends) : backends[i] \in Entries
    BY <1>1, ElementOfSeq
  <2>3. backends' \in [1..Len(backends) -> Entries]
    BY <2>1, <2>2
  <2>4. backends' \in Seq(Entries)
    BY <1>2, <2>3
  <2>5. QED
    BY <1>2, <1>3, <2>1, <2>4
<1>4. CASE ~\E i \in DOMAIN backends : backends[i].name = b.name
  <2>1. backends' = Append(backends, b)
    BY <1>4 DEF SetEntry
  <2>2. /\ backends' \in Seq(Entries) /\ Len(backends') = Len(backends) + 1
        /\ \A i \in 1..Len(backends) : backends'[i] = backends[i]
        /\ backends'[Len(backends) + 1] = b
    BY <1>1, <2>1, AppendProperties
  <2>3. DOMAIN backends' = 1..(Len(backends) + 1)
    BY <2>2, LenProperties
  <2>4. QED
    BY <1>2, <1>4, <2>2, <2>3
<1>5. QED
  BY <1>3, <1>4

(* Registering a backend keeps what relates entries, map and log. *)
LEMMA RegisterKeeps ==
  ASSUME RegistryInv, NEW b \in Entries, Register(b)
  PROVE  /\ log' \in Seq(Entries) /\ backends' \in Seq(Entries)
         /\ EntriesAreLast' /\ NamesKept' /\ OrderKept' /\ MapKept'
<1> DEFINE n == Len(log) + 1
<1>1. /\ log' = Append(log, b) /\ backends' = SetEntry(b)
      /\ modelMap' = Mapped(b)
  BY DEF Register
<1>2. /\ log' \in Seq(Entries)
      /\ DOMAIN log = 1..Len(log) /\ Len(log) \in Nat
      /\ DOMAIN log' = 1..n
      /\ \A i \in DOMAIN log : i \in DOMAIN log' /\ log'[i] = log[i]
      /\ log'[n] = b
  BY <1>1, LogGrows
<1>3. /\ backends' \in Seq(Entries)
      /\ DOMAIN backends = 1..Len(backends) /\ Len(backends) \in Nat
      /\ DOMAIN backends \subseteq DOMAIN backends'
      /\ \A k \in DOMAIN backends :
           backends'[k] = IF backends[k].name = b.name THEN b ELSE backends[k]
      /\ \A k \in DOMAIN backends' \ DOMAIN backends :
           /\ k = Len(backends) + 1 /\ backends'[k] = b
           /\ \A l \in DOMAIN backends : backends[l].name # b.name
      /\ \E k \in DOMAIN backends' : backends'[k].name = b.name
  BY <1>1, EntrySet
<1>4. /\ n \in DOMAIN log' /\ n \notin DOMAIN log
      /\ \A i \in DOMAIN log' : i <= n /\ (i = n \/ (i \in DOMAIN log /\ i < n))
  BY <1>2
<1> HIDE DEF n
<1>5. \A name : NamedAt(log', name) = NamedAt(log, name) \union (IF name = b.name THEN {n} ELSE {})
  BY <1>2, <1>4 DEF NamedAt
<1>6. \A m : Listing(log', m) = Listing(log, m) \union (IF m \in b.models THEN {n} ELSE {})
  BY <1>2, <1>4 DEF Listing
<1>7. EntriesAreLast'
  <2> SUFFICES ASSUME NEW k \in DOMAIN backends'
               PROVE  \E i \in DOMAIN log' :
                        LastOf(i, NamedAt(log', backends'[k].name)) /\ backends'[k] = log'[i]
    BY DEF EntriesAreLast, LastOf
  <2>1. CASE backends'[k] = b
    <3>1. LastOf(n, NamedAt(log', b.name))
      BY <1>2, <1>4, <1>5 DEF LastOf, NamedAt
    <3>2. QED
      BY <1>2, <1>4, <2>1, <3>1
  <2>2. CASE backends'[k] # b
    <3>1. k \in DOMAIN backends /\ backends'[k] = backends[k] /\ backends[k].name # b.name
      BY <1>3, <2>2
    <3>2. PICK i \in DOMAIN log :
            LastOf(i, NamedAt(log, backends[k].name)) /\ backends[k] = log[i]
      BY <3>1 DEF RegistryInv, EntriesAreLast
    <3>3. NamedAt(log', backends[k].name) = NamedAt(log, backends[k].name)
      BY <1>5, <3>1
    <3>4. i \in DOMAIN log' /\ log'[i] = log[i]
      BY <1>2
    <3>5. LastOf(i, NamedAt(log', backends'[k].name)) /\ backends'[k] = log'[i]
      BY <3>1, <3>2, <3>3, <3>4
    <3>6. QED
      BY <3>4, <3>5
  <2>3. QED
    BY <2>1, <2>2
<1>8. NamesKept'
  <2> SUFFICES ASSUME NEW i \in DOMAIN log'
               PROVE  \E k \in DOMAIN backends' : backends'[k].name = log'[i].name
    BY DEF NamesKept
  <2>1. CASE i = n
    BY <1>2, <1>3, <2>1
  <2>2. CASE i \in DOMAIN log
    <3>1. PICK k \in DOMAIN backends : backends[k].name = log[i].name
      BY <2>2 DEF RegistryInv, NamesKept
    <3>2. k \in DOMAIN backends' /\ backends'[k].name = backends[k].name
      BY <1>3
    <3>3. QED
      BY <1>2, <2>2, <3>1, <3>2
  <2>3. QED
    BY <1>4, <2>1, <2>2
<1>9. OrderKept'
  <2>1. \A k \in DOMAIN backends : backends'[k].name = backends[k].name
    BY <1>3
  <2> SUFFICES ASSUME NEW k \in DOMAIN backends', NEW l \in DOMAIN backends', k < l
               PROVE  \E i \in NamedAt(log', backends'[k].name) :
                        \A j \in NamedAt(log', backends'[l].name) : i < j
    BY DEF OrderKept
  <2>2. k \in DOMAIN backends
    BY <1>3, LenProperties
  <2>3. CASE l \in DOMAIN backends
    <3>1. PICK i \in NamedAt(log, backends[k].name) : \A j \in NamedAt(log, backends[l].name) : i < j
      BY <2>2, <2>3 DEF RegistryInv, OrderKept
    <3>2. i \in NamedAt(log', backends'[k].name)
      BY <1>2, <2>1, <2>2, <3>1 DEF NamedAt
    <3>3. i < n
      <4>1. i \in DOMAIN log
        BY <3>1 DEF NamedAt
      <4>2. i \in DOMAIN log'
        BY <1>2, <4>1
      <4>3. i # n
        BY <1>2, <1>4, <4>1
      <4>4. QED
        BY <1>4, <4>2, <4>3
    <3>4. \A j \in NamedAt(log', backends'[l].name) : j = n \/ j \in NamedAt(log, backends[l].name)
      BY <1>5, <2>1, <2>3
    <3>5. ASSUME NEW j \in NamedAt(log', backends'[l].name)
          PROVE  i < j
      <4>1. CASE j = n
        BY <3>3, <4>1
      <4>2. CASE j \in NamedAt(log, backends[l].name)
        BY <3>1, <4>2
      <4>3. QED
        BY <3>4, <4>1, <4>2
    <3>6. QED
      BY <3>2, <3>5
  <2>4. CASE l \notin DOMAIN backends
    <3>1. backends'[l] = b /\ \A x \in DOMAIN backends : backends[x].name # b.name
      BY <1>3, <2>4
    <3>2. PICK i \in DOMAIN log : LastOf(i, NamedAt(log, backends[k].name))
      BY <2>2 DEF RegistryInv, EntriesAreLast
    <3>3. i \in NamedAt(log', backends'[k].name) /\ i < n
      BY <1>2, <1>4, <2>1, <2>2, <3>2 DEF LastOf, NamedAt
    <3>4. NamedAt(log, b.name) = {}
      BY <3>1 DEF RegistryInv, NamesKept, NamedAt
    <3>5. NamedAt(log', b.name) = {n}
      BY <1>5, <3>4
    <3>6. QED
      BY <3>1, <3>3, <3>5
  <2>5. QED
    BY <2>3, <2>4
<1>10. MapKept'
  <2>1. /\ DOMAIN modelMap' = DOMAIN modelMap \union (b.models \ {"*"})
        /\ \A m \in DOMAIN modelMap' :
             modelMap'[m] = IF m \in b.models THEN b.name ELSE modelMap[m]
    BY <1>1 DEF Mapped
  <2>2. ASSUME NEW m \in DOMAIN modelMap'
        PROVE  \E i \in DOMAIN log' : LastOf(i, Listing(log', m)) /\ modelMap'[m] = log'[i].name
    <3>1. CASE m \in b.models
      <4>1. LastOf(n, Listing(log', m))
        BY <1>2, <1>4, <1>6, <3>1 DEF LastOf, Listing
      <4>2. QED
        BY <1>2, <1>4, <2>1, <3>1, <4>1
    <3>2. CASE m \notin b.models
      <4>1. m \in DOMAIN modelMap
        BY <2>1, <3>2
      <4>2. PICK i \in DOMAIN log : LastOf(i, Listing(log, m)) /\ modelMap[m] = log[i].name
        BY <4>1 DEF RegistryInv, MapKept
      <4>3. Listing(log', m) = Listing(log, m)
        BY <1>6, <3>2
      <4>4. QED
        BY <1>2, <2>1, <3>2, <4>2, <4>3
    <3>3. QED
      BY <3>1, <3>2
  <2>3. ASSUME NEW i \in DOMAIN log'
        PROVE  log'[i].models \ {"*"} \subseteq DOMAIN modelMap'
    <3>1. CASE i = n
      BY <1>2, <2>1, <3>1
    <3>2. CASE i \in DOMAIN log
      BY <1>2, <2>1, <3>2 DEF RegistryInv, MapKept
    <3>3. QED
      BY <1>4, <3>1, <3>2
  <2>4. QED
    BY <2>2, <2>3 DEF MapKept, LastOf
<1>11. QED
  BY <1>2, <1>3, <1>7, <1>8, <1>9, <1>10

(* Every step of the registry keeps the invariant. *)
LEMMA RegistryNextInv == RegistryInv /\ [RegistryNext]_registryVars => RegistryInv'
<1> SUFFICES ASSUME RegistryInv, [RegistryNext]_registryVars
             PROVE  RegistryInv'
  OBVIOUS
<1>1. CASE RegisterBuiltin
  <2> DEFINE b == Head(builtins)
  <2>1. builtins \in Seq(Entries) /\ builtins # <<>>
    BY <1>1 DEF RegisterBuiltin, RegistryInv
  <2>2. /\ b \in Entries /\ builtins' \in Seq(Entries)
        /\ Len(builtins') = Len(builtins) - 1
        /\ \A i \in 1..Len(builtins') : builtins'[i] = builtins[i + 1]
    BY <1>1, <2>1, HeadTailProperties DEF RegisterBuiltin
  <2>3. b = builtins[1]
    BY <2>1
  <2>4. Register(b)
    BY <1>1 DEF RegisterBuiltin
  <2>5. /\ log' \in Seq(Entries) /\ backends' \in Seq(Entries)
        /\ EntriesAreLast' /\ NamesKept' /\ OrderKept' /\ MapKept'
    BY <2>2, <2>4, RegisterKeeps
  <2>6. MockKept'
    <3>1. up' = up /\ log' = Append(log, b)
      BY <2>4 DEF Register
    <3>2. CASE \E i \in DOMAIN log : log[i] = Mock
      BY <2>2, <3>1, <3>2, LogGrows DEF RegistryInv, MockKept
    <3>3. CASE \E i \in DOMAIN builtins : builtins[i] = Mock
      <4>1. PICK i \in 1..Len(builtins) : builtins[i] = Mock
        BY <2>1, <3>3, LenProperties
      <4>2. CASE i = 1
        <5>1. log'[Len(log) + 1] = Mock /\ Len(log) + 1 \in DOMAIN log'
          BY <2>2, <2>3, <3>1, <4>1, <4>2, LogGrows
        <5>2. QED
          BY <3>1, <5>1 DEF RegistryInv, MockKept
      <4>3. CASE i # 1
        <5>1. i - 1 \in 1..Len(builtins') /\ builtins'[i - 1] = Mock
          BY <2>1, <2>2, <4>1, <4>3, LenProperties
        <5>2. i - 1 \in DOMAIN builtins'
          BY <2>2, <5>1, LenProperties
        <5>3. QED
          BY <3>1, <5>1, <5>2 DEF RegistryInv, MockKept
      <4>4. QED
        BY <4>2, <4>3
    <3>4. QED
      BY <3>2, <3>3 DEF RegistryInv, MockKept
  <2>7. QED
    BY <2>2, <2>5, <2>6 DEF RegistryInv
<1>2. ASSUME NEW b \in Custom, RegisterCustom(b)
      PROVE  RegistryInv'
  <2>1. b \in Entries /\ Register(b) /\ builtins' = builtins
    BY <1>2 DEF RegisterCustom, Entries
  <2>2. /\ log' \in Seq(Entries) /\ backends' \in Seq(Entries)
        /\ EntriesAreLast' /\ NamesKept' /\ OrderKept' /\ MapKept'
    BY <2>1, RegisterKeeps
  <2>3. MockKept'
    BY <2>1, LogGrows DEF Register, RegistryInv, MockKept
  <2>4. QED
    BY <2>1, <2>2, <2>3 DEF RegistryInv
<1>3. ASSUME NEW b \in Custom, Changes(b)
      PROVE  RegistryInv'
  <2>1. "mock" \in up'
    BY <1>3, RegistryAssumption DEF Changes, RegistryInv, MockKept
  <2>2. QED
    BY <1>3, <2>1 DEF Changes, RegistryInv, EntriesAreLast, NamesKept, OrderKept,
                      MapKept, MockKept, NamedAt, Listing, LastOf
<1>4. CASE Rebuild
  <2>1. /\ backends' = <<>> /\ modelMap' = <<>> /\ log' = <<>> /\ up' = up
        /\ builtins' = Builtins("vllm" \in up)
    BY <1>4 DEF Rebuild
  <2>2. /\ builtins' \in Seq(Entries)
        /\ \E i \in DOMAIN builtins' : builtins'[i] = Mock
    BY <2>1, BuiltinsTyped
  <2>3. /\ log' \in Seq(Entries) /\ backends' \in Seq(Entries)
        /\ EntriesAreLast' /\ NamesKept' /\ OrderKept' /\ MapKept'
    BY <2>1, EmptySeq DEF EntriesAreLast, NamesKept, OrderKept, MapKept
  <2>4. QED
    BY <2>1, <2>2, <2>3 DEF RegistryInv, MockKept
<1>5. CASE UNCHANGED registryVars
  BY <1>5 DEF registryVars, RegistryInv, EntriesAreLast, NamesKept, OrderKept,
              MapKept, MockKept, NamedAt, Listing, LastOf
<1>6. QED
  BY <1>1, <1>2, <1>3, <1>4, <1>5 DEF RegistryNext

(* The inductive invariant of the registry. *)
THEOREM RegistryInductive == RegistrySpec => []RegistryInv
<1>1. RegistryInit => RegistryInv
  <2> SUFFICES ASSUME RegistryInit
               PROVE  RegistryInv
    OBVIOUS
  <2>1. PICK keys \in SUBSET {"vllm", "groq", "gemini"} :
          /\ up = keys \union {"mock"} \union {b.id : b \in Custom}
          /\ builtins = Builtins("vllm" \in keys)
    BY DEF RegistryInit
  <2>2. /\ builtins \in Seq(Entries) /\ \E i \in DOMAIN builtins : builtins[i] = Mock
    BY <2>1, BuiltinsTyped
  <2>3. /\ log \in Seq(Entries) /\ backends \in Seq(Entries)
        /\ EntriesAreLast /\ NamesKept /\ OrderKept /\ MapKept
    BY EmptyRegistry DEF RegistryInit
  <2>4. QED
    BY <2>1, <2>2, <2>3 DEF RegistryInv, MockKept
<1>2. QED
  BY <1>1, RegistryNextInv, PTL DEF RegistrySpec

(***************************************************************************)
(* What the registry answers.                                              *)
(***************************************************************************)

(* Places are numbers from 1 on. *)
LEMMA LogPlaces ==
  ASSUME RegistryInv
  PROVE  \A i \in DOMAIN log : i \in Nat \ {0} /\ log[i] \in Entries
BY LenProperties, ElementOfSeq DEF RegistryInv

(* An entry is found by its name. *)
LEMMA NamedEntry ==
  ASSUME RegistryInv, NEW k \in DOMAIN backends
  PROVE  Named(backends[k].name) = backends[k]
<1>1. DOMAIN backends = 1..Len(backends) /\ Len(backends) \in Nat
  BY LenProperties DEF RegistryInv
<1>2. ASSUME NEW l \in DOMAIN backends, backends[l].name = backends[k].name
      PROVE  l = k
  <2>1. \A x, y \in DOMAIN backends : x < y => backends[x].name # backends[y].name
    BY LogPlaces DEF RegistryInv, OrderKept, NamedAt
  <2>2. QED
    BY <1>1, <1>2, <2>1
<1>3. ToSet(backends) = {backends[l] : l \in DOMAIN backends}
  BY <1>1 DEF ToSet
<1>4. \A b \in ToSet(backends) : b.name = backends[k].name => b = backends[k]
  BY <1>2, <1>3
<1>5. QED
  BY <1>3, <1>4 DEF Named

(* The backend that has a name now is the name's entry. *)
LEMMA SuccessorEntry ==
  ASSUME RegistryInv, NEW i \in DOMAIN log
  PROVE  \E k \in DOMAIN backends :
           backends[k].name = log[i].name /\ backends[k] = log[Successor(i)]
<1>1. PICK k \in DOMAIN backends : backends[k].name = log[i].name
  BY DEF RegistryInv, NamesKept
<1>2. PICK s \in DOMAIN log : LastOf(s, NamedAt(log, log[i].name)) /\ backends[k] = log[s]
  BY <1>1 DEF RegistryInv, EntriesAreLast
<1>3. NamedAt(log, log[i].name) \subseteq Nat \ {0}
  BY LogPlaces DEF NamedAt
<1>4. Last1(NamedAt(log, log[i].name)) = s
  BY <1>2, <1>3, LastIsLast1 DEF LastOf
<1>5. QED
  BY <1>1, <1>2, <1>4 DEF Successor, NamedAt

(* The entry that falls back is the first in the log whose present owner   *)
(* takes any model.                                                        *)
LEMMA FallbackEntry ==
  ASSUME RegistryInv, NEW m
  PROVE  LET wild == {i \in DOMAIN log : /\ "*" \in log[Successor(i)].models
                                         /\ log[Successor(i)].id \in up}
         IN  Fallback(m) = IF wild = {} THEN "ValueError"
                           ELSE log[Successor(First(wild))].id
<1> DEFINE wild == {i \in DOMAIN log : /\ "*" \in log[Successor(i)].models
                                       /\ log[Successor(i)].id \in up}
<1>1. \A i \in DOMAIN log, k \in DOMAIN backends :
        backends[k].name = log[i].name => backends[k] = log[Successor(i)]
  <2> TAKE i \in DOMAIN log, k \in DOMAIN backends
  <2> HAVE backends[k].name = log[i].name
  <2>1. PICK l \in DOMAIN backends :
          backends[l].name = log[i].name /\ backends[l] = log[Successor(i)]
    BY SuccessorEntry
  <2>2. backends[l] = Named(log[i].name) /\ backends[k] = Named(log[i].name)
    BY <2>1, NamedEntry
  <2>3. QED
    BY <2>1, <2>2
<1>2. \A i \in DOMAIN log, k \in DOMAIN backends :
        backends[k].name = log[i].name => (i \in wild <=> k \in Wildcards)
  BY <1>1 DEF Wildcards
<1>3. \A k \in DOMAIN backends : \E i \in DOMAIN log : log[i].name = backends[k].name
  BY DEF RegistryInv, EntriesAreLast
<1>4. \A i \in DOMAIN log : \E k \in DOMAIN backends : backends[k].name = log[i].name
  BY DEF RegistryInv, NamesKept
<1>5. wild \subseteq DOMAIN log /\ Wildcards \subseteq DOMAIN backends
  BY DEF Wildcards
<1> HIDE DEF wild
<1>6. wild = {} <=> Wildcards = {}
  BY <1>2, <1>3, <1>4, <1>5
<1>7. ASSUME wild # {}
      PROVE  backends[First(Wildcards)] = log[Successor(First(wild))]
  <2>1. wild \subseteq Nat /\ Wildcards \subseteq Nat
    BY <1>5, LogPlaces, LenProperties DEF RegistryInv
  <2> DEFINE i == First(wild)
             f == First(Wildcards)
  <2>2. i \in wild /\ \A j \in wild : i <= j
    BY <1>7, <2>1, LeastNumber
  <2>3. f \in Wildcards /\ \A l \in Wildcards : f <= l
    BY <1>6, <1>7, <2>1, LeastNumber
  <2> HIDE DEF i, f
  <2>4. PICK k \in DOMAIN backends : backends[k].name = log[i].name
    BY <1>4, <1>5, <2>2
  <2>5. k \in Wildcards
    BY <1>2, <1>5, <2>2, <2>4
  <2>6. ~(f < k)
    <3> SUFFICES ASSUME f < k
                 PROVE  FALSE
      OBVIOUS
    <3>1. PICK x \in NamedAt(log, backends[f].name) :
            \A j \in NamedAt(log, backends[k].name) : x < j
      BY <1>5, <2>3 DEF RegistryInv, OrderKept
    <3>2. x \in wild
      BY <1>2, <1>5, <2>3, <3>1 DEF NamedAt
    <3>3. x < i
      BY <1>5, <2>2, <2>4, <3>1 DEF NamedAt
    <3>4. QED
      BY <2>1, <2>2, <3>2, <3>3
  <2>7. f = k
    <3>1. f \in Nat /\ k \in Nat /\ f <= k
      BY <2>1, <2>3, <2>5
    <3>2. QED
      BY <2>6, <3>1
  <2>8. QED
    BY <1>1, <1>5, <2>2, <2>4, <2>7 DEF i, f
<1>8. Fallback(m) = IF wild = {} THEN "ValueError" ELSE log[Successor(First(wild))].id
  BY <1>6, <1>7 DEF Fallback
<1>9. QED
  BY <1>8 DEF wild

(* Who answers, told from the order of registration alone. *)
LEMMA RouteByLog ==
  ASSUME RegistryInv, NEW m \in Models
  PROVE  LET owner == Last1(Listing(log, m))
             wild  == {i \in DOMAIN log : /\ "*" \in log[Successor(i)].models
                                          /\ log[Successor(i)].id \in up}
         IN Route(m) = IF owner # 0 /\ log[Successor(owner)].id \in up
                       THEN log[Successor(owner)].id
                       ELSE IF wild = {} THEN "ValueError"
                       ELSE log[Successor(First(wild))].id
<1>1. CASE m \in DOMAIN modelMap
  <2>1. PICK i \in DOMAIN log : LastOf(i, Listing(log, m)) /\ modelMap[m] = log[i].name
    BY <1>1 DEF RegistryInv, MapKept
  <2>2. Last1(Listing(log, m)) = i
    BY <2>1, LogPlaces, LastIsLast1 DEF Listing, LastOf
  <2>3. Named(modelMap[m]) = log[Successor(i)]
    BY <2>1, SuccessorEntry, NamedEntry
  <2>4. i # 0
    BY LogPlaces
  <2>5. QED
    BY <1>1, <2>2, <2>3, <2>4, FallbackEntry DEF Route
<1>2. CASE m \notin DOMAIN modelMap
  <2>1. Listing(log, m) = {}
    BY <1>2 DEF RegistryInv, MapKept, Listing, Models
  <2>2. Last1(Listing(log, m)) = 0
    BY <2>1 DEF Last1
  <2>3. QED
    BY <1>2, <2>2, FallbackEntry DEF Route
<1>3. QED
  BY <1>1, <1>2

(* The last owner answers, and the first wildcard where nobody who lists   *)
(* the model can (models/registry.py 29-79, backend_loader.py 131-132),    *)
(* for every set of third-party backends and any names and models they     *)
(* claim.                                                                  *)
THEOREM RoutedAsRegistered == RegistrySpec => []RoutesAsRegistered
<1>1. RegistryInv => RoutesAsRegistered
  BY RouteByLog DEF RoutesAsRegistered, Listing
<1>2. QED
  BY <1>1, RegistryInductive, PTL

(* The ids of what is registered are no answer of an error, and mock's is  *)
(* the mock backend's alone. *)
LEMMA EntryIds ==
  \A b \in Entries : b.id # "ValueError" /\ (b.id = "mock" => b = Mock)
BY RegistryAssumption DEF Entries, Backend, Mock

(* While no other backend has taken the mock's name, inference never ends  *)
(* in ValueError (models/registry.py 68-79).                               *)
THEOREM SomebodyAnswers == RegistrySpec => []AlwaysAnswered
<1>1. RegistryInv => AlwaysAnswered
  <2> SUFFICES ASSUME RegistryInv, builtins = <<>>,
                      \A i \in DOMAIN log : log[i].name = "mock" => log[i].id = "mock",
                      NEW m \in Models
               PROVE  Route(m) # "ValueError"
    BY DEF AlwaysAnswered
  <2>1. \A k \in DOMAIN backends : backends[k] \in Entries
    BY LenProperties, ElementOfSeq DEF RegistryInv
  <2>2. PICK i \in DOMAIN log : log[i] = Mock
    BY EmptySeq DEF RegistryInv, MockKept
  <2>3. PICK k \in DOMAIN backends : backends[k].name = "mock"
    BY <2>2 DEF RegistryInv, NamesKept, Mock, Backend
  <2>4. backends[k].id = "mock"
    BY <2>3 DEF RegistryInv, EntriesAreLast
  <2>5. k \in Wildcards
    BY <2>1, <2>4, EntryIds DEF RegistryInv, MockKept, Wildcards, Mock, Backend
  <2>6. Fallback(m) # "ValueError"
    <3>1. Wildcards \subseteq DOMAIN backends
      BY DEF Wildcards
    <3>2. Wildcards \subseteq Nat
      BY <3>1, LenProperties DEF RegistryInv
    <3>3. First(Wildcards) \in DOMAIN backends
      BY <2>5, <3>1, <3>2, LeastNumber
    <3>4. QED
      BY <2>1, <2>5, <3>3, EntryIds DEF Fallback
  <2>7. ASSUME m \in DOMAIN modelMap
        PROVE  Named(modelMap[m]).id # "ValueError"
    <3>1. PICK l \in DOMAIN backends : backends[l].name = modelMap[m]
      BY <2>7 DEF RegistryInv, MapKept, NamesKept
    <3>2. QED
      BY <2>1, <3>1, NamedEntry, EntryIds
  <2>8. QED
    BY <2>6, <2>7 DEF Route
<1>2. QED
  BY <1>1, RegistryInductive, PTL

(* A name has one entry, and a model's name has one. *)
THEOREM RegistryTypeCorrect == RegistrySpec => []RegistryTypeOK
<1>1. RegistryInv => RegistryTypeOK
  <2> SUFFICES ASSUME RegistryInv
               PROVE  RegistryTypeOK
    OBVIOUS
  <2>1. \A k, l \in DOMAIN backends : backends[k].name = backends[l].name => k = l
    <3>1. DOMAIN backends = 1..Len(backends) /\ Len(backends) \in Nat
      BY LenProperties DEF RegistryInv
    <3>2. \A x, y \in DOMAIN backends : x < y => backends[x].name # backends[y].name
      BY LogPlaces DEF RegistryInv, OrderKept, NamedAt
    <3>3. QED
      BY <3>1, <3>2
  <2>2. IsInjective([i \in DOMAIN backends |-> backends[i].name])
    BY <2>1 DEF IsInjective
  <2>3. ASSUME NEW m \in DOMAIN modelMap
        PROVE  \E b \in ToSet(backends) : b.name = modelMap[m]
    <3>1. PICK k \in DOMAIN backends : backends[k].name = modelMap[m]
      BY DEF RegistryInv, MapKept, NamesKept
    <3>2. backends[k] \in ToSet(backends)
      BY LenProperties DEF RegistryInv, ToSet
    <3>3. QED
      BY <3>1, <3>2
  <2>4. QED
    BY <2>2, <2>3 DEF RegistryTypeOK
<1>2. QED
  BY <1>1, RegistryInductive, PTL
===============================================================================
