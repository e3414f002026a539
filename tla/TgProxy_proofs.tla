--------------------------- MODULE TgProxy_proofs ---------------------------
(***************************************************************************)
(* The Telegram proxy's safety, for any number of workers, clients and     *)
(* sockets and any pool_size: the sockets are accounted for, a stop is     *)
(* heard, and a proxy that is over leaves nothing.  The inductive          *)
(* invariant is ProxyInv.                                                  *)
(***************************************************************************)
EXTENDS TgProxy, Listing_proofs, NaturalsInduction, WellFoundedInduction

(* A set of numbers has a least one: the first fresh socket of the bucket. *)
LEMMA Least == ASSUME NEW I \in SUBSET Nat, I # {} PROVE Min(I) \in I /\ \A y \in I : Min(I) <= y
<1> DEFINE R == {ss \in Nat \X Nat : ss[1] < ss[2]}
<1>1. IsWellFoundedOn(R, Nat)
  <2>1. OpToRel(<, Nat) = R
    BY DEF OpToRel
  <2> QED
    BY NatLessThanWellFounded, <2>1
<1>2. PICK x \in I : \A y \in I : ~(<<y, x>> \in R)
  <2> HIDE DEF R
  <2> QED
    BY <1>1, WFMin
<1>3. ASSUME NEW y \in I PROVE x <= y
  <2>1. ~(y < x)
    BY <1>2
  <2> QED
    BY <2>1
<1> QED
  BY <1>3 DEF Min

-----------------------------------------------------------------------------
(* The sockets that the refill still tries to connect, or has not adopted yet. *)
Trying == At("connecting") \cup At("made")

(* Types, of the pool, the clients and the program. *)
PoolTypes == PoolTypeOK /\ rotating \in BOOLEAN

Types == /\ PoolTypes
         /\ place \in [Client -> {"none", "init", "greet", "h2open", "cf", "tcp", "connect", "bridge", "pipe"}]
         /\ holds \in [Client -> Socket \cup {NoSocket}] /\ dropped \subseteq Socket /\ tcpBusy \in BOOLEAN

AppTypes == /\ op \in [AppWorker -> {"idle", "start", "stop", "join", "restart", "rejoin"}]
            /\ tgLock \in AppWorker \cup {Nobody} /\ async \in BOOLEAN /\ told \in BOOLEAN
            /\ listens \in BOOLEAN /\ refreshes \in BOOLEAN
            /\ thread \in {"none", "boot", "serve", "relisten", "closing", "pools", "end", "last"}

(* The bucket lists every idle socket once, attempts run only inside a refill, and both
   together are within pool_size. *)
Bucket == /\ \A i, j \in 1..Len(bucket) : bucket[i] = bucket[j] => i = j
          /\ \A s \in Socket : where[s] \in {"idle", "stale"} <=> \E i \in 1..Len(bucket) : bucket[i] = s
          /\ Trying # {} => refill \in {"running", "unwinding"}
          /\ PoolIsBounded

(* A client's socket is with one client, or is dropped; only greeting and bridging clients
   have one. *)
Owned == /\ \A s \in Socket : where[s] = "client" <=> s \in dropped \/ \E c \in Client : holds[c] = s
         /\ \A c \in Client : holds[c] # NoSocket => holds[c] \notin dropped /\ place[c] \in {"greet", "bridge"}
         /\ \A c, d \in Client : holds[c] # NoSocket /\ holds[c] = holds[d] => c = d

(* The address of the data centre is taken by the one client that connects to it. *)
Dialing == /\ tcpBusy <=> \E c \in Client : place[c] = "connect"
           /\ \A c, d \in Client : place[c] = "connect" /\ place[d] = "connect" => c = d

(* What the clients and the tasks of the pool keep, whatever the program commands. *)
Relaying == Types /\ Bucket /\ Owned /\ Dialing

(* No client and no task that would connect: nothing begins again. *)
Quiet == /\ \A c \in Client : ~Serving(c)
         /\ bucket = <<>> /\ ~rotating /\ refill \in {"none", "unwinding"}

(* How far the server's end has come, by the place of its thread. *)
Ends == /\ thread # "serve" => ~listens
        /\ thread # "pools" => refill # "unwinding"
        /\ thread \in {"boot", "pools", "end", "last", "none"} => Quiet
        /\ thread \in {"boot", "end", "last", "none"} => refill = "none"
        /\ thread \in {"last", "none"} => ~refreshes /\ ~async
        /\ thread \notin {"last", "none"} => async

(* The lock is with the worker that waits for the thread, whose stop was heard. *)
Locking == /\ \A w \in AppWorker : op[w] \in {"join", "rejoin"} <=> tgLock = w
           /\ StopIsHeard

(* The inductive invariant. *)
ProxyInv == Relaying /\ AppTypes /\ Ends /\ Locking

-----------------------------------------------------------------------------
(* get skips the first n sockets, of which the last is the client's if it is fresh. *)
LEMMA GetLemma ==
  ASSUME bucket \in Seq(Socket), Get
  PROVE  \E n \in 0..Len(bucket) :
            /\ \/ Got = {} /\ n = Len(bucket)
               \/ n >= 1 /\ Got = {bucket[n]} /\ where[bucket[n]] = "idle"
            /\ bucket' \in Seq(Socket) /\ Len(bucket') = Len(bucket) - n
            /\ \A k \in 1..Len(bucket) - n : bucket'[k] = bucket[n + k]
            /\ where' = [s \in Socket |-> IF s \in Got THEN "client"
                                          ELSE IF \E k \in 1..n : bucket[k] = s THEN "closing"
                                          ELSE where[s]]
<1> DEFINE I == {k \in 1..Len(bucket) : Fresh(bucket[k])}
           i == SelectInSeq(bucket, Fresh)
           n == IF i = 0 THEN Len(bucket) ELSE i
<1>0. Len(bucket) \in Nat
  OBVIOUS
<1>1. i = IF I # {} THEN Min(I) ELSE 0
  BY DEF SelectInSeq
<1>2. I # {} => i \in I
  <2>1. I \in SUBSET Nat
    BY <1>0
  <2> HIDE DEF I, i
  <2> QED
    BY <1>1, <2>1, Least
<1>3. i \in 0..Len(bucket) /\ (i # 0 => where[bucket[i]] = "idle")
  BY <1>0, <1>1, <1>2 DEF Fresh
<1>4. Got = IF i = 0 THEN {} ELSE {bucket[i]}
  BY DEF Got
<1>5. /\ bucket' = SubSeq(bucket, n + 1, Len(bucket))
      /\ where' = [s \in Socket |-> IF s \in Got THEN "client"
                                    ELSE IF \E k \in 1..n : bucket[k] = s THEN "closing"
                                    ELSE where[s]]
  BY DEF Get
<1> HIDE DEF i
<1>6. n \in 0..Len(bucket)
  BY <1>0, <1>3
<1>7. /\ bucket' \in Seq(Socket) /\ Len(bucket') = Len(bucket) - n
      /\ \A k \in 1..Len(bucket) - n : bucket'[k] = bucket[n + k]
  <2>1. \A k \in n + 1 .. Len(bucket) : bucket[k] \in Socket
    BY <1>0, <1>6
  <2> HIDE DEF n
  <2>2. /\ SubSeq(bucket, n + 1, Len(bucket)) \in Seq(Socket)
        /\ Len(SubSeq(bucket, n + 1, Len(bucket))) = IF n + 1 <= Len(bucket) THEN Len(bucket) - (n + 1) + 1 ELSE 0
        /\ \A k \in 1..Len(bucket) - (n + 1) + 1 : SubSeq(bucket, n + 1, Len(bucket))[k] = bucket[n + 1 + k - 1]
    BY <1>0, <1>6, <2>1, SubSeqProperties
  <2> QED
    BY <1>0, <1>5, <1>6, <2>2
<1>8. \/ Got = {} /\ n = Len(bucket)
      \/ n >= 1 /\ Got = {bucket[n]} /\ where[bucket[n]] = "idle"
  BY <1>0, <1>3, <1>4
<1> QED
  BY <1>5, <1>6, <1>7, <1>8

(* The attempts of the refill are finitely many, fewer when one of them ends. *)
LEMMA Finite == /\ IsFiniteSet(Trying) /\ Cardinality(Trying) \in Nat
                /\ IsFiniteSet(Trying') /\ Cardinality(Trying') \in Nat
                /\ Trying' \subseteq Trying => Cardinality(Trying') <= Cardinality(Trying)
<1>1. Trying \subseteq Socket /\ Trying' \subseteq Socket
  BY DEF Trying, At
<1>2. IsFiniteSet(Trying) /\ IsFiniteSet(Trying')
  BY <1>1, PoolAssumption, FS_Subset
<1> QED
  BY <1>2, FS_Subset, FS_CardinalityType

(* get keeps the pool in order and hands over one idle socket, or none. *)
LEMMA GetKeeps ==
  ASSUME PoolTypes, Bucket, Get
  PROVE  /\ PoolTypes' /\ Bucket'
         /\ Got = {} \/ \E s \in Socket : Got = {s} /\ where[s] = "idle"
         /\ \A s \in Socket : where'[s] = "client" <=> where[s] = "client" \/ s \in Got
<1> USE DEF PoolTypes, PoolTypeOK
<1>0. Len(bucket) \in Nat /\ \A i \in 1..Len(bucket) : bucket[i] \in Socket
  OBVIOUS
<1>1. PICK n \in 0..Len(bucket) :
            /\ \/ Got = {} /\ n = Len(bucket)
               \/ n >= 1 /\ Got = {bucket[n]} /\ where[bucket[n]] = "idle"
            /\ bucket' \in Seq(Socket) /\ Len(bucket') = Len(bucket) - n
            /\ \A k \in 1..Len(bucket) - n : bucket'[k] = bucket[n + k]
            /\ where' = [s \in Socket |-> IF s \in Got THEN "client"
                                          ELSE IF \E k \in 1..n : bucket[k] = s THEN "closing"
                                          ELSE where[s]]
  BY GetLemma
<1>2. PoolTypes'
  BY <1>1 DEF Get, Scheduled
<1>3. Got = {} \/ \E s \in Socket : Got = {s} /\ where[s] = "idle"
  BY <1>0, <1>1
<1>4. \A s \in Socket : s \in Got => \E k \in 1..n : bucket[k] = s
  BY <1>1
<1>5. \A s \in Socket : (\E k \in 1..n : bucket[k] = s) => where[s] \in {"idle", "stale"}
  BY <1>0 DEF Bucket
<1>6. \A s \in Socket : where'[s] = "client" <=> where[s] = "client" \/ s \in Got
  BY <1>1, <1>5
<1>7. \A i, j \in 1..Len(bucket') : bucket'[i] = bucket'[j] => i = j
  <2> SUFFICES ASSUME NEW i \in 1..Len(bucket'), NEW j \in 1..Len(bucket'), bucket'[i] = bucket'[j] PROVE i = j
    OBVIOUS
  <2>1. n + i \in 1..Len(bucket) /\ n + j \in 1..Len(bucket) /\ bucket[n + i] = bucket[n + j]
    BY <1>0, <1>1
  <2>2. n + i = n + j
    BY <2>1 DEF Bucket
  <2> QED
    BY <1>0, <1>1, <2>2
<1>8. \A s \in Socket : where'[s] \in {"idle", "stale"} <=> \E i \in 1..Len(bucket') : bucket'[i] = s
  <2> SUFFICES ASSUME NEW s \in Socket
               PROVE  where'[s] \in {"idle", "stale"} <=> \E i \in 1..Len(bucket') : bucket'[i] = s
    OBVIOUS
  <2>1. ASSUME NEW i \in 1..Len(bucket'), bucket'[i] = s PROVE where'[s] \in {"idle", "stale"}
    <3>1. n + i \in 1..Len(bucket) /\ bucket[n + i] = s
      BY <1>0, <1>1, <2>1
    <3>2. where[s] \in {"idle", "stale"}
      BY <3>1 DEF Bucket
    <3>3. ~\E k \in 1..n : bucket[k] = s
      BY <1>0, <3>1 DEF Bucket
    <3> QED
      BY <1>1, <1>4, <3>2, <3>3
  <2>2. ASSUME where'[s] \in {"idle", "stale"} PROVE \E i \in 1..Len(bucket') : bucket'[i] = s
    <3>1. where[s] \in {"idle", "stale"} /\ ~\E k \in 1..n : bucket[k] = s
      BY <1>1, <2>2
    <3>2. PICK k \in 1..Len(bucket) : bucket[k] = s
      BY <3>1 DEF Bucket
    <3>3. k \notin 1..n /\ k - n \in 1..Len(bucket')
      BY <1>0, <1>1, <3>1, <3>2
    <3>4. n + (k - n) = k
      BY <1>0, <1>1
    <3>5. bucket'[k - n] = s
      BY <1>0, <1>1, <3>2, <3>3, <3>4
    <3> QED
      BY <3>3, <3>5
  <2> QED
    BY <2>1, <2>2
<1>9. Trying' = Trying
  BY <1>1, <1>4, <1>5 DEF Trying, At
<1>10. refill' \in {"running", "unwinding"} <=> refill \in {"running", "unwinding"}
  BY DEF Get, Scheduled
<1>11. PoolIsBounded'
  BY <1>0, <1>1, <1>9, Finite, PoolAssumption DEF PoolIsBounded, Trying, Bucket
<1> QED
  BY <1>2, <1>3, <1>6, <1>7, <1>8, <1>9, <1>10, <1>11 DEF Bucket

(* The tasks of the pool keep it and touch no client's socket. *)
LEMMA PoolKeeps ==
  ASSUME PoolTypes, Bucket, PoolStep
  PROVE  /\ PoolTypes' /\ Bucket'
         /\ \A s \in Socket : where'[s] = "client" <=> where[s] = "client"
<1> USE PoolAssumption DEF PoolTypes, PoolTypeOK
<1>0. Len(bucket) \in Nat /\ \A i \in 1..Len(bucket) : bucket[i] \in Socket
  OBVIOUS
<1>00. /\ PoolIsBounded <=> Len(bucket) + Cardinality(Trying) <= PoolSize
       /\ PoolIsBounded' <=> Len(bucket') + Cardinality(Trying') <= PoolSize
  BY DEF PoolIsBounded, Trying
<1> DEFINE Goal == /\ PoolTypes' /\ Bucket'
                   /\ \A s \in Socket : where'[s] = "client" <=> where[s] = "client"
<1>1. CASE RefillBegin
  <2>1. PICK new \in SUBSET At("unused") : Cardinality(new) = PoolSize - Len(bucket) /\ where' = Move(new, "connecting")
    BY <1>1 DEF RefillBegin
  <2>2. Trying = {} /\ Trying' = new
    BY <1>1, <2>1 DEF RefillBegin, Bucket, Trying, At, Move
  <2>3. PoolIsBounded'
    BY <1>0, <1>00, <1>1, <2>1, <2>2 DEF RefillBegin
  <2> QED
    BY <1>1, <2>1, <2>3 DEF RefillBegin, Bucket, Trying, At, Move
<1>2. CASE RefillEnd
  BY <1>2 DEF RefillEnd, Bucket, PoolIsBounded, Trying, At
<1>3. CASE Unwind
  <2>1. Trying' = {}
    BY <1>3 DEF Unwind, Trying, At, Move
  <2>2. PoolIsBounded'
    BY <1>0, <1>00, <1>3, <2>1, Finite, FS_EmptySet DEF Unwind, Bucket
  <2> QED
    BY <1>3, <2>1, <2>2 DEF Unwind, Bucket, Move, At
<1>4. CASE Rotate
  <2>1. /\ bucket' \in Seq(Socket) /\ Len(bucket') <= Len(bucket) /\ Len(bucket') \in Nat
        /\ \A k \in 1..Len(bucket') : \E i \in 1..Len(bucket) : bucket'[k] = bucket[i] /\ where[bucket[i]] = "idle"
        /\ \A i \in 1..Len(bucket) : where[bucket[i]] = "idle" => \E k \in 1..Len(bucket') : bucket'[k] = bucket[i]
        /\ \A i, j \in 1..Len(bucket') : bucket'[i] = bucket'[j] => i = j
    <3>1. bucket' = Kept(bucket, At("idle")) /\ \A i, j \in 1..Len(bucket) : bucket[i] = bucket[j] => i = j
      BY <1>4 DEF Rotate, Bucket
    <3>2. /\ Kept(bucket, At("idle")) \in Seq(Socket) /\ Len(Kept(bucket, At("idle"))) <= Len(bucket)
          /\ \A k \in 1..Len(Kept(bucket, At("idle"))) :
                \E i \in 1..Len(bucket) : Kept(bucket, At("idle"))[k] = bucket[i] /\ bucket[i] \in At("idle")
          /\ \A i \in 1..Len(bucket) : bucket[i] \in At("idle") =>
                \E k \in 1..Len(Kept(bucket, At("idle"))) : Kept(bucket, At("idle"))[k] = bucket[i]
          /\ \A i, j \in 1..Len(Kept(bucket, At("idle"))) :
                Kept(bucket, At("idle"))[i] = Kept(bucket, At("idle"))[j] => i = j
      BY <3>1, KeptIsPart
    <3>3. \A i \in 1..Len(bucket) : bucket[i] \in At("idle") <=> where[bucket[i]] = "idle"
      BY <1>0 DEF At
    <3> QED
      BY <3>1, <3>2, <3>3
  <2>2. where' = Move(At("stale"), "closing") /\ Trying' = Trying
    BY <1>4 DEF Rotate, Trying, At, Move
  <2>3. PoolIsBounded'
    BY <1>0, <1>00, <2>1, <2>2, Finite DEF Bucket
  <2>4. \A s \in Socket : where'[s] \in {"idle", "stale"} <=> \E i \in 1..Len(bucket') : bucket'[i] = s
    <3> SUFFICES ASSUME NEW s \in Socket
                 PROVE  where'[s] \in {"idle", "stale"} <=> \E i \in 1..Len(bucket') : bucket'[i] = s
      OBVIOUS
    <3>1. where'[s] = IF where[s] = "stale" THEN "closing" ELSE where[s]
      BY <2>2 DEF Move, At
    <3>2. where'[s] \in {"idle", "stale"} <=> where[s] = "idle"
      BY <3>1
    <3>3. ASSUME where[s] = "idle" PROVE \E i \in 1..Len(bucket') : bucket'[i] = s
      BY <2>1, <3>3 DEF Bucket
    <3>4. ASSUME NEW i \in 1..Len(bucket'), bucket'[i] = s PROVE where[s] = "idle"
      BY <2>1, <3>4
    <3> QED
      BY <3>2, <3>3, <3>4
  <2>5. rotating' \in BOOLEAN /\ refill' \in {"none", "created", "running", "unwinding"}
        /\ (refill \in {"running", "unwinding"} => refill' = refill)
    BY <1>4 DEF Rotate, Scheduled
  <2> QED
    BY <2>1, <2>2, <2>3, <2>4, <2>5 DEF Bucket, Move, At
<1>5. CASE Elapses
  BY <1>5 DEF Elapses, Bucket, PoolIsBounded, Trying, At
<1>6. ASSUME NEW s \in Socket, ConnectEnds(s) PROVE Goal
  <2>1. Trying' \subseteq Trying
    BY <1>6 DEF ConnectEnds, Trying, At
  <2>2. PoolIsBounded'
    BY <1>0, <1>00, <1>6, <2>1, Finite DEF ConnectEnds, Bucket
  <2> QED
    BY <1>6, <2>1, <2>2 DEF ConnectEnds, Bucket, Trying, At
<1>7. ASSUME NEW s \in Socket, Adopt(s) PROVE Goal
  <2>1. /\ bucket' \in Seq(Socket) /\ Len(bucket') = Len(bucket) + 1 /\ bucket'[Len(bucket) + 1] = s
        /\ \A i \in 1..Len(bucket) : bucket'[i] = bucket[i]
    BY <1>0, <1>7, AppendProperties DEF Adopt
  <2>2. where[s] = "made" /\ where' = [where EXCEPT ![s] = "idle"] /\ refill' = refill /\ refill = "running" /\ rotating' = rotating
    BY <1>7 DEF Adopt
  <2>3. s \in Trying /\ Trying' = Trying \ {s}
    BY <2>2 DEF Trying, At
  <2>4. Cardinality(Trying') = Cardinality(Trying) - 1
    BY <2>3, Finite, FS_RemoveElement
  <2>5. PoolIsBounded'
    BY <1>0, <1>00, <2>1, <2>4, Finite DEF Bucket
  <2>6. \A i \in 1..Len(bucket) : bucket[i] # s
    BY <2>2 DEF Bucket
  <2>7. \A i, j \in 1..Len(bucket') : bucket'[i] = bucket'[j] => i = j
    <3> SUFFICES ASSUME NEW i \in 1..Len(bucket'), NEW j \in 1..Len(bucket'), bucket'[i] = bucket'[j] PROVE i = j
      OBVIOUS
    <3>1. i \in 1..Len(bucket) \/ i = Len(bucket) + 1
      BY <1>0, <2>1
    <3>2. j \in 1..Len(bucket) \/ j = Len(bucket) + 1
      BY <1>0, <2>1
    <3> QED
      BY <2>1, <2>6, <3>1, <3>2 DEF Bucket
  <2>8. \A r \in Socket : where'[r] \in {"idle", "stale"} <=> \E i \in 1..Len(bucket') : bucket'[i] = r
    <3> SUFFICES ASSUME NEW r \in Socket
                 PROVE  where'[r] \in {"idle", "stale"} <=> \E i \in 1..Len(bucket') : bucket'[i] = r
      OBVIOUS
    <3>1. CASE r = s
      BY <1>0, <2>1, <2>2, <3>1
    <3>2. CASE r # s
      BY <1>0, <2>1, <2>2, <3>2 DEF Bucket
    <3> QED
      BY <3>1, <3>2
  <2> QED
    BY <2>1, <2>2, <2>3, <2>5, <2>7, <2>8 DEF Bucket
<1>8. ASSUME NEW s \in Socket, QuietClose(s) \/ Stales(s) PROVE Goal
  <2>1. Trying' = Trying
    BY <1>8 DEF QuietClose, Stales, Trying, At
  <2>2. PoolIsBounded'
    BY <1>00, <1>8, <2>1 DEF QuietClose, Stales, Bucket
  <2> QED
    BY <1>8, <2>1, <2>2 DEF QuietClose, Stales, Bucket
<1> QED
  BY <1>1, <1>2, <1>3, <1>4, <1>5, <1>6, <1>7, <1>8 DEF PoolStep

(* A socket that its owner closes is out of the pool. *)
LEMMA ClosedKeeps ==
  ASSUME PoolTypes, Bucket, NEW s, s \in Socket => where[s] = "client",
         where' = Move({s}, "unused"), UNCHANGED <<bucket, refill, rotating>>
  PROVE  PoolTypes' /\ Bucket'
<1> USE DEF PoolTypes, PoolTypeOK
<1>1. Trying' = Trying
  BY DEF Trying, At, Move
<1>2. PoolIsBounded'
  BY <1>1 DEF Bucket, PoolIsBounded, Trying
<1>3. PoolTypes'
  BY DEF Move
<1>4. \A r \in Socket : where'[r] \in {"idle", "stale"} <=> where[r] \in {"idle", "stale"}
  BY DEF Move
<1>5. bucket' = bucket /\ refill' = refill
  OBVIOUS
<1>6. Bucket'
  <2> HIDE DEF PoolTypes, PoolTypeOK
  <2>1. \A r \in Socket : where'[r] \in {"idle", "stale"} <=> \E i \in 1..Len(bucket') : bucket'[i] = r
    <3>1. \A r \in Socket : where[r] \in {"idle", "stale"} <=> \E i \in 1..Len(bucket) : bucket[i] = r
      BY DEF Bucket
    <3>2. \A r \in Socket : where'[r] \in {"idle", "stale"} <=> \E i \in 1..Len(bucket) : bucket[i] = r
      BY <1>4, <3>1
    <3> QED
      BY <1>5, <3>2
  <2> QED
    BY <1>1, <1>2, <1>5, <2>1 DEF Bucket
<1> QED
  BY <1>3, <1>6

(* A step that leaves the pool alone. *)
LEMMA SameKeeps == Bucket /\ PoolTypes /\ UNCHANGED poolVars => Bucket' /\ PoolTypes' /\ UNCHANGED where
BY DEF Bucket, poolVars, PoolIsBounded, Trying, At, PoolTypes, PoolTypeOK

(* close empties the bucket and touches no client's socket; a refill it cancels unwinds. *)
LEMMA ResetKeeps ==
  ASSUME PoolTypes, Bucket, Reset, refill # "unwinding"
  PROVE  /\ PoolTypes' /\ Bucket' /\ bucket' = <<>> /\ ~rotating' /\ refill' \in {"none", "unwinding"}
         /\ \A s \in Socket : where'[s] = "client" <=> where[s] = "client"
<1> USE PoolAssumption DEF PoolTypes, PoolTypeOK
<1>1. bucket' = <<>> /\ rotating' = FALSE /\ refill' \in {"none", "unwinding"} /\ (refill = "running" => refill' = "unwinding")
  BY DEF Reset
<1>2. where' = Move(At("idle") \cup At("stale"), "unused")
  BY DEF Reset
<1>3. \A s \in Socket : where'[s] = "client" <=> where[s] = "client"
  BY <1>2 DEF Move, At
<1>4. where' \in [Socket -> {"unused", "connecting", "made", "idle", "stale", "client", "closing"}]
  BY <1>2 DEF Move, At
<1>5. bucket' \in Seq(Socket)
  BY <1>1
<1>6. PoolTypes'
  BY <1>1, <1>4, <1>5
<1>7. Trying' = Trying
  BY <1>2 DEF Trying, At, Move
<1>8. Len(bucket) \in Nat /\ Len(bucket') = 0
  BY <1>1
<1>9. PoolIsBounded'
  BY <1>7, <1>8, Finite DEF Bucket, PoolIsBounded, Trying
<1>10. \A s \in Socket : where'[s] \notin {"idle", "stale"}
  BY <1>2 DEF Move, At
<1>11. Trying' # {} => refill' \in {"running", "unwinding"}
  BY <1>1, <1>7 DEF Bucket
<1>12. Bucket'
  <2> HIDE DEF PoolTypes, PoolTypeOK
  <2> QED
    BY <1>8, <1>9, <1>10, <1>11 DEF Bucket
<1> QED
  BY <1>1, <1>3, <1>6, <1>12

(* A step of the program, or of the thread, that leaves clients and pool alone. *)
LEMMA Untouched == Relaying /\ UNCHANGED <<relayVars, poolVars>> => Relaying' /\ (Quiet' <=> Quiet) /\ UNCHANGED refill
<1> SUFFICES ASSUME Relaying, UNCHANGED <<relayVars, poolVars>>
             PROVE  Relaying' /\ (Quiet' <=> Quiet) /\ UNCHANGED refill
  OBVIOUS
<1>1. Bucket' /\ PoolTypes' /\ UNCHANGED where
  BY SameKeeps DEF Relaying, Types
<1>2. UNCHANGED <<place, holds, dropped, tcpBusy, bucket, rotating, refill>>
  BY DEF relayVars, poolVars
<1> QED
  BY <1>1, <1>2 DEF Relaying, Types, Owned, Dialing, Quiet, Serving

(* A client lets go of what it holds, or closes it. *)
LEMMA HandsBack ==
  ASSUME Relaying, NEW c \in Client, place[c] \in {"greet", "bridge"}, UNCHANGED <<tcpBusy, bucket, refill, rotating>>,
         \/ LetsGo(c) /\ UNCHANGED where
         \/ HangUp(c) /\ UNCHANGED dropped
  PROVE  Relaying'
<1> USE DEF Relaying
<1>1. place' = [place EXCEPT ![c] = "none"] /\ holds' = [holds EXCEPT ![c] = NoSocket]
  BY DEF LetsGo, HangUp, GoOn
<1>2. Dialing'
  BY <1>1 DEF Dialing, Types
<1>3. CASE LetsGo(c) /\ UNCHANGED where
  <2>1. Bucket' /\ PoolTypes'
    BY <1>3 DEF Bucket, PoolTypes, PoolTypeOK, Types, PoolIsBounded, Trying, At
  <2>2. dropped' = dropped \cup ({holds[c]} \ {NoSocket})
    BY <1>3 DEF LetsGo
  <2>3. Types'
    BY <1>1, <2>1, <2>2 DEF Types
  <2>4. Owned'
    BY <1>1, <1>3, <2>2, RelayAssumption DEF Owned, Types
  <2> QED
    BY <1>2, <2>1, <2>3, <2>4
<1>4. CASE HangUp(c) /\ UNCHANGED dropped
  <2>1. where' = Move({holds[c]}, "unused")
    BY <1>4 DEF HangUp
  <2>2. holds[c] \in Socket => where[holds[c]] = "client"
    BY RelayAssumption DEF Owned
  <2>3. Bucket' /\ PoolTypes'
    BY <2>1, <2>2, ClosedKeeps DEF Types
  <2>4. Types'
    BY <1>1, <1>4, <2>3 DEF Types
  <2>5. \A s \in Socket : where'[s] = IF s = holds[c] THEN "unused" ELSE where[s]
    BY <2>1 DEF Move
  <2>6. Owned'
    BY <1>1, <1>4, <2>5, RelayAssumption DEF Owned, Types
  <2> QED
    BY <1>2, <2>3, <2>4, <2>6
<1> QED
  BY <1>3, <1>4

(* One client moves on: the address is taken by the client that connects to it. *)
LEMMA Dials ==
  ASSUME Types, Dialing, NEW c \in Client, NEW p, GoOn(c, p), tcpBusy' \in BOOLEAN,
         p = "connect" => ~tcpBusy /\ tcpBusy',
         p # "connect" => tcpBusy' = (tcpBusy /\ place[c] # "connect")
  PROVE  Dialing'
<1>1. \A d \in Client : place'[d] = IF d = c THEN p ELSE place[d]
  BY DEF GoOn, Types
<1>2. CASE p = "connect"
  BY <1>1, <1>2 DEF Dialing
<1>3. CASE p # "connect"
  <2>1. CASE place[c] = "connect"
    BY <1>1, <1>3, <2>1 DEF Dialing
  <2>2. CASE place[c] # "connect"
    <3>1. \A d \in Client : place'[d] = "connect" <=> place[d] = "connect"
      BY <1>1, <1>3, <2>2
    <3>2. tcpBusy' = tcpBusy
      BY <1>3, <2>2 DEF Types
    <3> QED
      BY <3>1, <3>2 DEF Dialing
  <2> QED
    BY <2>1, <2>2
<1> QED
  BY <1>2, <1>3

(* A cancelled client ends as on an error, with its socket and its address given back. *)
LEMMA CancelKeeps ==
  ASSUME Relaying, NEW c \in Client, Cancelled(c)
  PROVE  Relaying'
<1>1. CASE place[c] = "bridge" /\ BridgeCloses(c) /\ UNCHANGED <<tcpBusy, bucket, refill, rotating, backoff, connected>>
  BY <1>1, HandsBack DEF BridgeCloses
<1>2. CASE place[c] = "greet" /\ LetsGo(c) /\ UNCHANGED <<tcpBusy, poolVars>>
  BY <1>2, HandsBack DEF poolVars
<1>3. CASE /\ place[c] \notin {"bridge", "greet"} /\ GoOn(c, "none")
           /\ tcpBusy' = (tcpBusy /\ place[c] # "connect")
           /\ UNCHANGED <<holds, dropped, poolVars>>
  <2>1. Bucket' /\ PoolTypes' /\ UNCHANGED where
    BY <1>3, SameKeeps DEF Relaying, Types
  <2>2. Types' /\ Owned'
    BY <1>3, <2>1 DEF Relaying, Types, Owned, GoOn
  <2>3. Dialing'
    BY <1>3, Dials DEF Relaying, Types
  <2> QED
    BY <2>1, <2>2, <2>3 DEF Relaying
<1> QED
  BY <1>1, <1>2, <1>3 DEF Cancelled

(* Whatever a client or a task of the pool does keeps the sockets accounted for. *)
LEMMA RelayKeeps ==
  ASSUME Relaying, RelayStep
  PROVE  Relaying'
<1> USE DEF Relaying
<1>1. CASE PoolStep /\ UNCHANGED relayVars
  <2>1. /\ PoolTypes' /\ Bucket'
        /\ \A s \in Socket : where'[s] = "client" <=> where[s] = "client"
    BY <1>1, PoolKeeps DEF Types
  <2>2. UNCHANGED <<place, holds, dropped, tcpBusy>>
    BY <1>1 DEF relayVars
  <2> QED
    BY <2>1, <2>2 DEF Types, Owned, Dialing
<1>2. CASE TcpElapses
  <2>1. Bucket' /\ PoolTypes' /\ UNCHANGED where
    BY <1>2, SameKeeps DEF TcpElapses, Types
  <2>2. UNCHANGED <<place, holds, dropped, tcpBusy>>
    BY <1>2 DEF TcpElapses
  <2> QED
    BY <2>1, <2>2 DEF Types, Owned, Dialing
<1>3. ASSUME NEW s \in Socket, PeerEnds(s) PROVE Relaying'
  <2>1. Bucket' /\ PoolTypes'
    BY <1>3, ClosedKeeps DEF PeerEnds, Owned, Types
  <2>2. \A r \in Socket : where'[r] = IF r = s THEN "unused" ELSE where[r]
    BY <1>3 DEF PeerEnds, Move
  <2>3. s \in dropped /\ dropped' = dropped \ {s} /\ UNCHANGED <<place, holds, tcpBusy>>
    BY <1>3 DEF PeerEnds
  <2>4. Owned'
    BY <2>2, <2>3, RelayAssumption DEF Owned, Types
  <2> QED
    BY <2>1, <2>3, <2>4 DEF Types, Dialing
<1>4. ASSUME NEW c \in Client, Init64(c) PROVE Relaying'
  <2>1. place[c] = "init" /\ UNCHANGED <<tcpBusy, dropped>>
    BY <1>4 DEF Init64
  <2>2. ASSUME Bucket', PoolTypes', UNCHANGED holds, \A s \in Socket : where'[s] = "client" <=> where[s] = "client",
               NEW p \in {"none", "tcp", "h2open", "cf"}, GoOn(c, p)
        PROVE  Relaying'
    BY <2>1, <2>2 DEF Types, Owned, Dialing, GoOn
  <2>3. CASE GoOn(c, "none") /\ UNCHANGED <<holds, poolVars>>
    <3>1. Bucket' /\ PoolTypes' /\ UNCHANGED where
      BY <2>3, SameKeeps DEF Types
    <3> QED
      BY <2>2, <2>3, <3>1
  <2>4. CASE Get /\ Got # {} /\ GoOn(c, "greet") /\ holds' = [holds EXCEPT ![c] = CHOOSE s \in Got : TRUE]
    <3>1. /\ PoolTypes' /\ Bucket'
          /\ Got = {} \/ \E s \in Socket : Got = {s} /\ where[s] = "idle"
          /\ \A s \in Socket : where'[s] = "client" <=> where[s] = "client" \/ s \in Got
      BY <2>4, GetKeeps DEF Types
    <3>2. PICK s \in Socket : Got = {s} /\ where[s] = "idle"
      BY <2>4, <3>1
    <3>3. holds' = [holds EXCEPT ![c] = s]
      BY <2>4, <3>2
    <3>4. \A r \in Socket : where'[r] = "client" <=> where[r] = "client" \/ r = s
      BY <3>1, <3>2
    <3>5. s \notin dropped /\ \A d \in Client : holds[d] # s
      BY <3>2 DEF Owned
    <3>6. Owned'
      <4>1. \A d \in Client : holds'[d] = IF d = c THEN s ELSE holds[d]
        BY <3>3 DEF Types
      <4>2. \A d \in Client : place'[d] = IF d = c THEN "greet" ELSE place[d]
        BY <2>4 DEF GoOn, Types
      <4>3. dropped' = dropped /\ (holds[c] = NoSocket)
        BY <2>1 DEF Owned
      <4> QED
        BY <3>4, <3>5, <4>1, <4>2, <4>3, RelayAssumption DEF Owned
    <3>7. Types' /\ Dialing'
      BY <2>1, <2>4, <3>1, <3>3 DEF Types, Dialing, GoOn
    <3> QED
      BY <3>1, <3>6, <3>7
  <2>5. ASSUME NEW media \in BOOLEAN, (Get /\ Got = {}) \/ UNCHANGED poolVars, GoOn(c, FirstRoute(media)), UNCHANGED holds
        PROVE  Relaying'
    <3>1. FirstRoute(media) \in {"none", "tcp", "h2open", "cf"}
      BY DEF FirstRoute
    <3>2. CASE Get /\ Got = {}
      <4>1. PoolTypes' /\ Bucket' /\ \A s \in Socket : where'[s] = "client" <=> where[s] = "client"
        BY <3>2, GetKeeps DEF Types
      <4> QED
        BY <2>2, <2>5, <3>1, <4>1
    <3>3. CASE UNCHANGED poolVars
      <4>1. Bucket' /\ PoolTypes' /\ UNCHANGED where
        BY <3>3, SameKeeps DEF Types
      <4> QED
        BY <2>2, <2>5, <3>1, <4>1
    <3> QED
      BY <2>5, <3>2, <3>3
  <2> QED
    BY <1>4, <2>3, <2>4, <2>5 DEF Init64
<1>5. ASSUME NEW c \in Client, Greet(c) PROVE Relaying'
  <2>1. CASE GoOn(c, "bridge") /\ UNCHANGED <<holds, dropped>>
    <3>1. Bucket' /\ PoolTypes' /\ UNCHANGED where
      BY <1>5, SameKeeps DEF Greet, Types
    <3> QED
      BY <1>5, <2>1, <3>1 DEF Greet, Types, Owned, Dialing, GoOn
  <2>2. CASE LetsGo(c)
    BY <1>5, <2>2, HandsBack DEF Greet, poolVars
  <2> QED
    BY <1>5, <2>1, <2>2 DEF Greet
<1>6. ASSUME NEW c \in Client, H2Open(c) \/ CfRoute(c) \/ TcpBegin(c) \/ TcpEnd(c) \/ PipeEnds(c) PROVE Relaying'
  <2>1. UNCHANGED <<holds, dropped, poolVars>>
    BY <1>6 DEF H2Open, CfRoute, TcpBegin, TcpEnd, PipeEnds
  <2>2. Bucket' /\ PoolTypes' /\ UNCHANGED where
    BY <2>1, SameKeeps DEF Types
  <2>3. PICK p \in {"none", "bridge", "cf", "greet", "tcp", "connect", "pipe"} : GoOn(c, p)
    BY <1>6 DEF H2Open, CfRoute, TcpBegin, TcpEnd, PipeEnds
  <2>4. place[c] \in {"h2open", "cf", "tcp", "connect", "pipe"}
    BY <1>6 DEF H2Open, CfRoute, TcpBegin, TcpEnd, PipeEnds
  <2>5. Owned'
    BY <2>1, <2>2, <2>3, <2>4 DEF Owned, Types, GoOn
  <2>6. /\ tcpBusy' \in BOOLEAN
        /\ p = "connect" => ~tcpBusy /\ tcpBusy'
        /\ p # "connect" => tcpBusy' = (tcpBusy /\ place[c] # "connect")
    <3>1. \A q : GoOn(c, q) => q = p
      BY <2>3 DEF GoOn, Types
    <3> QED
      BY <1>6, <3>1 DEF H2Open, CfRoute, TcpBegin, TcpEnd, PipeEnds, Types
  <2>7. Dialing'
    BY <2>3, <2>6, Dials
  <2> QED
    BY <2>1, <2>2, <2>3, <2>5, <2>6, <2>7 DEF Types, GoOn
<1>7. ASSUME NEW c \in Client, RelayEnds(c) PROVE Relaying'
  BY <1>7, HandsBack DEF RelayEnds, BridgeCloses
<1> QED
  BY <1>1, <1>2, <1>3, <1>4, <1>5, <1>6, <1>7 DEF RelayStep

(* Once every client and the pool are gone nothing begins again. *)
LEMMA StaysQuiet ==
  ASSUME Relaying, Quiet, RelayStep
  PROVE  Quiet'
<1> USE DEF Quiet, Serving, Relaying, Types, PoolTypes, PoolTypeOK
<1>1. CASE PoolStep /\ UNCHANGED relayVars
  <2>1. /\ ~Rotate /\ ~RefillBegin /\ ~RefillEnd /\ \A s \in Socket : ~Adopt(s)
    BY DEF Rotate, RefillBegin, RefillEnd, Adopt
  <2>2. bucket' = bucket /\ rotating' = rotating /\ (refill' = refill \/ refill' = "none")
    BY <1>1, <2>1 DEF PoolStep, Unwind, Elapses, ConnectEnds, QuietClose, Stales
  <2> QED
    BY <1>1, <2>2 DEF relayVars
<1>2. CASE TcpElapses \/ \E s \in Socket : PeerEnds(s)
  <2>1. UNCHANGED <<place, bucket, rotating, refill>>
    BY <1>2 DEF TcpElapses, PeerEnds, poolVars
  <2> QED
    BY <2>1
<1>3. ASSUME NEW c \in Client
      PROVE  ~(Init64(c) \/ Greet(c) \/ H2Open(c) \/ CfRoute(c) \/ TcpBegin(c) \/ TcpEnd(c) \/ RelayEnds(c) \/ PipeEnds(c))
  BY DEF Init64, Greet, H2Open, CfRoute, TcpBegin, TcpEnd, RelayEnds, PipeEnds
<1> QED
  BY <1>1, <1>2, <1>3 DEF RelayStep

(* Only the server's end cancels a refill. *)
LEMMA NoUnwinding == ASSUME RelayStep, refill # "unwinding" PROVE refill' # "unwinding"
<1>1. ASSUME NEW c \in Client, Init64(c) PROVE refill' # "unwinding"
  BY <1>1 DEF Init64, Get, Scheduled, poolVars
<1>2. CASE PoolStep
  BY <1>2 DEF PoolStep, RefillBegin, RefillEnd, Unwind, Rotate, Scheduled, Elapses, ConnectEnds, Adopt, QuietClose, Stales
<1> QED
  BY <1>1, <1>2 DEF RelayStep, TcpElapses, PeerEnds, Greet, H2Open, CfRoute, TcpBegin, TcpEnd, RelayEnds, PipeEnds, poolVars

(* An idle proxy without a lock is in order. *)
LEMMA InitInv == ProxyInit => ProxyInv
<1> SUFFICES ASSUME ProxyInit PROVE ProxyInv
  OBVIOUS
<1>1. Trying = {} /\ Len(bucket) = 0 /\ bucket = <<>> /\ bucket \in Seq(Socket)
  BY DEF Trying, At, ProxyInit, PoolInit
<1>2. Types
  BY <1>1, RelayAssumption DEF ProxyInit, RelayInit, PoolInit, Types, PoolTypes, PoolTypeOK
<1>3. PoolIsBounded
  <2>1. Cardinality(Trying) = 0
    BY <1>1, FS_EmptySet
  <2> HIDE DEF Trying
  <2> QED
    BY <1>1, <2>1, PoolAssumption DEF PoolIsBounded, Trying
<1>4. Bucket
  BY <1>1, <1>3 DEF ProxyInit, PoolInit, Bucket
<1>5. Owned /\ Dialing
  BY RelayAssumption DEF ProxyInit, RelayInit, PoolInit, Owned, Dialing
<1>6. Quiet /\ Ends
  BY DEF ProxyInit, RelayInit, PoolInit, Quiet, Serving, Ends
<1>7. AppTypes /\ Locking
  BY TgAssumption DEF ProxyInit, AppTypes, Locking, StopIsHeard
<1> QED
  BY <1>2, <1>4, <1>5, <1>6, <1>7 DEF ProxyInv, Relaying

(* Every step keeps the invariant. *)
LEMMA StepInv == ProxyInv /\ [ProxyNext]_proxyVars => ProxyInv'
<1> SUFFICES ASSUME ProxyInv, [ProxyNext]_proxyVars PROVE ProxyInv'
  OBVIOUS
<1> USE TgAssumption DEF ProxyInv, Running, Now, InLoop, tgVars, appVars
<1>0. UNCHANGED <<relayVars, poolVars>> => Relaying' /\ (Quiet' <=> Quiet) /\ UNCHANGED refill
  BY Untouched
<1>1. ASSUME NEW w \in AppWorker, Command(w) PROVE ProxyInv'
  <2>1. AppTypes'
    BY <1>1 DEF Command, AppTypes
  <2>2. Ends'
    BY <1>1, <1>0 DEF Command, Ends
  <2>3. Locking'
    BY <1>1 DEF Command, Locking, StopIsHeard, AppTypes
  <2> QED
    BY <1>0, <1>1, <2>1, <2>2, <2>3 DEF Command
<1>2. ASSUME NEW w \in AppWorker, TgStart(w) PROVE ProxyInv'
  <2>1. AppTypes'
    BY <1>2 DEF TgStart, Launch, AppTypes
  <2>2. Ends'
    BY <1>2, <1>0 DEF TgStart, Launch, Ends, AppTypes
  <2>3. Locking'
    BY <1>2 DEF TgStart, Launch, Locking, StopIsHeard, AppTypes
  <2> QED
    BY <1>0, <1>2, <2>1, <2>2, <2>3 DEF TgStart
<1>3. ASSUME NEW w \in AppWorker, TgStop(w) PROVE ProxyInv'
  <2>1. AppTypes'
    BY <1>3 DEF TgStop, AppTypes
  <2>2. Ends'
    BY <1>3, <1>0 DEF TgStop, Ends
  <2>3. Locking'
    BY <1>3 DEF TgStop, Locking, StopIsHeard, AppTypes, Ends
  <2> QED
    BY <1>0, <1>3, <2>1, <2>2, <2>3 DEF TgStop
<1>4. ASSUME NEW w \in AppWorker, TgJoin(w) PROVE ProxyInv'
  <2>1. AppTypes'
    BY <1>4 DEF TgJoin, AppTypes
  <2>2. Ends'
    BY <1>4, <1>0 DEF TgJoin, Ends
  <2>3. Locking'
    BY <1>4 DEF TgJoin, Locking, StopIsHeard, AppTypes
  <2> QED
    BY <1>0, <1>4, <2>1, <2>2, <2>3 DEF TgJoin
<1>5. CASE Boot
  <2>1. Quiet /\ refill = "none" /\ ~listens /\ async
    BY <1>5 DEF Boot, Ends
  <2>2. UNCHANGED <<place, holds, dropped>> /\ tcpBusy' = FALSE
    BY <1>5 DEF Boot
  <2>3. CASE listens' = TRUE /\ thread' = "serve" /\ Warmup
    <3>1. UNCHANGED <<where, bucket>> /\ rotating' = TRUE /\ refill' \in {"none", "created"}
      BY <2>1, <2>3 DEF Warmup, Scheduled
    <3>2. Bucket' /\ PoolTypes'
      BY <2>1, <3>1 DEF Relaying, Types, Bucket, PoolTypes, PoolTypeOK, PoolIsBounded, Trying, At
    <3>3. Types' /\ Owned'
      BY <2>2, <3>1, <3>2 DEF Relaying, Types, Owned
    <3>4. Dialing'
      BY <2>1, <2>2 DEF Dialing, Relaying, Quiet, Serving
    <3>5. AppTypes' /\ Ends'
      BY <1>5, <2>1, <2>3, <3>1 DEF Boot, AppTypes, Ends
    <3>6. Locking'
      BY <1>5, <2>3 DEF Boot, AppTypes, Locking, StopIsHeard
    <3> QED
      BY <3>2, <3>3, <3>4, <3>5, <3>6 DEF Relaying
  <2>4. CASE thread' = "end" /\ UNCHANGED <<listens, poolVars>>
    <3>1. Bucket' /\ PoolTypes' /\ UNCHANGED where
      BY <2>4, SameKeeps DEF Relaying, Types
    <3>2. Types' /\ Owned'
      BY <2>2, <3>1 DEF Relaying, Types, Owned
    <3>3. Dialing' /\ Quiet' /\ refill' = "none"
      BY <2>1, <2>2, <2>4 DEF Dialing, Relaying, Quiet, Serving, poolVars
    <3>4. AppTypes' /\ Ends'
      BY <1>5, <2>1, <2>4, <3>3 DEF Boot, AppTypes, Ends
    <3>5. Locking'
      BY <1>5, <2>4 DEF Boot, AppTypes, Locking, StopIsHeard
    <3> QED
      BY <3>1, <3>2, <3>3, <3>4, <3>5 DEF Relaying
  <2> QED
    BY <1>5, <2>3, <2>4 DEF Boot
<1>6. CASE Connects
  <2>1. PICK c \in Client : Accept(c)
    BY <1>6 DEF Connects
  <2>2. Bucket' /\ PoolTypes' /\ UNCHANGED where
    BY <2>1, SameKeeps DEF Relaying, Types, Accept
  <2>3. Relaying'
    BY <2>1, <2>2 DEF Relaying, Types, Owned, Dialing, Accept, GoOn
  <2>4. AppTypes' /\ Locking'
    BY <1>6 DEF Connects, AppTypes, Locking, StopIsHeard
  <2>5. Ends'
    BY <1>6, <2>1 DEF Connects, Ends, Accept, poolVars
  <2> QED
    BY <2>3, <2>4, <2>5
<1>7. CASE Serve
  <2>1. AppTypes'
    BY <1>7 DEF Serve, AppTypes
  <2>2. Ends'
    BY <1>7, <1>0 DEF Serve, Ends
  <2>3. Locking'
    BY <1>7 DEF Serve, Locking, StopIsHeard, AppTypes
  <2> QED
    BY <1>0, <1>7, <2>1, <2>2, <2>3 DEF Serve
<1>8. CASE ListenerDies
  <2>1. AppTypes'
    BY <1>8 DEF ListenerDies, AppTypes
  <2>2. Ends'
    BY <1>8, <1>0 DEF ListenerDies, Ends
  <2>3. Locking'
    BY <1>8 DEF ListenerDies, Locking, StopIsHeard, AppTypes
  <2> QED
    BY <1>0, <1>8, <2>1, <2>2, <2>3 DEF ListenerDies
<1>9. CASE TgClose
  <2>1. thread = "closing" /\ UNCHANGED <<op, tgLock, async, told, listens, refreshes>>
    BY <1>9 DEF TgClose
  <2>2. ASSUME NEW c \in Client, Cancelled(c), UNCHANGED thread PROVE ProxyInv'
    <3>0. UNCHANGED refill
      BY <2>2 DEF Cancelled, poolVars
    <3>1. AppTypes' /\ Locking'
      BY <2>1, <2>2 DEF AppTypes, Locking, StopIsHeard
    <3>2. Ends'
      BY <2>1, <2>2, <3>0 DEF Ends
    <3> QED
      BY <2>2, <3>1, <3>2, CancelKeeps
  <2>3. CASE (\A c \in Client : ~Serving(c)) /\ Reset /\ thread' = "pools" /\ UNCHANGED relayVars
    <3>1. /\ PoolTypes' /\ Bucket' /\ bucket' = <<>> /\ ~rotating' /\ refill' \in {"none", "unwinding"}
          /\ \A s \in Socket : where'[s] = "client" <=> where[s] = "client"
      BY <2>1, <2>3, ResetKeeps DEF Relaying, Types, Ends
    <3>2. UNCHANGED <<place, holds, dropped, tcpBusy>>
      BY <2>3 DEF relayVars
    <3>3. Relaying' /\ Quiet'
      BY <2>3, <3>1, <3>2 DEF Relaying, Types, Owned, Dialing, Quiet, Serving
    <3>4. AppTypes' /\ Locking'
      BY <2>1, <2>3 DEF AppTypes, Locking, StopIsHeard
    <3>5. Ends'
      BY <2>1, <2>3, <3>3 DEF Ends
    <3> QED
      BY <3>3, <3>4, <3>5
  <2> QED
    BY <1>9, <2>2, <2>3 DEF TgClose
<1>10. CASE PoolsClosed
  <2>1. AppTypes'
    BY <1>10 DEF PoolsClosed, AppTypes
  <2>2. Ends'
    BY <1>10, <1>0 DEF PoolsClosed, Ends
  <2>3. Locking'
    BY <1>10 DEF PoolsClosed, Locking, StopIsHeard, AppTypes
  <2> QED
    BY <1>0, <1>10, <2>1, <2>2, <2>3 DEF PoolsClosed
<1>11. CASE End
  <2>1. AppTypes'
    BY <1>11 DEF End, AppTypes
  <2>2. Ends'
    BY <1>11, <1>0 DEF End, Ends
  <2>3. Locking'
    BY <1>11 DEF End, Locking, StopIsHeard, AppTypes
  <2> QED
    BY <1>0, <1>11, <2>1, <2>2, <2>3 DEF End
<1>12. CASE Inside /\ RelayStep /\ UNCHANGED tgVars
  <2>1. AppTypes' /\ Locking'
    BY <1>12 DEF AppTypes, Locking, StopIsHeard
  <2>2. Ends'
    BY <1>12, StaysQuiet, NoUnwinding DEF Ends, Inside
  <2> QED
    BY <1>12, <2>1, <2>2, RelayKeeps
<1>13. CASE UNCHANGED proxyVars
  <2>1. AppTypes' /\ Locking'
    BY <1>13 DEF proxyVars, AppTypes, Locking, StopIsHeard
  <2>2. Ends'
    BY <1>13, <1>0 DEF proxyVars, Ends
  <2> QED
    BY <1>0, <1>13, <2>1, <2>2 DEF proxyVars
<1> QED
  BY <1>1, <1>2, <1>3, <1>4, <1>5, <1>6, <1>7, <1>8, <1>9, <1>10, <1>11, <1>12, <1>13 DEF ProxyNext

(* The invariant holds throughout. *)
LEMMA SpecInv == ProxySpec => []ProxyInv
BY InitInv, StepInv, PTL DEF ProxySpec

-----------------------------------------------------------------------------
(* Types, the address that one client at most connects to, and the lock (zapret_core.py 1739-1751). *)
THEOREM ProxyTypes == ProxySpec => []ProxyTypeOK
<1>1. ProxyInv => ProxyTypeOK
  <2> SUFFICES ASSUME ProxyInv PROVE ProxyTypeOK
    OBVIOUS
  <2> USE DEF ProxyInv, Relaying
  <2> DEFINE busy == {c \in Client : place[c] = "connect"}
  <2>1. Cardinality(busy) <= 1
    <3>1. CASE busy = {}
      BY <3>1, FS_EmptySet
    <3>2. ASSUME NEW c \in busy PROVE Cardinality(busy) <= 1
      <4>1. busy = {c}
        BY <3>2 DEF Dialing
      <4> HIDE DEF busy
      <4> QED
        BY <4>1, FS_Singleton
    <3> QED
      BY <3>1, <3>2
  <2>2. RelayTypeOK
    BY <2>1 DEF RelayTypeOK, Types, Dialing
  <2> QED
    BY <2>2 DEF ProxyTypeOK, Types, PoolTypes, AppTypes, Locking
<1> QED
  BY <1>1, SpecInv, PTL

(* Every connected socket of the proxy has exactly one owner, and the pool stays within
   pool_size (pool.py 60-180, tg_ws_proxy.py 248-355). *)
THEOREM SocketsAccounted == ProxySpec => []SocketsAreAccounted
<1>1. ProxyInv => SocketsAreAccounted
  <2> SUFFICES ASSUME ProxyInv PROVE SocketsAreAccounted
    OBVIOUS
  <2> USE DEF ProxyInv, Relaying
  <2>1. PoolIsBounded
    BY DEF Bucket
  <2>2. ASSUME NEW s \in Socket, where[s] \in {"connecting", "made"} PROVE refill \in {"running", "unwinding"}
    BY <2>2 DEF Bucket, Trying, At
  <2>3. ASSUME NEW c \in Client, holds[c] # NoSocket
        PROVE  where[holds[c]] = "client" /\ \A d \in Client \ {c} : holds[d] # holds[c]
    BY <2>3 DEF Owned, Types
  <2>4. SocketsAreOwned
    BY <2>2, <2>3 DEF SocketsAreOwned, Bucket, Owned
  <2> QED
    BY <2>1, <2>4 DEF SocketsAreAccounted
<1> QED
  BY <1>1, SpecInv, PTL

(* A worker that waits for the proxy's end was heard, however early it stopped it. *)
THEOREM StopHeard == ProxySpec => []StopIsHeard
BY SpecInv, PTL DEF ProxyInv, Locking

(* The proxy that is over leaves no listener, client, socket or thread behind. *)
THEOREM OverIsOver == ProxySpec => []OverMeansOver
<1>1. ProxyInv => OverMeansOver
  <2> SUFFICES ASSUME ProxyInv, thread \in {"end", "last", "none"}
               PROVE  /\ ~listens /\ \A c \in Client : ~Serving(c)
                      /\ \A s \in Socket \ dropped : where[s] \in {"unused", "closing"}
                      /\ thread # "end" => ~refreshes /\ ~async
    BY DEF OverMeansOver
  <2> USE DEF ProxyInv, Relaying
  <2>1. Quiet /\ refill = "none" /\ ~listens /\ (thread # "end" => ~refreshes /\ ~async)
    BY DEF Ends
  <2>2. ASSUME NEW s \in Socket \ dropped PROVE where[s] \in {"unused", "closing"}
    <3>1. where[s] \in {"unused", "connecting", "made", "idle", "stale", "client", "closing"}
      BY DEF Types, PoolTypes, PoolTypeOK
    <3>2. where[s] \notin {"connecting", "made"}
      BY <2>1 DEF Bucket, Trying, At
    <3>3. where[s] \notin {"idle", "stale"}
      BY <2>1 DEF Bucket, Quiet
    <3>4. where[s] # "client"
      BY <2>1, RelayAssumption DEF Owned, Quiet, Serving, Types
    <3> QED
      BY <3>1, <3>2, <3>3, <3>4
  <2> QED
    BY <2>1, <2>2 DEF Quiet
<1> QED
  BY <1>1, SpecInv, PTL
=============================================================================
