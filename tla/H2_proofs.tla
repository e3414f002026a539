----------------------------- MODULE H2_proofs -----------------------------
(***************************************************************************)
(* The safety of the HTTP/2 transport for any channels, requests, packets  *)
(* and limits: the slots of a lane are those of its requests, a packet is  *)
(* repeated a few times at most and by one request at a time (LaneInv),    *)
(* and no coroutine of the connection sleeps through what it waits for     *)
(* (StreamsInv).                                                           *)
(***************************************************************************)
EXTENDS H2Lane, H2Streams, Listing_proofs

(* The types of a lane, of its channels and of the requests. *)
Named   == Packet \cup {Plain}
Records == [pkt : Packet, attempts : 0..MaxAttempts, retired : BOOLEAN, old : BOOLEAN]
Tasks   == [st : {"made", "post", "sent", "body"}, ch : Channel, pkt : Named,
            replay : BOOLEAN, kept : BOOLEAN, late : BOOLEAN, killed : BOOLEAN]
Waits   == [at : {"read", "slot", "lane", "over"}, pkt : Named]
Lives   == {"new", "preflight", "gone", "run", "end", "closing", "done"}

Recoveries == {Resting} \cup [at : {"pick"}] \cup [at : {"room"}, req : Request]
              \cup [at : {"replace"}, req : Request, pkt : Packet] \cup [at : {"send"}, pkt : Packet]

LaneTypes == /\ lane \in {"none", "up", "closed"} /\ inflight \in Nat /\ closed \in SUBSET Channel
             /\ life \in [Channel -> Lives] /\ upload \in [Channel -> Waits]
             /\ req \in [Request -> Tasks \cup {Free}] /\ recover \in [Channel -> Recoveries]

(* A history is short, and no packet of it has been sent again too often. *)
Histories == /\ history \in [Channel -> Seq(Records)]
             /\ \A c \in Channel : Len(history[c]) <= MaxHistory

(* The queue of a channel is short; when the channel is closed the error is all it holds. *)
Replies == /\ queue \in [Channel -> Seq({"reply", "error"})]
           /\ \A c \in Channel : /\ Len(queue[c]) <= MaxQueue
                                 /\ c \in closed => queue[c] \in {<<>>, <<"error">>}

(* The slots of the lane, and those of each channel: a packet that waits for the lane's
   slot has the channel's, which nothing else takes meanwhile. *)
Slots  == inflight = Cardinality({r \in Request : Live(r)}) /\ inflight <= MaxLane
Shares == \A c \in Channel : /\ Cardinality(Pending(c)) <= MaxChan
                             /\ upload[c].at = "lane" => Cardinality(Pending(c)) < MaxChan
                             /\ ~Listed(c) => Pending(c) = {}

(* Only a channel whose client is served sends. *)
Quiet == \A c \in Channel : life[c] # "run" => upload[c].at \in {"read", "over"} /\ recover[c] = Resting

(* The request that gives way to a repeated packet is itself one, until it is finished: so
   its place is free when _recover goes on. *)
Scarce == \A c \in Channel : /\ Cardinality(Replays(c)) <= MaxReplays
                             /\ recover[c].at = "send" => Cardinality(Replays(c)) < MaxReplays
                             /\ recover[c].at = "replace" => recover[c].req \in Replays(c)

(* A packet of the history is repeated by one request at a time. *)
Twin(r)  == Live(r) /\ req[r].replay /\ req[r].kept
OneCopy == \A r, s \in Request : /\ Twin(r) /\ Twin(s)
                                 /\ req[r].ch = req[s].ch /\ req[r].pkt = req[s].pkt
                                 => r = s

LaneInv == LaneTypes /\ Histories /\ Replies /\ Slots /\ Shares /\ Quiet /\ Scarce /\ OneCopy
-----------------------------------------------------------------------------
LEMMA Limits == /\ {MaxChan, MaxLane, MaxReplays, MaxAttempts, MaxHistory, MaxQueue} \in SUBSET (Nat \ {0})
                /\ MaxHistory \in Nat /\ MaxHistory >= 1 /\ (Cardinality(Packet) \in Nat => Cardinality(Packet) > MaxHistory)
BY LaneAssumption

LEMMA SomeRequests == ASSUME NEW S \in SUBSET Request PROVE IsFiniteSet(S) /\ Cardinality(S) \in Nat
BY FS_Subset, FS_CardinalityType, LaneAssumption

(* A list stays one when an entry of it changes. *)
LEMMA Changed ==
  ASSUME NEW S, NEW s \in Seq(S), NEW k, NEW v, k \in 1..Len(s) => v \in S
  PROVE  [s EXCEPT ![k] = v] \in Seq(S) /\ Len([s EXCEPT ![k] = v]) = Len(s)
<1>1. Len(s) \in Nat /\ DOMAIN s = 1..Len(s) /\ s \in [1..Len(s) -> S]
  OBVIOUS
<1> DEFINE t == [s EXCEPT ![k] = v]
<1>2. t \in [1..Len(s) -> S]
  BY <1>1
<1>3. t \in Seq(S) /\ Len(t) = Len(s)
  BY <1>1, <1>2
<1> QED
  BY <1>3

(* There is a packet that the history does not hold. *)
LEMMA UnsentIsPacket ==
  ASSUME Histories, NEW c \in Channel PROVE Unsent(c) \in Packet
<1> DEFINE N == Len(history[c])
           holds(i) == history[c][i].pkt
           told == [i \in 1..N |-> holds(i)]
           T == {told[i] : i \in 1..N}
<1>1. N \in Nat /\ N <= MaxHistory /\ N = Len(history[c])
  BY DEF Histories
<1>2. \A i \in 1..N : history[c][i].pkt \in T
  OBVIOUS
<1>3. told \in Surjection(1..N, T)
  BY DEF Surjection
<1> HIDE DEF N, told, T
<1>4. IsFiniteSet(1..N) /\ Cardinality(1..N) = N
  <2>1. N \in Nat
    BY <1>1
  <2> QED
    BY <2>1, FS_Interval
<1>5. IsFiniteSet(T) /\ Cardinality(T) <= N /\ Cardinality(T) \in Nat
  <2>1. IsFiniteSet(T) /\ Cardinality(T) <= Cardinality(1..N)
    BY <1>3, <1>4, FS_Surjection
  <2> QED
    BY <1>4, <2>1, FS_CardinalityType
<1>6. ~(Packet \in SUBSET T)
  <2> SUFFICES ASSUME Packet \in SUBSET T PROVE FALSE
    OBVIOUS
  <2>1. Cardinality(Packet) <= Cardinality(T) /\ Cardinality(Packet) \in Nat
    BY <1>5, FS_Subset, FS_CardinalityType
  <2>2. Cardinality(Packet) > MaxHistory /\ MaxHistory \in Nat
    BY <2>1, Limits
  <2> QED
    BY <1>1, <1>5, <2>1, <2>2
<1>7. PICK p \in Packet : p \notin T
  BY <1>6
<1>8. {i \in 1..Len(history[c]) : history[c][i].pkt = p} = {}
  BY <1>1, <1>2, <1>7
<1>9. Find(c, p) = 0
  BY <1>8 DEF Find
<1> QED
  BY <1>9 DEF Unsent

(* A place that Find gives is one of the history, and holds the packet. *)
LEMMA FindIsPlace ==
  ASSUME Histories, NEW c \in Channel, NEW p, Find(c, p) # 0
  PROVE  Find(c, p) \in 1..Len(history[c]) /\ history[c][Find(c, p)].pkt = p
<1> DEFINE N == Len(history[c])
           places == {i \in 1..N : history[c][i].pkt = p}
<1>1. N \in Nat /\ places \in SUBSET (1..N)
  BY DEF Histories
<1>2. places # {} /\ Find(c, p) = Nth(places, 1)
  BY DEF Find
<1>0. places \in SUBSET (1..Len(history[c])) /\ \A i \in places : history[c][i].pkt = p
  OBVIOUS
<1> HIDE DEF N, places
<1>3. IsFiniteSet(places) /\ Cardinality(places) \in Nat /\ \A k \in 1..Cardinality(places) : Nth(places, k) \in places
  BY <1>1, Numbered
<1>4. Cardinality(places) # 0
  BY <1>2, <1>3, FS_EmptySet
<1>5. 1 \in 1..Cardinality(places)
  BY <1>3, <1>4
<1>6. Nth(places, 1) \in places
  BY <1>3, <1>5
<1> QED
  BY <1>0, <1>2, <1>6

(* A history that is trimmed is short. *)
LEMMA TrimmedIsShort ==
  ASSUME Histories, NEW c \in Channel, NEW p \in Packet, NEW h \in Remembered(c, p)
  PROVE  Trimmed(c, p, h) \in Seq(Records) /\ Len(Trimmed(c, p, h)) <= MaxHistory
<1>1. MaxHistory \in Nat \ {0} /\ history[c] \in Seq(Records) /\ Len(history[c]) \in Nat /\ Len(history[c]) <= MaxHistory
  BY LaneAssumption DEF Histories
<1>2. Entry(p) \in Records
  BY LaneAssumption DEF Entry, Records
<1>3. h \in Seq(Records) /\ Len(h) \in Nat /\ Len(h) <= MaxHistory + 1
  <2>1. CASE h = history[c]
    BY <1>1, <2>1
  <2>2. CASE h = Append(history[c], Entry(p))
    BY <1>1, <1>2, <2>2
  <2>3. CASE h = <<Entry(p)>>
    <3>1. h \in Seq(Records) /\ Len(h) = 1
      BY <1>2, <2>3
    <3> QED
      BY <1>1, <3>1
  <2> QED
    BY <2>1, <2>2, <2>3 DEF Remembered
<1> DEFINE spare == {i \in 1..Len(h) : Spare(c, h[i], p)}
           i == IF spare = {} THEN 1 ELSE Nth(spare, 1)
<1>4. CASE Len(h) <= MaxHistory
  BY <1>3, <1>4 DEF Trimmed
<1>5. CASE ~(Len(h) <= MaxHistory)
  <2>1. IsFiniteSet(spare) /\ Cardinality(spare) \in Nat /\ \A k \in 1..Cardinality(spare) : Nth(spare, k) \in spare
    BY <1>3, Numbered
  <2>2. spare # {} => 1 \in 1..Cardinality(spare)
    <3> HIDE DEF spare
    <3>1. spare # {} => Cardinality(spare) # 0
      BY <2>1, FS_EmptySet
    <3> QED
      BY <2>1, <3>1
  <2>3. i \in 1..Len(h)
    <3>1. spare # {} => Nth(spare, 1) \in spare
      BY <2>1, <2>2
    <3>2. 1 \in 1..Len(h)
      BY <1>1, <1>3, <1>5
    <3> QED
      BY <3>1, <3>2
  <2>4. Trimmed(c, p, h) = RemoveAt(h, i)
    BY <1>5 DEF Trimmed
  <2> HIDE DEF i
  <2>5. RemoveAt(h, i) = SubSeq(h, 1, i-1) \o SubSeq(h, i+1, Len(h))
    BY DEF RemoveAt
  <2>6. SubSeq(h, 1, i-1) \in Seq(Records) /\ Len(SubSeq(h, 1, i-1)) = i - 1
    BY <1>3, <2>3, SubSeqProperties
  <2>7. SubSeq(h, i+1, Len(h)) \in Seq(Records) /\ Len(SubSeq(h, i+1, Len(h))) = Len(h) - i
    BY <1>3, <2>3, SubSeqProperties
  <2>8. RemoveAt(h, i) \in Seq(Records) /\ Len(RemoveAt(h, i)) = Len(h) - 1
    <3> DEFINE a == SubSeq(h, 1, i-1)
               b == SubSeq(h, i+1, Len(h))
    <3>1. a \in Seq(Records) /\ b \in Seq(Records) /\ RemoveAt(h, i) = a \o b
      BY <2>5, <2>6, <2>7
    <3>2. Len(a) = i - 1 /\ Len(b) = Len(h) - i
      BY <2>6, <2>7
    <3> HIDE DEF a, b
    <3>3. a \o b \in Seq(Records) /\ Len(a \o b) = Len(a) + Len(b)
      BY <3>1, ConcatProperties
    <3> QED
      BY <1>3, <2>3, <3>1, <3>2
  <2> QED
    BY <1>1, <1>3, <2>4, <2>8
<1> QED
  BY <1>4, <1>5
-----------------------------------------------------------------------------
(* Steps that begin and end no request. *)
Alike == \A r \in Request :
            /\ Live(r)' <=> Live(r)
            /\ Live(r) => /\ req'[r].ch = req[r].ch /\ req'[r].pkt = req[r].pkt
                          /\ (req'[r].replay <=> req[r].replay) /\ (req'[r].kept => req[r].kept)

LEMMA AlikeKeeps ==
  ASSUME Slots, OneCopy, Alike, inflight' = inflight
  PROVE  /\ Slots' /\ OneCopy'
         /\ \A c \in Channel : Pending(c)' = Pending(c) /\ Replays(c)' = Replays(c)
<1>1. {r \in Request : Live(r)}' = {r \in Request : Live(r)}
  BY DEF Alike
<1>2. \A c \in Channel : Pending(c)' = Pending(c)
  BY DEF Alike, Pending
<1>3. \A c \in Channel : Replays(c)' = Replays(c)
  BY DEF Alike, Replays, Pending
<1>4. OneCopy'
  BY DEF OneCopy, Alike, Twin
<1> QED
  BY <1>1, <1>2, <1>3, <1>4 DEF Slots

LEMMA SameRequests == ASSUME req' = req PROVE Alike
BY DEF Alike, Live

(* A request that is cancelled is still there. *)
LEMMA KilledIsAlike ==
  ASSUME LaneTypes, NEW set \in SUBSET Request, \A r \in set : Live(r), Kill(set)
  PROVE  Alike /\ req' \in [Request -> Tasks \cup {Free}]
<1>1. \A r \in Request : Live(r) => req[r] \in Tasks
  BY DEF LaneTypes, Live, Free
<1>2. \A r \in Request : req'[r] = IF r \in set THEN [req[r] EXCEPT !.killed = TRUE] ELSE req[r]
  BY DEF Kill
<1>3. \A r \in set : /\ req'[r] \in Tasks /\ req'[r].st = req[r].st /\ req'[r].ch = req[r].ch
                     /\ req'[r].pkt = req[r].pkt /\ req'[r].replay = req[r].replay /\ req'[r].kept = req[r].kept
  BY <1>1, <1>2, ZenonT(60) DEF Tasks
<1>4. Alike
  BY <1>2, <1>3 DEF Alike, Live
<1>5. req' \in [Request -> Tasks \cup {Free}]
  BY <1>3 DEF Kill, LaneTypes
<1> QED
  BY <1>4, <1>5

(* Requests that are finished give their slots back, those of the lane and the channel's;
   the place of a repeated packet is free. *)
LEMMA FinishedAreGone ==
  ASSUME LaneInv, NEW set \in SUBSET Request, \A r \in set : Live(r), Finish(set)
  PROVE  /\ req' \in [Request -> Tasks \cup {Free}] /\ inflight' \in Nat /\ recover' \in [Channel -> Recoveries]
         /\ Slots' /\ OneCopy' /\ Scarce'
         /\ \A c \in Channel : /\ Pending(c)' = Pending(c) \ set
                               /\ Cardinality(Pending(c)') <= Cardinality(Pending(c))
                               /\ recover[c] = Resting => recover'[c] = Resting
<1> DEFINE live == {r \in Request : Live(r)}
<1>1. LaneTypes /\ Slots /\ Scarce /\ OneCopy
  BY DEF LaneInv
<1>2. \A r \in Request : req'[r] = IF r \in set THEN Free ELSE req[r]
  BY DEF Finish
<1>3. req' \in [Request -> Tasks \cup {Free}]
  BY <1>1 DEF Finish, LaneTypes
<1>4. \A r \in Request : (Live(r)' <=> (Live(r) /\ r \notin set)) /\ (r \notin set => req'[r] = req[r])
  BY <1>2 DEF Live, Free
<1>5. Slots' /\ inflight' \in Nat
  <2>1. {r \in Request : Live(r)}' = live \ set /\ live \cap set = set /\ set \in SUBSET live
    BY <1>4
  <2>2. IsFiniteSet(live) /\ Cardinality(live) \in Nat /\ IsFiniteSet(set) /\ Cardinality(set) \in Nat
    BY SomeRequests
  <2>3. Cardinality(live \ set) = Cardinality(live) - Cardinality(set) /\ Cardinality(live \ set) \in Nat
    BY <2>1, <2>2, FS_Difference, FS_CardinalityType
  <2>4. inflight = Cardinality(live) /\ inflight <= MaxLane /\ MaxLane \in Nat /\ inflight' = inflight - Cardinality(set)
    BY <1>1, LaneAssumption DEF Slots, Finish
  <2>5. inflight' = Cardinality(live \ set) /\ inflight' \in Nat /\ inflight' <= MaxLane
    BY <2>2, <2>3, <2>4
  <2> QED
    BY <2>1, <2>5 DEF Slots
<1>6. OneCopy'
  BY <1>1, <1>4 DEF OneCopy, Twin
<1>7. \A c \in Channel : Pending(c)' = Pending(c) \ set /\ Replays(c)' = Replays(c) \ set
  BY <1>4 DEF Pending, Replays
<1>8. \A c \in Channel : Pending(c) \in SUBSET Request /\ Replays(c) \in SUBSET Request
  BY DEF Pending, Replays
<1>9. \A c \in Channel :
        /\ recover'[c] \in Recoveries /\ (recover[c] = Resting => recover'[c] = Resting)
        /\ recover'[c].at = "replace" => /\ recover[c].at = "replace" /\ recover'[c].req = recover[c].req
                                         /\ recover[c].req \notin set
        /\ recover'[c].at = "send" => \/ recover[c].at = "send"
                                      \/ recover[c].at = "replace" /\ recover[c].req \in set
  BY <1>1 DEF Finish, LaneTypes, Recoveries, Resting
<1>10. recover' \in [Channel -> Recoveries]
  BY <1>9 DEF Finish
<1>11. ASSUME NEW c \in Channel
       PROVE  /\ Cardinality(Pending(c)') <= Cardinality(Pending(c)) /\ Cardinality(Replays(c)') <= MaxReplays
              /\ recover'[c].at = "send" => Cardinality(Replays(c)') < MaxReplays
              /\ recover'[c].at = "replace" => recover'[c].req \in Replays(c)'
  <2>1. IsFiniteSet(Pending(c)) /\ IsFiniteSet(Replays(c)) /\ Cardinality(Replays(c)) \in Nat /\ MaxReplays \in Nat
    BY <1>8, SomeRequests, LaneAssumption
  <2>2. Cardinality(Pending(c) \ set) <= Cardinality(Pending(c))
    BY <2>1, FS_Subset
  <2>3. /\ Cardinality(Replays(c) \ set) <= Cardinality(Replays(c)) /\ Cardinality(Replays(c) \ set) \in Nat
        /\ Cardinality(Replays(c) \ set) = Cardinality(Replays(c)) => Replays(c) \ set = Replays(c)
    BY <2>1, FS_Subset, FS_CardinalityType
  <2>4. /\ Cardinality(Replays(c)) <= MaxReplays /\ (recover[c].at = "send" => Cardinality(Replays(c)) < MaxReplays)
        /\ recover[c].at = "replace" => recover[c].req \in Replays(c)
    BY <1>1 DEF Scarce
  <2>5. recover'[c].at = "send" => Cardinality(Replays(c) \ set) < MaxReplays
    BY <1>9, <2>1, <2>3, <2>4
  <2>6. Cardinality(Replays(c) \ set) <= MaxReplays
    BY <2>1, <2>3, <2>4
  <2>7. recover'[c].at = "replace" => recover'[c].req \in Replays(c) \ set
    BY <1>9, <2>4
  <2>8. Pending(c)' = Pending(c) \ set /\ Replays(c)' = Replays(c) \ set
    BY <1>7
  <2> QED
    BY <2>2, <2>5, <2>6, <2>7, <2>8
<1>12. Scarce'
  BY <1>11 DEF Scarce
<1> QED
  BY <1>3, <1>5, <1>6, <1>7, <1>9, <1>10, <1>11, <1>12

(* A new request takes a slot of the lane and one of its channel.  Nothing else is asked
   when it repeats a packet that no other request repeats. *)
LEMMA CreatedIsCounted ==
  ASSUME LaneInv, NEW c \in Channel, NEW p \in Named, NEW replay \in BOOLEAN, NEW h,
         Create(c, p, replay, h), LaneRoom, Cardinality(Pending(c)) < MaxChan,
         replay => Replay(c, p) = {}
  PROVE  /\ req' \in [Request -> Tasks \cup {Free}] /\ inflight' \in Nat
         /\ Slots' /\ OneCopy' /\ Cardinality(Pending(c)') <= MaxChan
         /\ \A d \in Channel \ {c} : Pending(d)' = Pending(d) /\ Replays(d)' = Replays(d)
         /\ Cardinality(Replays(c)') = Cardinality(Replays(c)) + (IF replay THEN 1 ELSE 0)
         /\ ~replay => Replays(c)' = Replays(c)
         /\ Replays(c) \in SUBSET Replays(c)'
<1> DEFINE live == {r \in Request : Live(r)}
           kept(q) == \E i \in 1..Len(h) : h[i].pkt = q
           new == CHOOSE r \in Request : ~Live(r)
<1>1. LaneTypes /\ Slots /\ Shares /\ Scarce /\ OneCopy
  BY DEF LaneInv
<1>2. new \in Request /\ ~Live(new)
  <2>1. ~(live = Request)
    <3>1. Cardinality(live) # Cardinality(Request)
      BY <1>1, LaneAssumption DEF Slots, LaneRoom, LaneTypes
    <3> QED BY <3>1, Zenon
  <2>2. \E r \in Request : ~Live(r)
    BY <2>1
  <2> QED
    BY <2>2
<1>3. \A r \in Request : req'[r] = IF r = new THEN Made(c, p, replay, kept(p))
                                   ELSE IF r \in Pending(c) THEN [req[r] EXCEPT !.kept = @ /\ kept(req[r].pkt)]
                                   ELSE req[r]
  BY DEF Create
<1>4. DOMAIN req' = Request /\ req' = [r \in Request |-> req'[r]] /\ inflight' = inflight + 1
  BY DEF Create
<1> HIDE DEF new
<1>5. Made(c, p, replay, kept(p)) \in Tasks
  <2>1. kept(p) \in BOOLEAN
    OBVIOUS
  <2> QED
    BY <2>1 DEF Made, Tasks
<1>6. \A r \in Request : Live(r) => req[r] \in Tasks
  BY <1>1 DEF LaneTypes, Live, Free
<1>7. \A r \in Request \ {new} : Live(r) => /\ req'[r] \in Tasks /\ req'[r].st = req[r].st /\ req'[r].ch = req[r].ch
                                            /\ req'[r].pkt = req[r].pkt /\ req'[r].replay = req[r].replay
                                            /\ (req'[r].kept => req[r].kept)
  <2> SUFFICES ASSUME NEW r \in Request \ {new}, Live(r)
               PROVE  /\ req'[r] \in Tasks /\ req'[r].st = req[r].st /\ req'[r].ch = req[r].ch
                      /\ req'[r].pkt = req[r].pkt /\ req'[r].replay = req[r].replay
                      /\ (req'[r].kept => req[r].kept)
    OBVIOUS
  <2> DEFINE k == req[r].kept /\ kept(req[r].pkt)
  <2>1. k \in BOOLEAN /\ (k => req[r].kept)
    OBVIOUS
  <2>2. req'[r] = req[r] \/ req'[r] = [req[r] EXCEPT !.kept = k]
    BY <1>3
  <2>3. req[r] \in Tasks
    BY <1>6
  <2> HIDE DEF k
  <2> QED
    BY <2>1, <2>2, <2>3 DEF Tasks
<1>8. \A r \in Request \ {new} : ~Live(r) => req'[r] = req[r]
  BY <1>3 DEF Pending
<1>9. /\ req'[new].st = "made" /\ req'[new].ch = c /\ req'[new].pkt = p /\ req'[new].replay = replay
      /\ req'[new] \in Tasks
  <2>1. req'[new] = Made(c, p, replay, kept(p))
    BY <1>2, <1>3
  <2>2. /\ Made(c, p, replay, kept(p)).st = "made" /\ Made(c, p, replay, kept(p)).ch = c
        /\ Made(c, p, replay, kept(p)).pkt = p /\ Made(c, p, replay, kept(p)).replay = replay
    BY DEF Made
  <2> QED
    BY <1>5, <2>1, <2>2
<1>10. req' \in [Request -> Tasks \cup {Free}]
  BY <1>1, <1>4, <1>7, <1>8, <1>9 DEF LaneTypes
<1>11. \A r \in Request : Live(r)' <=> (Live(r) \/ r = new)
  BY <1>7, <1>8, <1>9 DEF Live
<1>12. Slots' /\ inflight' \in Nat
  <2>1. {r \in Request : Live(r)}' = live \cup {new} /\ new \notin live
    BY <1>2, <1>11
  <2>2. IsFiniteSet(live) /\ Cardinality(live) \in Nat
    BY SomeRequests
  <2>3. Cardinality(live \cup {new}) = Cardinality(live) + 1
    BY <2>1, <2>2, FS_AddElement
  <2>4. inflight = Cardinality(live) /\ inflight < MaxLane /\ MaxLane \in Nat
    BY <1>1, LaneAssumption DEF Slots, LaneRoom
  <2> QED
    BY <1>4, <2>1, <2>2, <2>3, <2>4 DEF Slots
<1>13. Pending(c)' = Pending(c) \cup {new} /\ new \notin Pending(c)
  BY <1>2, <1>7, <1>9, <1>11 DEF Pending
<1>14. Cardinality(Pending(c)') <= MaxChan
  <2>1. IsFiniteSet(Pending(c)) /\ Cardinality(Pending(c)) \in Nat
    BY SomeRequests DEF Pending
  <2>2. Cardinality(Pending(c) \cup {new}) = Cardinality(Pending(c)) + 1
    BY <1>13, <2>1, FS_AddElement
  <2> QED
    BY <1>13, <2>1, <2>2, LaneAssumption
<1>15. \A d \in Channel \ {c} : Pending(d)' = Pending(d)
  BY <1>2, <1>7, <1>9, <1>11 DEF Pending
<1>16. \A d \in Channel \ {c} : Replays(d)' = Replays(d)
  BY <1>2, <1>7, <1>15 DEF Replays, Pending
<1>17. Replays(c)' = IF replay THEN Replays(c) \cup {new} ELSE Replays(c)
  BY <1>7, <1>9, <1>13 DEF Replays, Pending
<1>18. Cardinality(Replays(c)') = Cardinality(Replays(c)) + (IF replay THEN 1 ELSE 0)
  <2>1. IsFiniteSet(Replays(c)) /\ Cardinality(Replays(c)) \in Nat /\ new \notin Replays(c)
    BY <1>13, SomeRequests DEF Replays, Pending
  <2>2. Cardinality(Replays(c) \cup {new}) = Cardinality(Replays(c)) + 1
    BY <2>1, FS_AddElement
  <2> QED
    BY <1>17, <2>1, <2>2
<1>19. OneCopy'
  <2> SUFFICES ASSUME NEW r \in Request, NEW s \in Request, Twin(r)', Twin(s)',
                      req'[r].ch = req'[s].ch, req'[r].pkt = req'[s].pkt
               PROVE  r = s
    BY DEF OneCopy
  <2>1. ASSUME NEW t \in Request \ {new}, Twin(t)' PROVE Twin(t)
    BY <1>7, <1>11, <2>1 DEF Twin
  <2>2. ASSUME NEW t \in Request \ {new}, Twin(t), replay PROVE ~(req[t].ch = c /\ req[t].pkt = p)
    BY <2>2 DEF Replay, Own, Originals, Pending, Twin
  <2>3. CASE r # new /\ s # new
    BY <1>1, <1>7, <2>1, <2>3 DEF OneCopy, Twin
  <2>4. CASE r = new /\ s # new
    BY <1>7, <1>9, <2>1, <2>2, <2>4 DEF Twin
  <2>5. CASE s = new /\ r # new
    BY <1>7, <1>9, <2>1, <2>2, <2>5 DEF Twin
  <2> QED
    BY <2>3, <2>4, <2>5
<1> QED
  BY <1>10, <1>12, <1>14, <1>15, <1>16, <1>17, <1>18, <1>19

-----------------------------------------------------------------------------
LEMMA EntryOf ==
  ASSUME Histories, NEW c \in Channel, NEW i \in 1..Len(history[c])
  PROVE  history[c] \in Seq(Records) /\ history[c][i] \in Records /\ history[c][i].pkt \in Packet
<1>1. history[c] \in Seq(Records)
  BY DEF Histories
<1>2. history[c][i] \in Records
  BY <1>1
<1> QED
  BY <1>1, <1>2 DEF Records

(* An entry, or a task, one of whose flags is set, is an entry, or a task like it. *)
LEMMA Marked ==
  ASSUME NEW e \in Records PROVE [e EXCEPT !.old = TRUE] \in Records /\ [e EXCEPT !.retired = TRUE] \in Records
<1>1. ASSUME NEW b \in BOOLEAN PROVE [e EXCEPT !.old = b] \in Records /\ [e EXCEPT !.retired = b] \in Records
  BY DEF Records
<1> QED
  BY <1>1

SameTask(t, u) == /\ t.st # "free" /\ t.ch = u.ch /\ t.pkt = u.pkt /\ (t.replay <=> u.replay) /\ (t.kept <=> u.kept)

LEMMA Later == ASSUME NEW t \in Tasks PROVE [t EXCEPT !.late = TRUE] \in Tasks /\ SameTask([t EXCEPT !.late = TRUE], t)
<1>1. ASSUME NEW b \in BOOLEAN PROVE [t EXCEPT !.late = b] \in Tasks /\ SameTask([t EXCEPT !.late = b], t)
  BY DEF Tasks, SameTask
<1> QED
  BY <1>1

LEMMA Moved ==
  ASSUME NEW t \in Tasks, NEW x \in {"post", "sent", "body"}
  PROVE  [t EXCEPT !.st = x] \in Tasks /\ SameTask([t EXCEPT !.st = x], t)
BY DEF Tasks, SameTask
-----------------------------------------------------------------------------
(* Nobody waits for the lane without a slot of its channel, no channel that has requests
   leaves the lane, and _recover waits for a repeated request of its channel. *)
Orderly == \A c \in Channel : /\ upload'[c].at = "lane" => upload[c].at = "lane" \/ ChanRoom(c)
                              /\ Listed(c) => Listed(c)' \/ Pending(c) = {}
                              /\ recover'[c].at = "send" => recover[c].at = "send"
                              /\ recover'[c].at = "replace" => recover'[c].req \in Replays(c)

(* A step of each of the three kinds, when the rest of what it changes is in order. *)
LEMMA AlikeStep ==
  ASSUME LaneInv, Alike, inflight' = inflight, LaneTypes', Histories', Replies', Quiet',
         Orderly
  PROVE  LaneInv'
<1>1. Slots /\ Shares /\ Scarce /\ OneCopy
  BY DEF LaneInv
<1>2. Slots' /\ OneCopy' /\ \A c \in Channel : Pending(c)' = Pending(c) /\ Replays(c)' = Replays(c)
  BY <1>1, AlikeKeeps
<1>3. Shares'
  BY <1>1, <1>2 DEF Shares, ChanRoom, Orderly
<1>4. Scarce'
  BY <1>1, <1>2 DEF Scarce, Orderly
<1> QED
  BY <1>2, <1>3, <1>4 DEF LaneInv

LEMMA FinishStep ==
  ASSUME LaneInv, NEW set \in SUBSET Request, \A r \in set : Live(r), Finish(set), upload' = upload,
         lane' = lane, closed' \in SUBSET Channel, life' \in [Channel -> Lives], Histories', Replies',
         \A c \in Channel : /\ life[c] = "run" => life'[c] = "run"
                            /\ Listed(c) => Listed(c)' \/ Pending(c) \in SUBSET set
  PROVE  LaneInv'
<1>1. LaneTypes /\ Slots /\ Shares /\ Quiet
  BY DEF LaneInv
<1>2. /\ req' \in [Request -> Tasks \cup {Free}] /\ inflight' \in Nat /\ recover' \in [Channel -> Recoveries]
      /\ Slots' /\ OneCopy' /\ Scarce'
      /\ \A c \in Channel : /\ Pending(c)' = Pending(c) \ set
                            /\ Cardinality(Pending(c)') <= Cardinality(Pending(c))
                            /\ recover[c] = Resting => recover'[c] = Resting
  BY FinishedAreGone
<1>3. LaneTypes'
  BY <1>1, <1>2 DEF LaneTypes
<1>4. Quiet'
  BY <1>1, <1>2 DEF Quiet
<1>5. Shares'
  <2> SUFFICES ASSUME NEW c \in Channel
               PROVE  /\ Cardinality(Pending(c)') <= MaxChan
                      /\ upload'[c].at = "lane" => Cardinality(Pending(c)') < MaxChan
                      /\ ~Listed(c)' => Pending(c)' = {}
    BY DEF Shares
  <2>1. /\ Cardinality(Pending(c)) \in Nat /\ Cardinality(Pending(c)') \in Nat /\ MaxChan \in Nat
        /\ Cardinality(Pending(c)') <= Cardinality(Pending(c))
    <3>1. Pending(c) \in SUBSET Request /\ Pending(c)' \in SUBSET Request
      BY DEF Pending
    <3> QED
      BY <1>2, <3>1, SomeRequests, Limits
  <2>2. /\ Cardinality(Pending(c)) <= MaxChan /\ (upload'[c].at = "lane" => Cardinality(Pending(c)) < MaxChan)
        /\ ~Listed(c) => Pending(c) = {}
    BY <1>1 DEF Shares
  <2>3. ~Listed(c)' => Pending(c)' = {}
    BY <1>2, <2>2
  <2> QED
    BY <2>1, <2>2, <2>3
<1> QED
  BY <1>2, <1>3, <1>4, <1>5 DEF LaneInv

LEMMA CreateStep ==
  ASSUME LaneInv, NEW c \in Channel, NEW p \in Named, NEW replay \in BOOLEAN, NEW h \in Seq(Records),
         Create(c, p, replay, h), LaneRoom, Cardinality(Pending(c)) < MaxChan, Listed(c),
         replay => Replay(c, p) = {} /\ Cardinality(Replays(c)) < MaxReplays,
         Len(h) <= MaxHistory, Replies', Quiet', lane' = lane, life' = life, closed' = closed,
         upload' \in [Channel -> Waits], recover' \in [Channel -> Recoveries],
         upload'[c].at # "lane",
         recover' = recover \/ (recover'[c].at = "wait" /\ \A d \in Channel \ {c} : recover'[d] = recover[d]),
         replay => recover'[c].at = "wait", \A d \in Channel \ {c} : upload'[d] = upload[d]
  PROVE  LaneInv'
<1>1. LaneTypes /\ Histories /\ Slots /\ Shares /\ Scarce
  BY DEF LaneInv
<1>2. /\ req' \in [Request -> Tasks \cup {Free}] /\ inflight' \in Nat
      /\ Slots' /\ OneCopy' /\ Cardinality(Pending(c)') <= MaxChan
      /\ \A d \in Channel \ {c} : Pending(d)' = Pending(d) /\ Replays(d)' = Replays(d)
      /\ Cardinality(Replays(c)') = Cardinality(Replays(c)) + (IF replay THEN 1 ELSE 0)
      /\ ~replay => Replays(c)' = Replays(c)
      /\ Replays(c) \in SUBSET Replays(c)'
  BY CreatedIsCounted
<1>3. LaneTypes'
  BY <1>1, <1>2 DEF LaneTypes
<1>4. Histories'
  BY <1>1 DEF Histories, Create, Put
<1>5. Shares'
  BY <1>1, <1>2 DEF Shares, Listed
<1>6. Scarce'
  <2> SUFFICES ASSUME NEW d \in Channel
               PROVE  /\ Cardinality(Replays(d)') <= MaxReplays
                      /\ recover'[d].at = "send" => Cardinality(Replays(d)') < MaxReplays
                      /\ recover'[d].at = "replace" => recover'[d].req \in Replays(d)'
    BY DEF Scarce
  <2>1. /\ Cardinality(Replays(d)) <= MaxReplays /\ (recover[d].at = "send" => Cardinality(Replays(d)) < MaxReplays)
        /\ recover[d].at = "replace" => recover[d].req \in Replays(d)
    BY <1>1 DEF Scarce
  <2>2. CASE d # c
    BY <1>2, <2>1, <2>2
  <2>3. CASE d = c /\ ~replay
    BY <1>2, <2>1, <2>3
  <2>4. CASE d = c /\ replay
    <3>1. Cardinality(Replays(c)) \in Nat /\ MaxReplays \in Nat
      BY SomeRequests, Limits DEF Replays, Pending
    <3>2. Cardinality(Replays(c)') <= MaxReplays
      BY <1>2, <2>4, <3>1
    <3> QED
      BY <2>4, <3>2
  <2> QED
    BY <2>2, <2>3, <2>4
<1> QED
  BY <1>2, <1>3, <1>4, <1>5, <1>6 DEF LaneInv

(* A channel that fails is closed, and its queue holds the error at most. *)
LEMMA FailedIsClosed ==
  ASSUME LaneTypes, Replies, NEW c \in Channel, Fail(c) PROVE closed' \in SUBSET Channel /\ Replies'
<1>1. <<"error">> \in Seq({"reply", "error"}) /\ Len(<<"error">>) = 1 /\ MaxQueue >= 1
  BY Limits
<1>2. \A d \in Channel : queue'[d] = queue[d] \/ (d = c /\ queue'[d] = <<"error">>)
  BY DEF Fail, Put, Replies
<1>3. queue' \in [Channel -> Seq({"reply", "error"})]
  BY DEF Fail, Put, Replies
<1>4. \A d \in Channel : Len(queue'[d]) <= MaxQueue
  <2>1. \A d \in Channel : Len(queue[d]) <= MaxQueue
    BY DEF Replies
  <2> QED
    BY <1>1, <1>2, <2>1
<1>5. \A d \in closed' : queue'[d] \in {<<>>, <<"error">>}
  BY DEF Fail, Put, Replies, LaneTypes
<1> QED
  BY <1>3, <1>4, <1>5 DEF Fail, Replies, LaneTypes

LEMMA LaneStart == LaneInit => LaneInv
<1> SUFFICES ASSUME LaneInit PROVE LaneInv
  OBVIOUS
<1>0. <<>> \in Seq(Records) /\ <<>> \in Seq({"reply", "error"}) /\ Len(<<>>) = 0 /\ MaxHistory \in Nat /\ MaxQueue \in Nat
      /\ MaxChan \in Nat \ {0} /\ MaxReplays \in Nat /\ MaxLane \in Nat
  BY Limits
<1>1. LaneTypes
  BY DEF LaneInit, LaneTypes, Lives, Waits, Named, Recoveries
<1>2. Histories /\ Replies
  BY <1>0 DEF LaneInit, Histories, Replies
<1>3. \A r \in Request : ~Live(r)
  BY DEF LaneInit, Live, Free
<1>4. {r \in Request : Live(r)} = {} /\ \A c \in Channel : Pending(c) = {} /\ Replays(c) = {}
  BY <1>3 DEF Pending, Replays
<1>5. Cardinality({}) = 0
  BY FS_EmptySet
<1>6. Slots
  <2>1. inflight = 0 /\ 0 <= MaxLane
    BY <1>0 DEF LaneInit
  <2>2. Cardinality({r \in Request : Live(r)}) = 0
    BY <1>4, <1>5
  <2> QED
    BY <2>1, <2>2 DEF Slots
<1>7. Shares
  <2>1. 0 <= MaxChan /\ 0 < MaxChan
    BY <1>0
  <2> QED
    BY <1>4, <1>5, <2>1 DEF Shares
<1>8. Scarce
  <2>1. 0 <= MaxReplays
    BY <1>0
  <2> QED
    BY <1>4, <1>5, <2>1 DEF LaneInit, Scarce, Resting
<1>9. Quiet /\ OneCopy
  BY <1>3 DEF LaneInit, Quiet, OneCopy, Twin
<1> QED
  BY <1>1, <1>2, <1>6, <1>7, <1>8, <1>9 DEF LaneInv

(* A packet that is sent again: its entry counts it, and the channel has room for it. *)
LEMMA RepeatStep ==
  ASSUME LaneInv, NEW c \in Channel, NEW i \in 1..Len(history[c]), CanRepeat(c, i), Repeat(c, i), Bridging(c),
         Cardinality(Replays(c)) < MaxReplays, recover' = Put(recover, c, Resting),
         UNCHANGED <<lane, life, closed, queue, upload>>
  PROVE  LaneInv'
<1>0. LaneTypes /\ Histories /\ Replies /\ Slots /\ Shares /\ Quiet /\ Scarce
  BY DEF LaneInv
<1> DEFINE e == [history[c][i] EXCEPT !.attempts = @ + 1]
           h == [history[c] EXCEPT ![i] = e]
           p == history[c][i].pkt
<1>1. history[c] \in Seq(Records) /\ history[c][i] \in Records /\ Len(history[c]) <= MaxHistory
  BY <1>0 DEF Histories
<1>2. history[c][i].attempts < MaxAttempts /\ MaxAttempts \in Nat
  BY Limits DEF CanRepeat, Due
<1>3. history[c][i].attempts + 1 \in 0..MaxAttempts
  BY <1>1, <1>2 DEF Records
<1>4. e \in Records /\ p \in Named
  BY <1>1, <1>3 DEF Records, Named
<1>5. Create(c, p, TRUE, h)
  BY DEF Repeat
<1> HIDE DEF e, p
<1>6. h \in Seq(Records) /\ Len(h) = Len(history[c])
  BY <1>1, <1>4, Changed
<1> HIDE DEF h
<1>7. LaneRoom /\ Cardinality(Pending(c)) < MaxChan /\ Replay(c, p) = {} /\ upload[c].at \notin {"slot", "lane"} /\ Listed(c)
  BY DEF CanRepeat, ChanRoom, Listed, Bridging, p
<1>8. /\ recover' \in [Channel -> Recoveries] /\ recover'[c].at = "wait" /\ upload' \in [Channel -> Waits]
      /\ \A d \in Channel \ {c} : recover'[d] = recover[d] /\ upload'[d] = upload[d]
  BY <1>0 DEF LaneTypes, Recoveries, Resting, Put
<1>9. Replies' /\ Quiet'
  BY <1>0 DEF Replies, Quiet, Put
<1>10. upload'[c].at # "lane" /\ lane' = lane /\ life' = life /\ closed' = closed /\ Len(h) <= MaxHistory /\ TRUE \in BOOLEAN
  BY <1>1, <1>6, <1>7
<1> QED
  BY <1>4, <1>5, <1>6, <1>7, <1>8, <1>9, <1>10, CreateStep

(* Every step of a lane keeps what is true of it. *)
LEMMA LaneStep == LaneInv /\ [LaneNext]_laneVars => LaneInv'
<1> SUFFICES ASSUME LaneInv, [LaneNext]_laneVars PROVE LaneInv'
  OBVIOUS
<1>0. LaneTypes /\ Histories /\ Replies /\ Slots /\ Shares /\ Quiet /\ Scarce /\ OneCopy
  BY DEF LaneInv
<1>1. CASE Cooled
  <2>1. Alike /\ inflight' = inflight
    BY <1>1, SameRequests DEF Cooled
  <2>2. LaneTypes' /\ Histories' /\ Replies' /\ Quiet'
    BY <1>0, <1>1 DEF Cooled, LaneTypes, Histories, Replies, Quiet
  <2>3. Orderly
    BY <1>0, <1>1 DEF Cooled, Orderly, Listed, Scarce
  <2> QED
    BY <2>1, <2>2, <2>3, AlikeStep
<1>2. CASE PoolClose
  <2>1. Alike /\ inflight' = inflight
    BY <1>2, SameRequests DEF PoolClose
  <2>2. LaneTypes' /\ Histories' /\ Replies' /\ Quiet'
    BY <1>0, <1>2 DEF PoolClose, LaneTypes, Histories, Replies, Quiet
  <2>3. Orderly
    BY <1>0, <1>2 DEF PoolClose, Orderly, Listed, Scarce
  <2> QED
    BY <2>1, <2>2, <2>3, AlikeStep
<1>3. ASSUME NEW c0 \in Channel, Open(c0) PROVE LaneInv'
  <2>1. Alike /\ inflight' = inflight
    BY <1>3, SameRequests DEF Open
  <2>2. LaneTypes' /\ Histories' /\ Replies' /\ Quiet'
    BY <1>0, <1>3 DEF Open, LaneTypes, Lives, Put, Histories, Replies, Quiet
  <2>3. Orderly
    BY <1>0, <1>3 DEF Open, Orderly, Put, Listed, Scarce
  <2> QED
    BY <2>1, <2>2, <2>3, AlikeStep
<1>4. ASSUME NEW c0 \in Channel, Preflight(c0) PROVE LaneInv'
  <2>1. Alike /\ inflight' = inflight
    BY <1>4, SameRequests DEF Preflight
  <2>2. LaneTypes' /\ Histories' /\ Replies' /\ Quiet'
    BY <1>0, <1>4 DEF Preflight, LaneTypes, Lives, Put, Histories, Replies, Quiet
  <2>3. Orderly
    BY <1>0, <1>4 DEF Preflight, Orderly, LaneTypes, Put, Listed, Scarce
  <2> QED
    BY <2>1, <2>2, <2>3, AlikeStep
<1>5. ASSUME NEW c0 \in Channel, OpenEnds(c0) PROVE LaneInv'
  <2>1. Alike /\ inflight' = inflight
    BY <1>5, SameRequests DEF OpenEnds
  <2>2. LaneTypes' /\ Histories' /\ Replies' /\ Quiet'
    BY <1>0, <1>5 DEF OpenEnds, LaneTypes, Lives, Put, Histories, Replies, Quiet
  <2>3. Orderly
    BY <1>0, <1>5 DEF OpenEnds, Orderly, Put, Listed, Scarce
  <2> QED
    BY <2>1, <2>2, <2>3, AlikeStep
<1>6. ASSUME NEW c0 \in Channel, Read(c0) PROVE LaneInv'
  <2>1. Alike /\ inflight' = inflight
    BY <1>6, SameRequests DEF Read
  <2>2. Histories' /\ Replies'
    BY <1>0, <1>6 DEF Read, Histories, Replies
  <2>3. LaneTypes'
    <3>1. \A i \in 1..Len(history[c0]) : history[c0][i].pkt \in Packet
      BY <1>0, EntryOf
    <3>2. Unsent(c0) \in Packet
      BY <1>0, UnsentIsPacket
    <3>3. upload' \in [Channel -> Waits]
      BY <1>0, <1>6, <3>1, <3>2 DEF Read, LaneTypes, Waits, Named, Put
    <3> QED
      BY <1>0, <1>6, <3>3 DEF Read, LaneTypes
  <2>4. Quiet'
    BY <1>0, <1>6 DEF Read, Quiet, Put, Bridging
  <2>5. Orderly
    BY <1>0, <1>6 DEF Read, Orderly, Put, Listed, Scarce
  <2> QED
    BY <2>1, <2>2, <2>3, <2>4, <2>5, AlikeStep
<1>7. ASSUME NEW c0 \in Channel, Ages(c0) PROVE LaneInv'
  <2>1. Alike /\ inflight' = inflight
    BY <1>7, SameRequests DEF Ages
  <2>2. LaneTypes' /\ Replies' /\ Quiet'
    BY <1>0, <1>7 DEF Ages, LaneTypes, Replies, Quiet
  <2>3. Histories'
    <3>1. PICK i \in 1..Len(history[c0]) : history' = [history EXCEPT ![c0][i].old = TRUE]
      BY <1>7 DEF Ages
    <3>2. history[c0] \in Seq(Records) /\ [history[c0][i] EXCEPT !.old = TRUE] \in Records
      BY <1>0, EntryOf, Marked
    <3> DEFINE h == [history[c0] EXCEPT ![i] = [history[c0][i] EXCEPT !.old = TRUE]]
    <3>3. h \in Seq(Records) /\ Len(h) = Len(history[c0])
      BY <3>2, Changed
    <3>4. history' = [history EXCEPT ![c0] = h]
      BY <3>1
    <3> HIDE DEF h
    <3> QED
      BY <1>0, <3>3, <3>4 DEF Histories
  <2>4. Orderly
    BY <1>0, <1>7 DEF Ages, Orderly, Listed, Scarce
  <2> QED
    BY <2>1, <2>2, <2>3, <2>4, AlikeStep
<1>8. ASSUME NEW c0 \in Channel, Receive(c0) PROVE LaneInv'
  <2>1. Alike /\ inflight' = inflight
    BY <1>8, SameRequests DEF Receive
  <2>2. LaneTypes' /\ Histories' /\ Quiet'
    BY <1>0, <1>8 DEF Receive, LaneTypes, Histories, Quiet
  <2>3. Replies'
    <3>1. queue[c0] \in Seq({"reply", "error"}) /\ queue[c0] # <<>> /\ c0 \notin closed
      BY <1>0, <1>8 DEF Receive, Replies
    <3>2. Tail(queue[c0]) \in Seq({"reply", "error"}) /\ Len(Tail(queue[c0])) = Len(queue[c0]) - 1 /\ Len(queue[c0]) \in Nat
      BY <3>1
    <3>3. queue' = [queue EXCEPT ![c0] = Tail(queue[c0])] /\ closed' = closed /\ MaxQueue \in Nat
      BY <1>8, Limits DEF Receive, Put
    <3> QED
      BY <1>0, <3>1, <3>3 DEF Replies
  <2>4. Orderly
    BY <1>0, <1>8 DEF Receive, Orderly, Listed, Scarce
  <2> QED
    BY <2>1, <2>2, <2>3, <2>4, AlikeStep
<1>9. ASSUME NEW c0 \in Channel, Written(c0) PROVE LaneInv'
  <2>1. Alike /\ inflight' = inflight
    BY <1>9, SameRequests DEF Written
  <2>2. LaneTypes' /\ Histories' /\ Replies' /\ Quiet'
    BY <1>0, <1>9 DEF Written, LaneTypes, Histories, Replies, Quiet
  <2>3. Orderly
    BY <1>0, <1>9 DEF Written, Orderly, Listed, Scarce
  <2> QED
    BY <2>1, <2>2, <2>3, AlikeStep
<1>10. ASSUME NEW c0 \in Channel, BridgeEnds(c0) PROVE LaneInv'
  <2>1. Alike /\ inflight' = inflight
    BY <1>10, SameRequests DEF BridgeEnds
  <2>2. Histories' /\ Replies' /\ Quiet'
    BY <1>0, <1>10 DEF BridgeEnds, Histories, Replies, Quiet, LaneTypes, Put
  <2>3. LaneTypes'
    BY <1>0, <1>10 DEF BridgeEnds, LaneTypes, Lives, Put, Waits, Recoveries
  <2>4. Orderly
    BY <1>0, <1>10 DEF BridgeEnds, Orderly, Put, Resting, Listed, Scarce
  <2> QED
    BY <2>1, <2>2, <2>3, <2>4, AlikeStep
<1>11. ASSUME NEW c0 \in Channel, PickNone(c0) PROVE LaneInv'
  <2>1. Alike /\ inflight' = inflight
    BY <1>11, SameRequests DEF PickNone
  <2>2. Histories' /\ Replies' /\ Quiet'
    BY <1>0, <1>11 DEF PickNone, Histories, Replies, Quiet, Put
  <2>3. LaneTypes'
    BY <1>0, <1>11 DEF PickNone, LaneTypes, Put, Recoveries
  <2>4. Orderly
    BY <1>0, <1>11 DEF PickNone, Orderly, Put, Resting, Listed, Scarce
  <2> QED
    BY <2>1, <2>2, <2>3, <2>4, AlikeStep
<1>12. ASSUME NEW c0 \in Channel, Close(c0) PROVE LaneInv'
  <2>1. Alike /\ inflight' = inflight /\ req' \in [Request -> Tasks \cup {Free}]
    <3>1. Pending(c0) \in SUBSET Request /\ \A r \in Pending(c0) : Live(r)
      BY DEF Pending
    <3> QED
      BY <1>0, <1>12, <3>1, KilledIsAlike DEF Close
  <2>2. Histories' /\ Quiet'
    BY <1>0, <1>12 DEF Close, Histories, Quiet, Put
  <2>3. LaneTypes'
    <3>1. closed' \in SUBSET Channel
      BY <1>0, <1>12, FailedIsClosed DEF Close
    <3> QED
      BY <1>0, <1>12, <2>1, <3>1 DEF Close, LaneTypes, Lives, Put
  <2>4. Replies'
    BY <1>0, <1>12, FailedIsClosed DEF Close
  <2>5. Orderly
    BY <1>0, <1>12 DEF Close, Orderly, Put, Listed, Scarce
  <2> QED
    BY <2>1, <2>2, <2>3, <2>4, <2>5, AlikeStep
<1>13. ASSUME NEW r0 \in Request, Advance(r0) PROVE LaneInv'
  <2>1. Alike /\ inflight' = inflight /\ req' \in [Request -> Tasks \cup {Free}]
    <3>1. req[r0] \in Tasks
      BY <1>0, <1>13 DEF Advance, LaneTypes, Free
    <3>2. PICK t \in Tasks : req' = [req EXCEPT ![r0] = t] /\ SameTask(t, req[r0])
      <4>1. CASE req' = [req EXCEPT ![r0].late = TRUE]
        <5>1. req' = [req EXCEPT ![r0] = [req[r0] EXCEPT !.late = TRUE]]
          BY <4>1
        <5> QED
          BY <3>1, <5>1, Later
      <4>2. ASSUME NEW x \in {"post", "sent", "body"}, req' = [req EXCEPT ![r0].st = x]
            PROVE  \E t \in Tasks : req' = [req EXCEPT ![r0] = t] /\ SameTask(t, req[r0])
        <5>1. req' = [req EXCEPT ![r0] = [req[r0] EXCEPT !.st = x]]
          BY <4>2
        <5> QED
          BY <3>1, <5>1, Moved
      <4> QED
        BY <1>13, <4>1, <4>2 DEF Advance
    <3> QED
      BY <1>0, <1>13, <3>2 DEF Advance, LaneTypes, Alike, Live, SameTask
  <2>2. Histories' /\ Replies' /\ Quiet'
    BY <1>0, <1>13 DEF Advance, Histories, Replies, Quiet
  <2>3. LaneTypes'
    BY <1>0, <1>13, <2>1 DEF Advance, LaneTypes
  <2>4. Orderly
    BY <1>0, <1>13 DEF Advance, Orderly, Listed, Scarce
  <2> QED
    BY <2>1, <2>2, <2>3, <2>4, AlikeStep
<1>14. ASSUME NEW c0 \in Channel, MakeRoom(c0) PROVE LaneInv'
  <2>1. Alike /\ inflight' = inflight /\ req' \in [Request -> Tasks \cup {Free}]
    <3>1. PICK r \in Yielding(c0) : Kill({r}) /\ inflight' = inflight
      BY <1>14 DEF MakeRoom
    <3>2. r \in Request /\ Live(r)
      BY DEF Yielding, Victims, Pending
    <3> QED
      BY <1>0, <3>1, <3>2, KilledIsAlike
  <2>2. Replies'
    BY <1>0, <1>14 DEF MakeRoom, Replies
  <2>3. LaneTypes'
    <3>1. \A r \in Yielding(c0) : r \in Request
      BY DEF Yielding, Victims, Pending
    <3> QED
      BY <1>0, <1>14, <2>1, <3>1 DEF MakeRoom, LaneTypes, Put, Recoveries
  <2>4. Histories'
    <3>1. PICK r \in Yielding(c0) : history' = IF req[r].replay THEN history
                                ELSE [history EXCEPT ![req[r].ch][Find(req[r].ch, req[r].pkt)].retired = TRUE]
      BY <1>14 DEF MakeRoom
    <3>2. CASE req[r].replay
      BY <1>0, <3>1, <3>2 DEF Histories
    <3>3. CASE ~req[r].replay
      <4>1. r \in Request /\ Live(r)
        BY DEF Yielding, Victims, Pending
      <4>2. req[r] \in Tasks
        BY <1>0, <4>1 DEF LaneTypes, Live, Free
      <4> DEFINE d == req[r].ch
                 i == Find(d, req[r].pkt)
                 e == [history[d][i] EXCEPT !.retired = TRUE]
                 h == [history[d] EXCEPT ![i] = e]
      <4>3. d \in Channel
        BY <4>2 DEF Tasks
      <4>4. history' = [history EXCEPT ![d] = h]
        BY <3>1, <3>3
      <4>5. i \in 1..Len(history[d]) => e \in Records
        BY <1>0, <4>3, EntryOf, Marked
      <4>6. history[d] \in Seq(Records)
        BY <1>0, <4>3 DEF Histories
      <4> HIDE DEF d, i, e
      <4>7. h \in Seq(Records) /\ Len(h) = Len(history[d])
        <5> DEFINE s == history[d]
        <5>1. s \in Seq(Records) /\ (i \in 1..Len(s) => e \in Records)
          BY <4>5, <4>6
        <5> HIDE DEF s
        <5>2. [s EXCEPT ![i] = e] \in Seq(Records) /\ Len([s EXCEPT ![i] = e]) = Len(s)
          BY <5>1, Changed
        <5> QED BY <5>2 DEF s
      <4> HIDE DEF h
      <4> QED
        BY <1>0, <4>4, <4>7 DEF Histories
    <3> QED
      BY <3>2, <3>3
  <2>5. Quiet'
    BY <1>0, <1>14 DEF MakeRoom, Quiet, Put, Bridging
  <2>6. Orderly
    BY <1>0, <1>14 DEF MakeRoom, Orderly, Put, Listed, Scarce
  <2> QED
    BY <2>1, <2>2, <2>3, <2>4, <2>5, <2>6, AlikeStep
<1>15. ASSUME NEW r0 \in Request, Answered(r0) PROVE LaneInv'
  <2>1. /\ {r0} \in SUBSET Request /\ (\A r \in {r0} : Live(r)) /\ Finish({r0}) /\ upload' = upload
        /\ lane' = lane
    BY <1>15 DEF Answered, Pending
  <2>2. closed' \in SUBSET Channel /\ Replies'
    <3>1. req[r0].ch \in Channel
      BY <1>0, <1>15 DEF Answered, LaneTypes, Free, Tasks
    <3> DEFINE c == req[r0].ch
    <3>2. CASE Fail(c)
      BY <1>0, <3>1, <3>2, FailedIsClosed
    <3>3. CASE closed' = closed /\ queue' = queue
      BY <1>0, <3>3 DEF LaneTypes, Replies
    <3>4. CASE closed' = closed /\ c \notin closed /\ Len(queue[c]) < MaxQueue
            /\ queue' = Put(queue, c, Append(queue[c], "reply"))
      <4>1. Append(queue[c], "reply") \in Seq({"reply", "error"}) /\ Len(Append(queue[c], "reply")) = Len(queue[c]) + 1
        BY <1>0, <3>1 DEF Replies
      <4>2. Len(Append(queue[c], "reply")) <= MaxQueue
        BY <3>4, Limits
      <4> QED
        BY <1>0, <3>1, <3>4, <4>2 DEF LaneTypes, Replies, Put
    <3> QED
      BY <1>15, <3>2, <3>3, <3>4 DEF Answered
  <2>3. life' \in [Channel -> Lives] /\ Histories'
    BY <1>0, <1>15 DEF Answered, LaneTypes, Histories
  <2>4. \A c \in Channel : /\ life[c] = "run" => life'[c] = "run"
                           /\ Listed(c) => Listed(c)' \/ Pending(c) \in SUBSET {r0}
    BY <1>15 DEF Answered, Listed
  <2> QED
    BY <2>1, <2>2, <2>3, <2>4, FinishStep
<1>16. ASSUME NEW r0 \in Request, Broken(r0) PROVE LaneInv'
  <2>1. /\ {r0} \in SUBSET Request /\ (\A r \in {r0} : Live(r)) /\ Finish({r0}) /\ upload' = upload
        /\ lane' = lane
    BY <1>16 DEF Broken, Pending
  <2>2. closed' \in SUBSET Channel /\ Replies'
    <3>1. req[r0].ch \in Channel
      BY <1>0, <1>16 DEF Broken, LaneTypes, Free, Tasks
    <3> QED
      BY <1>0, <1>16, <3>1, FailedIsClosed DEF Broken
  <2>3. life' \in [Channel -> Lives] /\ Histories'
    BY <1>0, <1>16 DEF Broken, LaneTypes, Histories
  <2>4. \A c \in Channel : /\ life[c] = "run" => life'[c] = "run"
                           /\ Listed(c) => Listed(c)' \/ Pending(c) \in SUBSET {r0}
    BY <1>16 DEF Broken, Listed
  <2> QED
    BY <2>1, <2>2, <2>3, <2>4, FinishStep
<1>17. ASSUME NEW r0 \in Request, Killed(r0) PROVE LaneInv'
  <2>1. /\ {r0} \in SUBSET Request /\ (\A r \in {r0} : Live(r)) /\ Finish({r0}) /\ upload' = upload
        /\ lane' = lane
    BY <1>17 DEF Killed, Pending
  <2>2. closed' \in SUBSET Channel /\ Replies'
    BY <1>0, <1>17 DEF Killed, LaneTypes, Replies
  <2>3. life' \in [Channel -> Lives] /\ Histories'
    BY <1>0, <1>17 DEF Killed, LaneTypes, Histories
  <2>4. \A c \in Channel : /\ life[c] = "run" => life'[c] = "run"
                           /\ Listed(c) => Listed(c)' \/ Pending(c) \in SUBSET {r0}
    BY <1>17 DEF Killed, Listed
  <2> QED
    BY <2>1, <2>2, <2>3, <2>4, FinishStep
<1>18. ASSUME NEW c0 \in Channel, CloseDone(c0) PROVE LaneInv'
  <2>1. /\ Pending(c0) \in SUBSET Request /\ (\A r \in Pending(c0) : Live(r)) /\ Finish(Pending(c0)) /\ upload' = upload
        /\ lane' = lane
    BY <1>18 DEF CloseDone, Pending
  <2>2. closed' \in SUBSET Channel /\ Replies'
    BY <1>0, <1>18 DEF CloseDone, LaneTypes, Replies
  <2>3. life' \in [Channel -> Lives] /\ Histories'
    <3>1. <<>> \in Seq(Records) /\ Len(<<>>) = 0 /\ MaxHistory \in Nat
      BY Limits
    <3> QED
      BY <1>0, <1>18, <3>1 DEF CloseDone, LaneTypes, Lives, Histories, Put
  <2>4. \A c \in Channel : /\ life[c] = "run" => life'[c] = "run"
                           /\ Listed(c) => Listed(c)' \/ Pending(c) \in SUBSET Pending(c0)
    BY <1>18 DEF CloseDone, Listed, Gathered, Put
  <2> QED
    BY <2>1, <2>2, <2>3, <2>4, FinishStep
<1>19. ASSUME NEW c0 \in Channel, Upload(c0) PROVE LaneInv'
  <2>1. upload[c0].at \in {"slot", "lane"} /\ life[c0] = "run" /\ upload[c0] \in Waits
    BY <1>0, <1>19 DEF Upload, Quiet, LaneTypes
  <2>2. CASE SendNative(c0) /\ LaneRoom /\ (upload[c0].at = "slot" => ChanRoom(c0))
    <3>1. Cardinality(Pending(c0)) < MaxChan
      BY <1>0, <2>1, <2>2 DEF Shares, ChanRoom
    <3>2. PICK h \in Seq(Records) : Create(c0, upload[c0].pkt, FALSE, h) /\ Len(h) <= MaxHistory
      <4>1. CASE upload[c0].pkt = Plain
        BY <1>0, <2>2, <4>1 DEF SendNative, Histories
      <4>2. CASE upload[c0].pkt # Plain
        <5>1. upload[c0].pkt \in Packet
          BY <2>1, <4>2 DEF Waits, Named
        <5>2. PICK h \in Remembered(c0, upload[c0].pkt) : Create(c0, upload[c0].pkt, FALSE, Trimmed(c0, upload[c0].pkt, h))
          BY <2>2, <4>2 DEF SendNative
        <5> QED
          BY <1>0, <5>1, <5>2, TrimmedIsShort
      <4> QED
        BY <4>1, <4>2
    <3>3. /\ upload' \in [Channel -> Waits] /\ upload'[c0].at = "read" /\ \A d \in Channel \ {c0} : upload'[d] = upload[d]
      BY <1>0, <2>2 DEF SendNative, LaneTypes, Waits, Put
    <3>4. Replies' /\ lane' = lane /\ life' = life /\ closed' = closed /\ recover' = recover
            /\ recover' \in [Channel -> Recoveries]
      BY <1>0, <1>19 DEF Upload, Replies, LaneTypes
    <3>5. Quiet'
      BY <1>0, <3>3, <3>4 DEF Quiet
    <3>6. upload[c0].pkt \in Named /\ FALSE \in BOOLEAN /\ Listed(c0) /\ upload'[c0].at # "lane"
      BY <2>1, <3>3 DEF Waits, Listed
    <3> QED
      BY <2>2, <3>1, <3>2, <3>3, <3>4, <3>5, <3>6, CreateStep
  <2>3. CASE ~(SendNative(c0) /\ LaneRoom /\ (upload[c0].at = "slot" => ChanRoom(c0)))
    <3>1. /\ UNCHANGED <<lane, cool, life, closed, queue, writing, recover, sends, inflight, history, req>>
          /\ \/ upload' = Put(upload, c0, [upload[c0] EXCEPT !.at = "over"])
             \/ upload' = Put(upload, c0, [upload[c0] EXCEPT !.at = "lane"]) /\ ChanRoom(c0)
      BY <1>19, <2>3 DEF Upload, UploadOver
    <3>2. Alike /\ inflight' = inflight
      BY <3>1, SameRequests
    <3>3. upload' \in [Channel -> Waits] /\ \A d \in Channel \ {c0} : upload'[d] = upload[d]
      BY <1>0, <3>1 DEF LaneTypes, Waits, Put
    <3>4. upload'[c0].at = "over" \/ (upload'[c0].at = "lane" /\ ChanRoom(c0))
      BY <1>0, <3>1 DEF LaneTypes, Waits, Put
    <3>5. LaneTypes' /\ Histories' /\ Replies'
      BY <1>0, <3>1, <3>3 DEF LaneTypes, Histories, Replies
    <3>6. Quiet'
      BY <1>0, <2>1, <3>1, <3>3 DEF Quiet
    <3>7. Orderly
      BY <1>0, <3>1, <3>3, <3>4 DEF Orderly, Listed, Scarce
    <3> QED
      BY <3>2, <3>5, <3>6, <3>7, AlikeStep
  <2> QED
    BY <2>2, <2>3
<1>20. ASSUME NEW c0 \in Channel, Pick(c0) PROVE LaneInv'
  <2>1. PICK i \in 1..Len(history[c0]) :
          \/ /\ Cardinality(Replays(c0)) < MaxReplays /\ CanRepeat(c0, i) /\ Repeat(c0, i)
             /\ recover' = Put(recover, c0, Resting)
          \/ \E r \in InTheWay(c0, history[c0][i].pkt) :
                /\ Kill({r}) /\ UNCHANGED <<inflight, history>>
                /\ recover' = Put(recover, c0, [at |-> "replace", req |-> r, pkt |-> history[c0][i].pkt])
    BY <1>20 DEF Pick
  <2>2. Bridging(c0) /\ UNCHANGED <<lane, life, closed, queue, upload>>
    BY <1>20 DEF Pick
  <2>3. CASE CanRepeat(c0, i) /\ Repeat(c0, i) /\ Cardinality(Replays(c0)) < MaxReplays
          /\ recover' = Put(recover, c0, Resting)
    BY <2>2, <2>3, RepeatStep
  <2>4. ASSUME NEW r \in InTheWay(c0, history[c0][i].pkt), Kill({r}), inflight' = inflight, history' = history,
               recover' = Put(recover, c0, [at |-> "replace", req |-> r, pkt |-> history[c0][i].pkt])
        PROVE  LaneInv'
    <3>1. r \in Replays(c0) /\ r \in Request /\ Live(r)
      BY DEF InTheWay, Replay, Own, Originals, Replays, Pending
    <3>2. Alike /\ req' \in [Request -> Tasks \cup {Free}]
      BY <1>0, <2>4, <3>1, KilledIsAlike
    <3>3. history[c0][i].pkt \in Packet
      BY <1>0, EntryOf
    <3>4. recover' \in [Channel -> Recoveries] /\ recover'[c0].at = "replace" /\ recover'[c0].req = r
          /\ \A d \in Channel \ {c0} : recover'[d] = recover[d]
      BY <1>0, <2>4, <3>1, <3>3 DEF LaneTypes, Recoveries, Put
    <3>5. LaneTypes' /\ Histories' /\ Replies' /\ Quiet'
      BY <1>0, <2>2, <2>4, <3>2, <3>4 DEF LaneTypes, Histories, Replies, Quiet, Bridging
    <3>6. Orderly
      BY <1>0, <2>2, <3>1, <3>4 DEF Orderly, Listed, Scarce
    <3> QED
      BY <2>4, <3>2, <3>5, <3>6, AlikeStep
  <2> QED
    BY <2>1, <2>3, <2>4
<1>21. ASSUME NEW c0 \in Channel, Replace(c0) PROVE LaneInv'
  <2>1. /\ Bridging(c0) /\ recover[c0].at = "send" /\ recover' = Put(recover, c0, Resting)
        /\ UNCHANGED <<lane, life, closed, queue, upload>>
    BY <1>21 DEF Replace
  <2> DEFINE i == Find(c0, recover[c0].pkt)
  <2>2. CASE i # 0 /\ CanRepeat(c0, i) /\ Repeat(c0, i)
    <3>1. i \in 1..Len(history[c0])
      BY <1>0, <2>2, FindIsPlace
    <3>2. Cardinality(Replays(c0)) < MaxReplays
      BY <1>0, <2>1 DEF Scarce
    <3> HIDE DEF i
    <3> QED
      BY <2>1, <2>2, <3>1, <3>2, RepeatStep
  <2>3. CASE UNCHANGED <<inflight, history, req>>
    <3>1. Alike
      BY <2>3, SameRequests
    <3>2. recover' \in [Channel -> Recoveries] /\ recover'[c0] = Resting
            /\ \A d \in Channel \ {c0} : recover'[d] = recover[d]
      BY <1>0, <2>1 DEF LaneTypes, Recoveries, Put
    <3>3. LaneTypes' /\ Histories' /\ Replies' /\ Quiet'
      BY <1>0, <2>1, <2>3, <3>2 DEF LaneTypes, Histories, Replies, Quiet
    <3>4. Orderly
      BY <1>0, <2>1, <3>2 DEF Orderly, Listed, Scarce, Resting
    <3> QED
      BY <2>3, <3>1, <3>3, <3>4, AlikeStep
  <2> QED
    BY <1>21, <2>2, <2>3 DEF Replace
<1>22. CASE UNCHANGED laneVars
  <2>1. Alike /\ inflight' = inflight
    BY <1>22, SameRequests DEF laneVars
  <2>2. LaneTypes' /\ Histories' /\ Replies' /\ Quiet'
    BY <1>0, <1>22 DEF laneVars, LaneTypes, Histories, Replies, Quiet
  <2>3. Orderly
    BY <1>0, <1>22 DEF laneVars, Orderly, Listed, Scarce
  <2> QED
    BY <2>1, <2>2, <2>3, AlikeStep
<1> QED
  BY <1>1, <1>2, <1>3, <1>4, <1>5, <1>6, <1>7, <1>8, <1>9, <1>10, <1>11, <1>12, <1>13, <1>14, <1>15, <1>16, <1>17,
          <1>18, <1>19, <1>20, <1>21, <1>22 DEF LaneNext

(* The types of a lane and of what its channels hold; histories and queues stay short. *)
THEOREM LaneTypesHold == LaneSpec => []LaneTypeOK
<1>1. LaneInv => LaneTypeOK
  BY DEF LaneInv, LaneTypes, Histories, Replies, Lives, LaneTypeOK
<1> QED
  BY <1>1, LaneStart, LaneStep, PTL DEF LaneSpec

(* The slots of a lane are those of the requests that are alive. *)
THEOREM SlotsAreAccounted == LaneSpec => []LaneAccounting
<1>1. LaneInv => LaneAccounting
  BY DEF LaneInv, Slots, Shares, LaneAccounting
<1> QED
  BY <1>1, LaneStart, LaneStep, PTL DEF LaneSpec

(* A step makes one request at most, for the channel and the packet it was asked for. *)
LEMMA CreatedIsNew ==
  ASSUME NEW c, NEW p, NEW replay, NEW h, Create(c, p, replay, h), NEW r \in Request, ~Live(r), Live(r)'
  PROVE  req'[r].ch = c /\ req'[r].pkt = p /\ req'[r].replay = replay
<1> DEFINE new == CHOOSE s \in Request : ~Live(s)
           kept(q) == \E i \in 1..Len(h) : h[i].pkt = q
<1>1. r \notin Pending(c)
  BY DEF Pending
<1>2. req'[r] = IF r = new THEN Made(c, p, replay, kept(p)) ELSE req[r]
  BY <1>1 DEF Create
<1>3. r = new
  BY <1>2 DEF Live
<1> QED
  BY <1>2, <1>3 DEF Made

(* A request that begins is an upload's, or repeats a packet that is due. *)
LEMMA WhoBegins ==
  ASSUME LaneInv, [LaneNext]_laneVars, NEW r \in Request, ~Live(r), Live(r)'
  PROVE  \/ \E c \in Channel : SendNative(c)
         \/ \E c \in Channel : \E i : CanRepeat(c, i) /\ Repeat(c, i)
<1>1. req' # req
  BY DEF Live
<1>2. ASSUME NEW set, Finish(set) PROVE FALSE
  BY <1>2 DEF Finish, Live, Free
<1>3. ASSUME NEW set, \A s \in set : Live(s), Kill(set) PROVE FALSE
  BY <1>3 DEF Kill, Live
<1>4. ~Cooled /\ ~PoolClose /\ ~UNCHANGED laneVars
  BY <1>1 DEF Cooled, PoolClose, laneVars
<1>5. ASSUME NEW c \in Channel,
             \/ Open(c) \/ Preflight(c) \/ OpenEnds(c) \/ Read(c) \/ Ages(c) \/ Receive(c)
             \/ Written(c) \/ BridgeEnds(c) \/ PickNone(c)
      PROVE  FALSE
  BY <1>1, <1>5 DEF Open, Preflight, OpenEnds, Read, Ages, Receive, Written, BridgeEnds, PickNone
<1>6. ASSUME NEW c \in Channel, Close(c) \/ CloseDone(c) PROVE FALSE
  BY <1>2, <1>3, <1>6 DEF Close, CloseDone, Pending
<1>7. ASSUME NEW c \in Channel, MakeRoom(c) PROVE FALSE
  <2>1. PICK s \in Yielding(c) : Kill({s})
    BY <1>7 DEF MakeRoom
  <2>2. Live(s)
    BY DEF Yielding, Victims, Pending
  <2> QED
    BY <1>3, <2>1, <2>2
<1>8. ASSUME NEW s \in Request, Answered(s) \/ Broken(s) \/ Killed(s) PROVE FALSE
  BY <1>2, <1>8 DEF Answered, Broken, Killed
<1>9. ASSUME NEW s \in Request, Advance(s) PROVE FALSE
  <2>1. Live(s)
    BY <1>9 DEF Advance
  <2>2. (\E x : req' = [req EXCEPT ![s].st = x]) \/ req' = [req EXCEPT ![s].late = TRUE]
    BY <1>9, Zenon DEF Advance
  <2>3. \A q \in Request \ {s} : req'[q] = req[q]
    BY <2>2 DEF LaneInv, LaneTypes
  <2> QED
    BY <2>1, <2>3 DEF Live
<1>10. ASSUME NEW c \in Channel, Upload(c) PROVE SendNative(c)
  BY <1>1, <1>10 DEF Upload, UploadOver
<1>11. ASSUME NEW c \in Channel, Pick(c) PROVE \E i : CanRepeat(c, i) /\ Repeat(c, i)
  <2>1. PICK i \in 1..Len(history[c]) :
          \/ CanRepeat(c, i) /\ Repeat(c, i)
          \/ \E s \in InTheWay(c, history[c][i].pkt) : Kill({s})
    BY <1>11 DEF Pick
  <2>2. ASSUME NEW s \in InTheWay(c, history[c][i].pkt), Kill({s}) PROVE FALSE
    <3>1. Live(s)
      BY DEF InTheWay, Replay, Own, Originals, Replays, Pending
    <3> QED
      BY <1>3, <2>2, <3>1
  <2> QED
    BY <2>1, <2>2
<1>12. ASSUME NEW c \in Channel, Replace(c) PROVE \E i : CanRepeat(c, i) /\ Repeat(c, i)
  <2> DEFINE i == Find(c, recover[c].pkt)
  <2>1. CanRepeat(c, i) /\ Repeat(c, i)
    BY <1>1, <1>12 DEF Replace
  <2> QED
    BY <2>1
<1> QED
  BY <1>4, <1>5, <1>6, <1>7, <1>8, <1>9, <1>10, <1>11, <1>12 DEF LaneNext

(* The packet was not being answered in the state in which its copy is made: _replay_blocker is
   asked again when the wait for another request is over (cf_h2.py 526-580). *)
LEMMA RepeatsAreDue == LaneInv /\ [LaneNext]_laneVars => [RepeatsTheUnanswered]_laneVars
<1> SUFFICES ASSUME LaneInv, [LaneNext]_laneVars, NEW r \in Request, ~Live(r), Live(r)', req'[r].replay
             PROVE  \A q \in Own(req'[r].ch, req'[r].pkt) : req[q].st # "body"
  BY DEF RepeatsTheUnanswered
<1>1. ASSUME NEW c \in Channel, SendNative(c) PROVE FALSE
  <2>1. PICK h : Create(c, upload[c].pkt, FALSE, h)
    BY <1>1 DEF SendNative
  <2> QED
    BY <2>1, CreatedIsNew, Zenon
<1>2. ASSUME NEW c \in Channel, NEW i, CanRepeat(c, i), Repeat(c, i)
      PROVE  \A q \in Own(req'[r].ch, req'[r].pkt) : req[q].st # "body"
  <2> DEFINE p == history[c][i].pkt
  <2>1. req'[r].ch = c /\ req'[r].pkt = p
    <3>1. PICK h : Create(c, p, TRUE, h)
      BY <1>2 DEF Repeat
    <3> HIDE DEF p
    <3> QED
      BY <3>1, CreatedIsNew, Zenon
  <2>2. \A q \in Own(c, p) : req[q].st # "body"
    BY <1>2 DEF CanRepeat, Due
  <2> QED
    BY <2>1, <2>2
<1> QED
  BY <1>1, <1>2, WhoBegins

(* A packet is repeated a few times at most, by one request at a time, and not while an
   answer to it is arriving. *)
THEOREM RepeatsAreBounded == LaneSpec => ReplaysAreBounded
<1>1. LaneInv => FewRepeats
  <2> SUFFICES ASSUME LaneInv, NEW c \in Channel
               PROVE  /\ Cardinality(Replays(c)) <= MaxReplays
                      /\ \A i \in 1..Len(history[c]) : /\ history[c][i].attempts <= MaxAttempts
                                                       /\ Cardinality(Replay(c, history[c][i].pkt)) <= 1
    BY DEF FewRepeats
  <2>1. Cardinality(Replays(c)) <= MaxReplays
    BY DEF LaneInv, Scarce
  <2>2. ASSUME NEW i \in 1..Len(history[c]) PROVE history[c][i].attempts <= MaxAttempts
    <3>1. history[c][i] \in Records
      BY DEF LaneInv, Histories
    <3> QED
      BY <3>1, Limits DEF Records
  <2>3. ASSUME NEW p PROVE Cardinality(Replay(c, p)) <= 1
    <3>1. \A r, s \in Replay(c, p) : r = s
      BY DEF LaneInv, OneCopy, Twin, Replay, Own, Originals, Pending
    <3>2. CASE Replay(c, p) = {}
      BY <3>2, FS_EmptySet
    <3>3. CASE Replay(c, p) # {}
      <4>1. PICK r \in Replay(c, p) : TRUE
        BY <3>3
      <4>2. Replay(c, p) = {r}
        BY <3>1, <4>1
      <4> QED
        <5>1. Cardinality({r}) = 1
          BY FS_Singleton
        <5> QED
          BY <4>2, <5>1
    <3> QED
      BY <3>2, <3>3
  <2> QED
    BY <2>1, <2>2, <2>3
<1> QED
  BY <1>1, RepeatsAreDue, LaneStart, LaneStep, PTL DEF LaneSpec, ReplaysAreBounded
-----------------------------------------------------------------------------
(* The types of the connection and of its requests. *)
Stages == {"idle", "lock", "connect", "reserve", "send", "headers", "body", "done"}
Opened == {"send", "headers", "body"}

StreamsTypes == /\ link \in {"none", "up", "failed"} /\ links \in Nat /\ shut \in BOOLEAN
                /\ opener \in Caller \cup {NoCaller} /\ settings \in BOOLEAN /\ room \in 1..MaxStreams
                /\ stage \in [Caller -> Stages] /\ mine \in SUBSET Caller
                /\ credit \in SUBSET Caller /\ headed \in SUBSET Caller /\ data \in SUBSET Caller
                /\ ended \in SUBSET Caller /\ broken \in SUBSET Caller
                /\ asleep \in SUBSET Caller /\ \A r \in asleep : Waiting(r)

(* The streams of the connection are those of its requests that are past reserve(), as
   many as MaxStreams at most; before the first connection there is no request of it. *)
Belonging == /\ \A r \in Caller : r \in streams <=> (r \in mine /\ stage[r] \in Opened)
             /\ streams \in SUBSET Caller /\ (link = "none" => mine = {})
             /\ IsFiniteSet(streams) /\ Cardinality(streams) <= MaxStreams

(* connect_lock is held by the request that opens a connection, and only while there is
   none that is up: so no request sleeps on the connection that the new one replaces. *)
Opening == /\ \A r \in Caller : stage[r] = "connect" <=> opener = r
           /\ opener # NoCaller => link # "up"

StreamsInv == StreamsTypes /\ Belonging /\ Opening /\ NoLostWakeup

LEMMA StreamsStart == StreamsInit => StreamsInv
<1> SUFFICES ASSUME StreamsInit PROVE StreamsInv
  OBVIOUS
<1> USE StreamsAssumption DEF StreamsInit
<1>1. StreamsTypes
  <2>1. room \in 1..MaxStreams /\ stage \in [Caller -> Stages]
    BY DEF Stages
  <2> QED
    BY <2>1 DEF StreamsTypes
<1>2. Belonging
  BY FS_EmptySet DEF Belonging, Opened
<1> QED
  BY <1>1, <1>2 DEF StreamsInv, Opening, NoLostWakeup

(* A connection that has no more streams than before has few enough. *)
LEMMA FewerStreams ==
  ASSUME StreamsTypes, Belonging, NEW S \in SUBSET streams PROVE IsFiniteSet(S) /\ Cardinality(S) <= MaxStreams
<1>1. IsFiniteSet(streams) /\ Cardinality(streams) \in Nat /\ Cardinality(streams) <= MaxStreams
  BY FS_CardinalityType DEF Belonging
<1>2. IsFiniteSet(S) /\ Cardinality(S) <= Cardinality(streams) /\ Cardinality(S) \in Nat
  BY <1>1, FS_Subset, FS_CardinalityType
<1> QED
  BY <1>1, <1>2, StreamsAssumption

(* A request that is over leaves nothing behind, and wakes who waits for its stream. *)
LEMMA Releases ==
  ASSUME StreamsInv, NEW r \in Caller, Waiting(r), Release(r), UNCHANGED linkVars PROVE StreamsInv'
<1>1. StreamsTypes /\ Belonging /\ Opening /\ NoLostWakeup
  BY DEF StreamsInv
<1>2. StreamsTypes'
  BY <1>1 DEF Release, Stage, linkVars, StreamsTypes, Stages, Waiting
<1>3. Belonging'
  <2>1. streams' \in SUBSET streams
    BY DEF Release
  <2> QED
    BY <1>1, FewerStreams DEF Release, Stage, linkVars, Belonging
<1>4. Opening'
  BY <1>1 DEF Release, Stage, linkVars, Opening, Waiting
<1>5. NoLostWakeup'
  BY <1>1 DEF Release, Stage, linkVars, StreamsTypes, Belonging, Opened, NoLostWakeup, Errors, GoesOn, Dead,
     OnLink, InStage, Sharing
<1> QED
  BY <1>2, <1>3, <1>4, <1>5 DEF StreamsInv

(* Every step of the connection keeps what is true of it. *)
LEMMA StreamsStep == StreamsInv /\ [StreamsNext]_streamVars => StreamsInv'
<1> SUFFICES ASSUME StreamsInv, [StreamsNext]_streamVars PROVE StreamsInv'
  OBVIOUS
<1> USE DEF linkVars, peerVars
<1>0. StreamsTypes /\ Belonging /\ Opening /\ NoLostWakeup
  BY DEF StreamsInv
<1>1. CASE Breaks
  <2>2. StreamsTypes'
    BY <1>0, <1>1 DEF Breaks, FailLink, StreamsTypes, Waiting, Belonging
  <2>3. Belonging'
    <3>1. streams' \in SUBSET streams
      BY <1>1 DEF Breaks, FailLink
    <3> QED
      BY <1>0, <1>1 DEF Breaks, FailLink, Belonging
  <2>4. Opening'
    BY <1>0, <1>1 DEF Breaks, FailLink, Opening
  <2>5. NoLostWakeup'
    BY <1>0, <1>1 DEF Breaks, FailLink, NoLostWakeup, Errors, GoesOn, Dead
  <2> QED
    BY <2>2, <2>3, <2>4, <2>5 DEF StreamsInv
<1>2. CASE Settings
  <2>2. StreamsTypes'
    BY <1>0, <1>2 DEF Settings, StreamsTypes, Waiting
  <2>3. Belonging'
    <3>1. streams' \in SUBSET streams
      BY <1>2 DEF Settings
    <3> QED
      BY <1>0, <1>2 DEF Settings, Belonging
  <2>4. Opening'
    BY <1>0, <1>2 DEF Settings, Opening
  <2>5. NoLostWakeup'
    BY <1>0, <1>2 DEF Settings, NoLostWakeup, Errors, GoesOn, Dead, OnLink
  <2> QED
    BY <2>2, <2>3, <2>4, <2>5 DEF StreamsInv
<1>3. CASE Window
  <2>2. StreamsTypes'
    BY <1>0, <1>3 DEF Window, StreamsTypes, Waiting, Belonging
  <2>3. Belonging'
    <3>1. streams' \in SUBSET streams
      BY <1>3 DEF Window
    <3> QED
      BY <1>0, <1>3 DEF Window, Belonging
  <2>4. Opening'
    BY <1>0, <1>3 DEF Window, Opening
  <2>5. NoLostWakeup'
    BY <1>0, <1>3 DEF Window, NoLostWakeup, Errors, GoesOn, Dead, OnLink
  <2> QED
    BY <2>2, <2>3, <2>4, <2>5 DEF StreamsInv
<1>4. CASE Shut
  <2>2. StreamsTypes'
    BY <1>0, <1>4 DEF Shut, StreamsTypes, Waiting
  <2>3. Belonging'
    <3>1. streams' \in SUBSET streams
      BY <1>4 DEF Shut
    <3> QED
      BY <1>0, <1>4 DEF Shut, Belonging
  <2>4. Opening'
    BY <1>0, <1>4 DEF Shut, Opening
  <2>5. NoLostWakeup'
    BY <1>0, <1>4 DEF Shut, NoLostWakeup, Errors, GoesOn, Dead
  <2> QED
    BY <2>2, <2>3, <2>4, <2>5 DEF StreamsInv
<1>5. CASE Closes
  <2>2. StreamsTypes'
    BY <1>0, <1>5 DEF Closes, FailLink, StreamsTypes, Waiting, Belonging
  <2>3. Belonging'
    <3>1. streams' \in SUBSET streams
      BY <1>5 DEF Closes, FailLink
    <3> QED
      BY <1>0, <1>5 DEF Closes, FailLink, Belonging
  <2>4. Opening'
    BY <1>0, <1>5 DEF Closes, FailLink, Opening
  <2>5. NoLostWakeup'
    BY <1>0, <1>5 DEF Closes, FailLink, NoLostWakeup, Errors, GoesOn, Dead
  <2> QED
    BY <2>2, <2>3, <2>4, <2>5 DEF StreamsInv
<1>6. ASSUME NEW r \in Caller, Ask(r) PROVE StreamsInv'
  <2>2. StreamsTypes'
    BY <1>0, <1>6 DEF Ask, Stage, StreamsTypes, Stages, Waiting
  <2>3. Belonging'
    <3>1. streams' \in SUBSET streams
      BY <1>6 DEF Ask
    <3> QED
      BY <1>0, <1>6 DEF Ask, Stage, Belonging, Opened
  <2>4. Opening'
    BY <1>0, <1>6 DEF Ask, Stage, Opening
  <2>5. NoLostWakeup'
    BY <1>0, <1>6 DEF Ask, Stage, NoLostWakeup, Errors, GoesOn, Dead, OnLink
  <2> QED
    BY <2>2, <2>3, <2>4, <2>5 DEF StreamsInv
<1>7. ASSUME NEW r \in Caller, Lock(r) PROVE StreamsInv'
  <2>2. StreamsTypes'
    BY <1>0, <1>7 DEF Lock, Stage, StreamsTypes, Stages, Waiting
  <2>3. Belonging'
    <3>1. streams' \in SUBSET streams
      BY <1>7 DEF Lock
    <3> QED
      BY <1>0, <1>7 DEF Lock, Stage, StreamsTypes, Belonging, Opened
  <2>4. Opening'
    BY <1>0, <1>7, StreamsAssumption DEF Lock, Stage, StreamsTypes, Opening
  <2>5. NoLostWakeup'
    BY <1>0, <1>7 DEF Lock, Stage, StreamsTypes, NoLostWakeup, Errors, GoesOn, Dead, Waiting
  <2> QED
    BY <2>2, <2>3, <2>4, <2>5 DEF StreamsInv
<1>8. ASSUME NEW r \in Caller, Connect(r) PROVE StreamsInv'
  <2>2. StreamsTypes'
    <3>1. stage' \in [Caller -> Stages] /\ asleep' = asleep /\ \A q \in asleep : stage'[q] = stage[q]
      BY <1>0, <1>8 DEF Connect, Stage, StreamsTypes, Stages, Waiting
    <3>2. links' \in Nat /\ room' \in 1..MaxStreams
      BY <1>0, <1>8, StreamsAssumption DEF Connect, StreamsTypes
    <3>3. mine' \in SUBSET Caller /\ link' \in {"none", "up", "failed"} /\ settings' \in BOOLEAN
      BY <1>0, <1>8 DEF Connect, StreamsTypes
    <3> QED
      BY <1>0, <1>8, <3>1, <3>2 DEF Connect, StreamsTypes, Waiting
  <2>3. Belonging'
    <3>1. streams' \in SUBSET streams
      BY <1>8 DEF Connect
    <3> QED
      BY <1>0, <1>8, FewerStreams DEF Connect, Stage, StreamsTypes, Belonging, Opened
  <2>4. Opening'
    BY <1>0, <1>8, StreamsAssumption DEF Connect, Stage, StreamsTypes, Opening
  <2>5. NoLostWakeup'
    <3> SUFFICES ASSUME NEW q \in asleep PROVE ~Errors(q)' /\ ~GoesOn(q)'
      BY <1>8 DEF Connect, NoLostWakeup
    <3>1. link # "up" /\ q \in Caller /\ q # r
      BY <1>0, <1>8, StreamsAssumption DEF Connect, Opening, StreamsTypes, Waiting
    <3>2. stage[q] \in {"headers", "body"} /\ stage'[q] = stage[q]
      BY <1>0, <1>8, <3>1 DEF Connect, Stage, StreamsTypes, Belonging, NoLostWakeup, Errors, Dead, OnLink, Waiting
    <3> QED
      BY <1>0, <1>8, <3>2 DEF Connect, NoLostWakeup, Errors, GoesOn, OnLink
  <2> QED
    BY <2>2, <2>3, <2>4, <2>5 DEF StreamsInv
<1>9. ASSUME NEW r \in Caller, Reserve(r) PROVE StreamsInv'
  <2>2. StreamsTypes'
    BY <1>0, <1>9 DEF Reserve, Stage, StreamsTypes, Stages, Waiting, Sharing, Belonging
  <2>3. Belonging'
    <3>1. Cardinality(streams) \in Nat /\ Cardinality(streams) < MaxStreams
      BY <1>0, <1>9, FS_CardinalityType, StreamsAssumption DEF Reserve, GoesOn, StreamsTypes, Belonging
    <3>2. streams' = streams \cup {r} /\ IsFiniteSet(streams) /\ r \in mine /\ link # "failed" /\ link' = link
            /\ mine' = mine
      BY <1>0, <1>9 DEF Reserve, Belonging, Errors, Dead, OnLink
    <3>3. IsFiniteSet(streams') /\ Cardinality(streams') <= MaxStreams
      <4>1. IsFiniteSet(streams \cup {r})
              /\ Cardinality(streams \cup {r}) \in {Cardinality(streams), Cardinality(streams) + 1}
        BY <3>2, FS_AddElement
      <4> QED
        BY <3>1, <3>2, <4>1, StreamsAssumption
    <3> QED
      BY <1>0, <1>9, <3>2, <3>3 DEF Reserve, Stage, StreamsTypes, Stages, Belonging, Opened
  <2>4. Opening'
    BY <1>0, <1>9, StreamsAssumption DEF Reserve, Stage, StreamsTypes, Opening, Stages, Waiting
  <2>5. NoLostWakeup'
    <3> SUFFICES ASSUME NEW q \in asleep' PROVE ~Errors(q)' /\ ~GoesOn(q)'
      BY DEF NoLostWakeup
    <3>1. q \in asleep /\ q # r /\ q \in Caller /\ stage'[q] = stage[q]
      BY <1>0, <1>9 DEF Reserve, Stage, StreamsTypes
    <3>2. stage[q] = "reserve" => ~GoesOn(q)'
      <4>1. Cardinality(streams) \in Nat /\ IsFiniteSet(streams) /\ streams' = streams \cup {r}
        BY <1>0, <1>9, FS_CardinalityType DEF Reserve, Belonging
      <4>2. Cardinality(streams') >= Cardinality(streams) /\ Cardinality(streams') \in Nat
        <5>1. Cardinality(streams \cup {r}) \in {Cardinality(streams), Cardinality(streams) + 1}
          BY <4>1, FS_AddElement
        <5> QED
          BY <4>1, <5>1
      <4>3. room' = room /\ settings' = settings /\ room \in 1..MaxStreams
        BY <1>0, <1>9 DEF Reserve, StreamsTypes
      <4> QED
        BY <1>0, <1>9, <3>1, <4>1, <4>2, <4>3, StreamsAssumption DEF NoLostWakeup, GoesOn
    <3>3. ~Errors(q)' /\ (stage[q] # "reserve" => ~GoesOn(q)')
      BY <1>0, <1>9, <3>1 DEF Reserve, NoLostWakeup, GoesOn, Errors, Dead
    <3> QED
      BY <3>2, <3>3
  <2> QED
    BY <2>2, <2>3, <2>4, <2>5 DEF StreamsInv
<1>10. ASSUME NEW r \in Caller, SendBody(r) PROVE StreamsInv'
  <2>2. StreamsTypes'
    BY <1>0, <1>10 DEF SendBody, Stage, StreamsTypes, Stages, Waiting, Sharing, Belonging
  <2>3. Belonging'
    <3>1. streams' \in SUBSET streams
      BY <1>0, <1>10 DEF SendBody, Stage, StreamsTypes
    <3> QED
      BY <1>0, <1>10, <3>1, FewerStreams DEF SendBody, Stage, StreamsTypes, Stages, Belonging, Opened, Waiting, Opening
  <2>4. Opening'
    BY <1>0, <1>10, StreamsAssumption DEF SendBody, Stage, StreamsTypes, Opening, Stages, Waiting
  <2>5. NoLostWakeup'
    BY <1>0, <1>10 DEF SendBody, Stage, StreamsTypes, NoLostWakeup, Errors, GoesOn, Dead
  <2> QED
    BY <2>2, <2>3, <2>4, <2>5 DEF StreamsInv
<1>11. ASSUME NEW r \in Caller, Headers(r) PROVE StreamsInv'
  <2>2. StreamsTypes'
    BY <1>0, <1>11 DEF Headers, Stage, StreamsTypes, Stages, Waiting, Sharing, Belonging
  <2>3. Belonging'
    <3>1. streams' \in SUBSET streams
      BY <1>0, <1>11 DEF Headers, Stage, StreamsTypes
    <3> QED
      BY <1>0, <1>11, <3>1, FewerStreams DEF Headers, Stage, StreamsTypes, Stages, Belonging, Opened, Waiting, Opening
  <2>4. Opening'
    BY <1>0, <1>11, StreamsAssumption DEF Headers, Stage, StreamsTypes, Opening, Stages, Waiting
  <2>5. NoLostWakeup'
    BY <1>0, <1>11 DEF Headers, Stage, NoLostWakeup, Errors, GoesOn, Dead
  <2> QED
    BY <2>2, <2>3, <2>4, <2>5 DEF StreamsInv
<1>12. ASSUME NEW r \in Caller, Body(r) PROVE StreamsInv'
  <2>1. CASE Release(r)
    BY <1>12, <2>1, Releases DEF Body, Waiting
  <2>0. CASE ~Release(r)
    <3>2. StreamsTypes'
      BY <1>0, <1>12, <2>0 DEF Body, StreamsTypes, Stages, Waiting, Sharing, Belonging
    <3>3. Belonging'
      <4>1. streams' \in SUBSET streams
        BY <1>0, <1>12, <2>0 DEF Body, StreamsTypes
      <4> QED
        BY <1>0, <1>12, <2>0, <4>1, FewerStreams DEF Body, StreamsTypes, Stages, Belonging, Opened, Waiting, Opening
    <3>4. Opening'
      BY <1>0, <1>12, <2>0, StreamsAssumption DEF Body, StreamsTypes, Opening, Stages, Waiting
    <3>5. NoLostWakeup'
      BY <1>0, <1>12, <2>0 DEF Body, NoLostWakeup, Errors, GoesOn, Dead
    <3> QED
      BY <3>2, <3>3, <3>4, <3>5 DEF StreamsInv
  <2> QED
    BY <2>1, <2>0
<1>13. ASSUME NEW r \in Caller, Raises(r) PROVE StreamsInv'
  BY <1>13, Releases DEF Raises
<1>14. ASSUME NEW r \in Caller, Sleeps(r) PROVE StreamsInv'
  <2>2. StreamsTypes'
    BY <1>0, <1>14 DEF Sleeps, StreamsTypes, Stages, Waiting, Sharing, Belonging
  <2>3. Belonging'
    <3>1. streams' \in SUBSET streams
      BY <1>0, <1>14 DEF Sleeps, StreamsTypes
    <3> QED
      BY <1>0, <1>14, <3>1, FewerStreams DEF Sleeps, StreamsTypes, Stages, Belonging, Opened, Waiting, Opening
  <2>4. Opening'
    BY <1>0, <1>14, StreamsAssumption DEF Sleeps, StreamsTypes, Opening, Stages, Waiting
  <2>5. NoLostWakeup'
    BY <1>0, <1>14 DEF Sleeps, NoLostWakeup, Errors, GoesOn, Dead
  <2> QED
    BY <2>2, <2>3, <2>4, <2>5 DEF StreamsInv
<1>15. ASSUME NEW r \in Caller, GivesUp(r) PROVE StreamsInv'
  <2>1. CASE Waiting(r)
    BY <1>15, <2>1, Releases DEF GivesUp, Waiting
  <2>0. CASE ~Waiting(r)
    <3>2. StreamsTypes'
      BY <1>0, <1>15, <2>0 DEF GivesUp, Stage, StreamsTypes, Stages, Waiting
    <3>3. Belonging'
      <4>1. streams' \in SUBSET streams
        BY <1>15, <2>0 DEF GivesUp
      <4> QED
        BY <1>0, <1>15, <2>0 DEF GivesUp, Stage, StreamsTypes, Belonging, Opened
    <3>4. Opening'
      BY <1>0, <1>15, <2>0, StreamsAssumption DEF GivesUp, Stage, StreamsTypes, Opening
    <3>5. NoLostWakeup'
      BY <1>0, <1>15, <2>0 DEF GivesUp, Stage, StreamsTypes, NoLostWakeup, Errors, GoesOn, Dead
    <3> QED
      BY <3>2, <3>3, <3>4, <3>5 DEF StreamsInv
  <2> QED
    BY <2>1, <2>0
<1>16. ASSUME NEW r \in Caller, Arrives(r) PROVE StreamsInv'
  <2>2. StreamsTypes'
    BY <1>0, <1>16 DEF Arrives, StreamsTypes, Waiting
  <2>3. Belonging'
    <3>1. streams' \in SUBSET streams
      BY <1>16 DEF Arrives
    <3> QED
      BY <1>0, <1>16 DEF Arrives, Belonging
  <2>4. Opening'
    BY <1>0, <1>16 DEF Arrives, Opening
  <2>5. NoLostWakeup'
    BY <1>0, <1>16 DEF Arrives, NoLostWakeup, Errors, GoesOn, Dead
  <2> QED
    BY <2>2, <2>3, <2>4, <2>5 DEF StreamsInv
<1>17. ASSUME NEW r \in Caller, ResetStream(r) PROVE StreamsInv'
  <2>2. StreamsTypes'
    BY <1>0, <1>17 DEF ResetStream, StreamsTypes, Waiting
  <2>3. Belonging'
    <3>1. streams' \in SUBSET streams
      BY <1>17 DEF ResetStream
    <3> QED
      BY <1>0, <1>17 DEF ResetStream, Belonging
  <2>4. Opening'
    BY <1>0, <1>17 DEF ResetStream, Opening
  <2>5. NoLostWakeup'
    BY <1>0, <1>17 DEF ResetStream, NoLostWakeup, Errors, GoesOn, Dead
  <2> QED
    BY <2>2, <2>3, <2>4, <2>5 DEF StreamsInv
<1>18. CASE UNCHANGED streamVars
  BY <1>18 DEF streamVars, StreamsInv, StreamsTypes, Belonging, Opening, NoLostWakeup, Errors, GoesOn, Dead,
     Waiting
<1> QED
  BY <1>1, <1>2, <1>3, <1>4, <1>5, <1>6, <1>7, <1>8, <1>9, <1>10, <1>11, <1>12, <1>13, <1>14, <1>15, <1>16, <1>17,
          <1>18 DEF StreamsNext

(* The connection's types, the limit of its streams and its lock. *)
THEOREM StreamsTypesHold == StreamsSpec => []StreamsTypeOK
<1>1. StreamsInv => StreamsTypeOK
  BY StreamsAssumption DEF StreamsInv, StreamsTypes, Belonging, Opening, Opened, Stages, StreamsTypeOK, InStage
<1> QED
  BY <1>1, StreamsStart, StreamsStep, PTL DEF StreamsSpec

(* Nobody sleeps through what it waits for. *)
THEOREM NoWakeupIsLost == StreamsSpec => []NoLostWakeup
<1>1. StreamsInv => NoLostWakeup
  BY DEF StreamsInv
<1> QED
  BY <1>1, StreamsStart, StreamsStep, PTL DEF StreamsSpec
=============================================================================
