------------------------------- MODULE H2Lane -------------------------------
(***************************************************************************)
(* Media over HTTP/2 (tgproxy/cf_h2.py 146-989): the connection of one     *)
(* host, its lane, is shared by the channels of several Telegram clients.  *)
(* A packet is a POST of its own; a packet whose answer does not come is   *)
(* sent again from the channel's history.  All run on one event loop and   *)
(* no lock of a lane is held over an await: an action is what runs between *)
(* two awaits.  Sizes in bytes are left out, and times are flags.          *)
(***************************************************************************)
EXTENDS Naturals, SequencesExt, Listing

CONSTANTS Channel, Request,  \* bound: the requests there are at a time
          Packet, Plain,     \* Plain: a packet of the key exchange, never repeated
          MaxChan,           \* MAX_CHANNEL_REQUESTS
          MaxLane,           \* MAX_LANE_REQUESTS
          MaxReplays,        \* MAX_CHANNEL_REPLAYS
          MaxAttempts,       \* REPLAY_MAX_ATTEMPTS
          MaxHistory,        \* REPLAY_HISTORY_PACKETS
          MaxQueue,          \* the maxsize of the reply queue
          MaxSend            \* bound on the packets the clients send

ASSUME LaneAssumption == /\ {MaxChan, MaxLane, MaxReplays, MaxAttempts, MaxHistory, MaxQueue} \subseteq Nat \ {0}
                         /\ Plain \notin Packet /\ Cardinality(Packet) > MaxHistory
                         /\ IsFiniteSet(Request) /\ Cardinality(Request) >= MaxLane

VARIABLES lane,     \* the lane of the host: "none", "up" or "closed"
          cool,     \* new channels are refused for a while: failed_until of the lane or of the
                    \* host, or setup_retry_after of the data centre, is in the future
          inflight, \* lane.inflight
          life,     \* channel -> where its client's handler is
          closed,   \* the channels with closed set
          queue,    \* channel -> the replies and the error not received yet
          writing,  \* the channels with delivering_since: a reply is being written
          upload,   \* channel -> what upload() waits for, and the packet
          history,  \* channel -> replay_history
          recover,  \* channel -> where _recover is
          req,      \* the tasks of pending, of all channels
          sends

laneVars == <<lane, cool, inflight, life, closed, queue, writing, upload, history, recover, req, sends>>

Free    == [st |-> "free"]
Resting == [at |-> "wait"]

LaneInit == /\ lane = "none" /\ cool = FALSE /\ inflight = 0
            /\ life = [c \in Channel |-> "new"] /\ closed = {} /\ writing = {}
            /\ queue = [c \in Channel |-> <<>>] /\ history = [c \in Channel |-> <<>>]
            /\ upload = [c \in Channel |-> [at |-> "read", pkt |-> Plain]]
            /\ recover = [c \in Channel |-> Resting]
            /\ req = [r \in Request |-> Free] /\ sends = 0

Live(r)      == req[r].st # "free"
Pending(c)   == {r \in Request : Live(r) /\ req[r].ch = c}
Replays(c)   == {r \in Pending(c) : req[r].replay}
Bridging(c)  == life[c] = "run"
Listed(c)    == life[c] \in {"run", "end", "closing"}   \* lane.channels
ChanRoom(c)  == Cardinality(Pending(c)) < MaxChan
LaneRoom     == inflight < MaxLane
Put(f, c, v) == [f EXCEPT ![c] = v]
-----------------------------------------------------------------------------
(* A packet of the history, and the requests that are its own (kept: the packet they
   were made for is still in the history). *)
Find(c, p)      == LET places == {i \in 1..Len(history[c]) : history[c][i].pkt = p}
                   IN IF places = {} THEN 0 ELSE Nth(places, 1)
Own(c, p)       == {r \in Pending(c) : req[r].kept /\ req[r].pkt = p}
Originals(c, p) == {r \in Own(c, p) : ~req[r].replay}
Replay(c, p)    == Own(c, p) \ Originals(c, p)
Late(r)         == req[r].st = "sent" /\ req[r].late
Overdue(c, e)   == e.retired \/ \E r \in Originals(c, e.pkt) : Late(r)

(* Mutant: the attempts of a packet are not counted against its limit. *)
DueForever(c, i) ==
    LET e == history[c][i]
    IN /\ ~e.old
       /\ \A r \in Own(c, e.pkt) : req[r].st # "body"
       /\ Overdue(c, e) \/ (i = Len(history[c]) /\ Pending(c) \subseteq Replay(c, e.pkt))

(* Mutant: nobody looks whether the answer of the packet is arriving. *)
DueWhileArriving(c, i) ==
    LET e == history[c][i]
    IN /\ ~e.old /\ e.attempts < MaxAttempts
       /\ e.retired \/ Originals(c, e.pkt) # {} \/ i = Len(history[c])
       /\ Overdue(c, e) \/ (i = Len(history[c]) /\ Pending(c) \subseteq Replay(c, e.pkt))

(* _replay_blocker: a packet may be repeated when it is recent, has attempts left, its
   answer is not arriving, and it is overdue, or the last one and nothing else is asked. *)
Due(c, i) ==
    LET e == history[c][i]
    IN /\ ~e.old /\ e.attempts < MaxAttempts
       /\ e.retired \/ Originals(c, e.pkt) # {} \/ i = Len(history[c])
       /\ \A r \in Own(c, e.pkt) : req[r].st # "body"
       /\ Overdue(c, e) \/ (i = Len(history[c]) /\ Pending(c) \subseteq Replay(c, e.pkt))

Pressed(c) == queue[c] # <<>> \/ c \in writing   \* native_backpressure

(* _fail: the first error closes the channel; what is in the queue is thrown away. *)
Fail(c) == /\ closed' = closed \cup {c}
           /\ queue' = IF c \in closed THEN queue ELSE Put(queue, c, <<"error">>)

(* _finish_request: the requests leave pending and the lane; who waited for their end goes on. *)
Finish(set) == /\ req' = [r \in Request |-> IF r \in set THEN Free ELSE req[r]]
               /\ inflight' = inflight - Cardinality(set)
               /\ recover' = [c \in Channel |->
                     IF recover[c].at \notin {"room", "replace"} \/ recover[c].req \notin set THEN recover[c]
                     ELSE IF recover[c].at = "room" THEN [at |-> "pick"]
                     ELSE [at |-> "send", pkt |-> recover[c].pkt]]
-----------------------------------------------------------------------------
(* CfH2Pool.open: one setup of a host at a time, none while it or the data centre rests. *)
Open(c) == /\ life[c] = "new" /\ lane # "closed" /\ \A d \in Channel : life[d] # "preflight"
           /\ life' = Put(life, c, IF cool THEN "gone" ELSE IF lane = "up" THEN "run" ELSE "preflight")
           /\ UNCHANGED <<lane, cool, inflight, closed, queue, writing, upload, history, recover, req, sends>>

Preflight(c) == /\ life[c] = "preflight"
                /\ \/ lane' = "up" /\ life' = Put(life, c, "run") /\ UNCHANGED cool
                   \/ cool' = TRUE /\ life' = Put(life, c, "gone") /\ UNCHANGED lane
                /\ UNCHANGED <<inflight, closed, queue, writing, upload, history, recover, req, sends>>

(* SETUP_TIMEOUT while it waits for the other setup or for its own, or the server cancels
   its client. *)
OpenEnds(c) == /\ life' = Put(life, c, "gone") /\ cool' \in {cool, TRUE}
               /\ life[c] = "preflight" \/ (life[c] = "new" /\ \E d \in Channel : life[d] = "preflight")
               /\ UNCHANGED <<lane, inflight, closed, queue, writing, upload, history, recover, req, sends>>

Cooled == /\ cool /\ cool' = FALSE
          /\ UNCHANGED <<lane, inflight, life, closed, queue, writing, upload, history, recover, req, sends>>

(* The pool is closed after all its clients. *)
PoolClose == /\ \A c \in Channel : life[c] \in {"new", "done", "gone"}
             /\ lane = "up" /\ lane' = "closed"
             /\ UNCHANGED <<cool, inflight, life, closed, queue, writing, upload, history, recover, req, sends>>
-----------------------------------------------------------------------------
(* A packet that is not in the history; which one does not matter. *)
Unsent(c) == CHOOSE p \in Packet : Find(c, p) = 0

(* upload(): a packet, new or repeated by the client, waits for a slot of the channel,
   then for one of the lane. *)
Read(c) == /\ Bridging(c) /\ upload[c].at = "read" /\ sends < MaxSend
           /\ \E p \in {Plain, Unsent(c)} \cup {history[c][i].pkt : i \in 1..Len(history[c])} : upload' = Put(upload, c, [at |-> "slot", pkt |-> p])
           /\ sends' = sends + 1
           /\ UNCHANGED <<lane, cool, inflight, life, closed, queue, writing, history, recover, req>>

(* _remember_packet and _trim_history: a packet of another key clears the history, and
   the packet that no longer needs to be repeated goes first. *)
Entry(p) == [pkt |-> p, attempts |-> 0, retired |-> FALSE, old |-> FALSE]
Remembered(c, p) == IF Find(c, p) # 0 THEN {history[c]}
                    ELSE {Append(history[c], Entry(p)), <<Entry(p)>>}
Spare(c, e, p) == /\ e.pkt # p /\ Originals(c, e.pkt) = {}
                  /\ ~(e.retired /\ e.attempts < MaxAttempts /\ ~e.old)
Trimmed(c, p, h) == IF Len(h) <= MaxHistory THEN h
                    ELSE LET spare == {i \in 1..Len(h) : Spare(c, h[i], p)}
                         IN RemoveAt(h, IF spare = {} THEN 1 ELSE Nth(spare, 1))

Made(c, p, replay, kept) ==
    [st |-> "made", ch |-> c, pkt |-> p, replay |-> replay, kept |-> kept, late |-> FALSE, killed |-> FALSE]

(* A new request, in any free slot, with the history h. *)
Create(c, p, replay, h) ==
    LET kept(q) == \E i \in 1..Len(h) : h[i].pkt = q
        new == CHOOSE r \in Request : ~Live(r)
    IN /\ req' = [r \in Request |->
                     IF r = new THEN Made(c, p, replay, kept(p))
                     ELSE IF r \in Pending(c) THEN [req[r] EXCEPT !.kept = @ /\ kept(req[r].pkt)]
                     ELSE req[r]]
       /\ history' = Put(history, c, h) /\ inflight' = inflight + 1

SendNative(c) == /\ \/ upload[c].pkt = Plain /\ Create(c, Plain, FALSE, history[c])
                    \/ /\ upload[c].pkt # Plain
                       /\ \E h \in Remembered(c, upload[c].pkt) :
                             Create(c, upload[c].pkt, FALSE, Trimmed(c, upload[c].pkt, h))
                 /\ upload' = Put(upload, c, [upload[c] EXCEPT !.at = "read"])

UploadOver(c) == /\ upload' = Put(upload, c, [upload[c] EXCEPT !.at = "over"])
                 /\ UNCHANGED <<inflight, history, req>>

Upload(c) == /\ \/ /\ upload[c].at = "slot" /\ (ChanRoom(c) \/ c \in closed)
                   /\ IF c \in closed THEN UploadOver(c)
                      ELSE IF LaneRoom THEN SendNative(c)
                      ELSE /\ upload' = Put(upload, c, [upload[c] EXCEPT !.at = "lane"])
                           /\ UNCHANGED <<inflight, history, req>>
                \/ /\ upload[c].at = "lane" /\ LaneRoom
                   /\ IF c \in closed THEN UploadOver(c) ELSE SendNative(c)
                \/ upload[c].at \in {"slot", "lane"} /\ UploadOver(c)   \* REQUEST_TIMEOUT
             /\ UNCHANGED <<lane, cool, life, closed, queue, writing, recover, sends>>
-----------------------------------------------------------------------------
(* A request: it starts, is sent, is late, and its answer begins to arrive. *)
Advance(r) == /\ Live(r) /\ ~req[r].killed
              /\ \/ \E s \in {<<"made", "post">>, <<"post", "sent">>, <<"post", "body">>, <<"sent", "body">>} :
                       req[r].st = s[1] /\ req' = [req EXCEPT ![r].st = s[2]]
                 \/ req[r].st = "sent" /\ ~req[r].late /\ req' = [req EXCEPT ![r].late = TRUE]
              /\ UNCHANGED <<lane, cool, inflight, life, closed, queue, writing, upload, history, recover, sends>>

(* _run_request has its answer: nothing for the client, a reply, or one too many. *)
Answered(r) == /\ Live(r) /\ ~req[r].killed /\ req[r].st = "body" /\ Finish({r})
               /\ LET c == req[r].ch
                  IN \/ UNCHANGED <<closed, queue>>
                     \/ /\ c \notin closed /\ Len(queue[c]) < MaxQueue
                        /\ queue' = Put(queue, c, Append(queue[c], "reply")) /\ UNCHANGED closed
                     \/ c \notin closed /\ Len(queue[c]) = MaxQueue /\ Fail(c)
               /\ UNCHANGED <<lane, cool, life, writing, upload, history, sends>>

(* It fails: a fault of the transport rests the lane, an error code of Telegram or a
   full reply buffer does not. *)
Broken(r) == /\ Live(r) /\ ~req[r].killed /\ req[r].st \in {"post", "sent", "body"}
             /\ Finish({r}) /\ Fail(req[r].ch)
             /\ cool' \in {cool, TRUE}
             /\ UNCHANGED <<lane, life, writing, upload, history, sends>>

(* A cancelled request that had started finishes itself. *)
Killed(r) == /\ Live(r) /\ req[r].killed /\ req[r].st # "made" /\ Finish({r})
             /\ UNCHANGED <<lane, cool, life, closed, queue, writing, upload, history, sends>>

Ages(c) == /\ Bridging(c)
           /\ \E i \in 1..Len(history[c]) :
                 ~history[c][i].old /\ history' = [history EXCEPT ![c][i].old = TRUE]
           /\ UNCHANGED <<lane, cool, inflight, life, closed, queue, writing, upload, recover, req, sends>>
-----------------------------------------------------------------------------
(* download(): a reply is written to the client; the error, or a failed write, ends it. *)
Receive(c) == /\ Bridging(c) /\ c \notin writing /\ queue[c] # <<>> /\ Head(queue[c]) = "reply"
              /\ queue' = Put(queue, c, Tail(queue[c])) /\ writing' = writing \cup {c}
              /\ UNCHANGED <<lane, cool, inflight, life, closed, upload, history, recover, req, sends>>

Written(c) == /\ c \in writing /\ writing' = writing \ {c}
              /\ UNCHANGED <<lane, cool, inflight, life, closed, queue, upload, history, recover, req, sends>>

(* One of the three tasks is over, or the handler is cancelled: the others are cancelled
   and waited for. *)
BridgeEnds(c) == /\ Bridging(c) /\ life' = Put(life, c, "end")
                 /\ upload' = Put(upload, c, [upload[c] EXCEPT !.at = "over"])
                 /\ writing' = writing \ {c} /\ recover' = Put(recover, c, Resting)
                 /\ UNCHANGED <<lane, cool, inflight, closed, queue, history, req, sends>>

Kill(set) == req' = [r \in Request |-> IF r \in set THEN [req[r] EXCEPT !.killed = TRUE] ELSE req[r]]

Close(c) == /\ life[c] = "end" /\ life' = Put(life, c, "closing")
            /\ Fail(c) /\ Kill(Pending(c))
            /\ UNCHANGED <<lane, cool, inflight, writing, upload, history, recover, sends>>

Gathered(c) == life[c] = "closing" /\ \A r \in Pending(c) : req[r].st = "made"

(* Mutant: the requests that never started are dropped without their slots. *)
CloseDoneForgets(c) ==
    /\ Gathered(c) /\ life' = Put(life, c, "done") /\ history' = Put(history, c, <<>>)
    /\ req' = [r \in Request |-> IF r \in Pending(c) THEN Free ELSE req[r]]
    /\ UNCHANGED <<lane, cool, inflight, closed, queue, writing, upload, recover, sends>>

(* The cancelled requests are over; those that never started are finished here. *)
CloseDone(c) == /\ Gathered(c) /\ life' = Put(life, c, "done") /\ history' = Put(history, c, <<>>)
                /\ Finish(Pending(c))
                /\ UNCHANGED <<lane, cool, closed, queue, writing, upload, sends>>
-----------------------------------------------------------------------------
(* _make_upload_room: which request gives way, a repeated one before an original. *)
Victims(c) == LET late == {r \in Pending(c) : Late(r) /\ ~req[r].killed}
                  repeated == {r \in late : req[r].replay}
              IN IF repeated # {} THEN repeated
                 ELSE {r \in late : req[r].kept /\ ~history[c][Find(c, req[r].pkt)].old}

Crowded(c) == {d \in Channel : \/ upload[c].at = "slot" /\ ~ChanRoom(c) /\ d = c
                               \/ upload[c].at = "lane" /\ ~LaneRoom /\ Listed(d)}
Yielding(c) == UNION {Victims(d) : d \in Crowded(c)}

MakeRoom(c) == /\ Bridging(c) /\ c \notin closed /\ recover[c].at = "wait"
               /\ \E r \in Yielding(c) :
                     /\ Kill({r}) /\ recover' = Put(recover, c, [at |-> "room", req |-> r])
                     /\ history' = IF req[r].replay THEN history
                                   ELSE [history EXCEPT ![req[r].ch][Find(req[r].ch, req[r].pkt)].retired = TRUE]
               /\ UNCHANGED <<lane, cool, inflight, life, closed, queue, writing, upload, sends>>

CanRepeat(c, i) == /\ c \notin closed /\ ~Pressed(c) /\ upload[c].at \notin {"slot", "lane"}
                   /\ ChanRoom(c) /\ LaneRoom
                   /\ Replay(c, history[c][i].pkt) = {} /\ Due(c, i)
Repeat(c, i)    == Create(c, history[c][i].pkt, TRUE, [history[c] EXCEPT ![i].attempts = @ + 1])

(* _recover: a due packet is sent again, at once or after the request that has its slot
   was cancelled. *)
InTheWay(c, p) == IF Replay(c, p) # {} THEN Replay(c, p)
                  ELSE IF Cardinality(Replays(c)) < MaxReplays THEN {}
                  ELSE {r \in Replays(c) : req[r].st # "body"}
Replaceable(r) == Late(r) /\ ~req[r].killed

Pick(c) == /\ Bridging(c) /\ c \notin closed /\ ~Pressed(c)
           /\ recover[c].at = "pick" \/ (recover[c].at = "wait" /\ Yielding(c) = {})
           /\ \E i \in 1..Len(history[c]) :
                 LET p == history[c][i].pkt IN
                 /\ Due(c, i)
                 /\ \/ /\ InTheWay(c, p) = {} /\ Cardinality(Replays(c)) < MaxReplays
                       /\ CanRepeat(c, i) /\ Repeat(c, i) /\ recover' = Put(recover, c, Resting)
                    \/ \E r \in InTheWay(c, p) :
                          /\ Replaceable(r) /\ Kill({r})
                          /\ recover' = Put(recover, c, [at |-> "replace", req |-> r, pkt |-> p])
                          /\ UNCHANGED <<inflight, history>>
           /\ UNCHANGED <<lane, cool, life, closed, queue, writing, upload, sends>>

PickNone(c) == /\ Bridging(c) /\ recover[c].at = "pick" /\ recover' = Put(recover, c, Resting)
               /\ UNCHANGED <<lane, cool, inflight, life, closed, queue, writing, upload, history, req, sends>>

Replace(c) == /\ Bridging(c) /\ recover[c].at = "send" /\ recover' = Put(recover, c, Resting)
              /\ LET i == Find(c, recover[c].pkt)
                 IN IF i # 0 /\ CanRepeat(c, i) THEN Repeat(c, i) ELSE UNCHANGED <<inflight, history, req>>
              /\ UNCHANGED <<lane, cool, life, closed, queue, writing, upload, sends>>

LaneNext == \/ Cooled \/ PoolClose
            \/ \E c \in Channel : \/ Open(c) \/ Preflight(c) \/ OpenEnds(c)
                                  \/ Read(c) \/ Upload(c) \/ Ages(c) \/ Receive(c) \/ Written(c)
                                  \/ BridgeEnds(c) \/ Close(c) \/ CloseDone(c)
                                  \/ MakeRoom(c) \/ Pick(c) \/ PickNone(c) \/ Replace(c)
            \/ \E r \in Request : Advance(r) \/ Answered(r) \/ Broken(r) \/ Killed(r)

LaneSpec == LaneInit /\ [][LaneNext]_laneVars
-----------------------------------------------------------------------------
LaneTypeOK == /\ lane \in {"none", "up", "closed"} /\ inflight \in Nat /\ closed \subseteq Channel
              /\ life \in [Channel -> {"new", "preflight", "gone", "run", "end", "closing", "done"}]
              /\ \A c \in Channel : Len(history[c]) <= MaxHistory /\ Len(queue[c]) <= MaxQueue
              /\ \A c \in closed : queue[c] \in {<<>>, <<"error">>}

(* The slots of a lane are those of the requests its channels wait for, however these ended:
   answered, failed, cancelled for another packet, cancelled before they began
   (cf_h2.py:580).  No channel and no lane has more than its share, and a channel that is
   closed has none. *)
LaneAccounting == /\ inflight = Cardinality({r \in Request : Live(r)}) /\ inflight <= MaxLane
                  /\ \A c \in Channel : /\ Cardinality(Pending(c)) <= MaxChan
                                        /\ ~Listed(c) => Pending(c) = {}

(* A packet is repeated a few times at most, one copy at a time, and few packets of a
   channel at a time. *)
FewRepeats ==
    \A c \in Channel :
       /\ Cardinality(Replays(c)) <= MaxReplays
       /\ \A i \in 1..Len(history[c]) : /\ history[c][i].attempts <= MaxAttempts
                                        /\ Cardinality(Replay(c, history[c][i].pkt)) <= 1

(* What a step repeats is a packet no answer of which is arriving, to the original or to
   an earlier copy: also when it first had to wait for another request to give way. *)
RepeatsTheUnanswered ==
    \A r \in Request : ~Live(r) /\ Live(r)' /\ req'[r].replay =>
        \A q \in Own(req'[r].ch, req'[r].pkt) : req[q].st # "body"

ReplaysAreBounded == []FewRepeats /\ [][RepeatsTheUnanswered]_laneVars
=============================================================================
