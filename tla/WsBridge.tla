------------------------------ MODULE WsBridge ------------------------------
(***************************************************************************)
(* One bridged connection (bridge_ws_reencrypt, bridge.py 326-451, over    *)
(* RawWebSocket, raw_websocket.py 62-290): tcp_to_ws cuts the client's     *)
(* stream into frames, ws_to_tcp puts the peer's frames together, answers  *)
(* its pings and its close; whichever ends first, the other is cancelled   *)
(* and the WebSocket closed.  An action is what runs between two awaits.   *)
(***************************************************************************)
EXTENDS MsgSplitter, FiniteSets

CONSTANTS Transport, Garbage,  \* transport -> the packets a client may send, and what is no packet
          MaxPackets,     \* bound: packets of the client
          MaxMessages,    \* bound: messages of the peer
          MaxPings,       \* bound: pings of the peer
          MaxMessage      \* MAX_MESSAGE_LEN

ASSUME BridgeAssumption == MaxMessage \in Nat \ {0} /\ MaxPackets \in Nat \ {0} /\ MaxMessages \in Nat /\ MaxPings \in Nat
(* A packet is as long as its length field says; what is no packet has none, or an empty one. *)
ASSUME PacketAssumption ==
    \A p \in DOMAIN Transport :
       /\ \A b \in Transport[p] \cup Garbage[p] : b \in Seq(0..255) /\ b # <<>>
       /\ \A b \in Transport[p] : NextPacketLen(p, b) = Len(b)
       /\ \A b \in Garbage[p] : NextPacketLen(p, b) = 0

VARIABLES packets,   \* what the client sends, packet by packet, and at last maybe something else
          received,  \* how many bytes of it were read
          splitter,
          up,        \* tcp_to_ws: "read", "drain", "tail" (the last drain), "done"
          out,       \* the frames written to the peer
          failed,    \* history: tcp_to_ws ended with an error, or was cancelled
          begun,     \* the peer: the length of its unfinished message
          messages,  \* the peer: the lengths of its finished messages
          pings,     \* the peer: the pings it sent
          frag,      \* self._frag; a byte of message k is k here
          delivered, \* what recv returned, message by message
          down,      \* ws_to_tcp: "frame", "pong", "bye", "drain", "done"
          wsClosed,    \* self._closed
          session    \* bridge_ws_reencrypt: "wait", "close", "over"

upVars   == <<packets, received, splitter, up, failed>>
downVars == <<begun, messages, pings, frag, delivered, down>>
bridgeVars == <<upVars, downVars, out, wsClosed, session>>

(* A client may stop anywhere in these, so that shorter ones are among them. *)
Streams(p) == {s \in [1..MaxPackets -> Transport[p] \cup Garbage[p]] : \A k \in 1..MaxPackets - 1 : s[k] \in Transport[p]}

BridgeBegins == /\ received = 0 /\ up = "read" /\ out = <<>> /\ failed = FALSE
                /\ begun = 0 /\ messages = <<>> /\ pings = 0 /\ frag = <<>> /\ delivered = <<>>
                /\ down = "frame" /\ wsClosed = FALSE /\ session = "wait"

BridgeInit == BridgeBegins /\ \E p \in DOMAIN Transport : splitter = NewSplitter(p) /\ packets \in Streams(p)

Stream == FlattenSeq(packets)
Interval(a, b) == [i \in 1..(b - a) |-> a + i]
Frame(op, body) == [op |-> op, body |-> body]
Data(parts) == [i \in 1..Len(parts) |-> Frame("data", parts[i])]
-----------------------------------------------------------------------------
(* Mutant: what the peer closed is written to nevertheless. *)
SendRegardless(parts, next) == out' = out \o Data(parts) /\ up' = next /\ UNCHANGED failed

(* send, send_batch: all frames are written before the drain; nothing once it is closed. *)
Send(parts, next) == \/ ~wsClosed /\ out' = out \o Data(parts) /\ up' = next /\ UNCHANGED failed
                     \/ wsClosed /\ up' = "done" /\ failed' = TRUE /\ UNCHANGED out

ReadChunk == /\ up = "read"
             /\ \E n \in 1..(Len(Stream) - received) :
                   LET split == Split(splitter, Interval(received, received + n),
                                      SubSeq(Stream, received + 1, received + n))
                   IN /\ received' = received + n /\ splitter' = split.after
                      /\ IF split.parts = <<>> THEN UNCHANGED <<up, out, failed>> ELSE Send(split.parts, "drain")
             /\ UNCHANGED <<packets, downVars, wsClosed, session>>

(* The client ended its stream, wherever in a packet. *)
ReadEnd == /\ up = "read"
           /\ splitter' = Flush(splitter).after
           /\ IF Flush(splitter).parts = <<>> THEN up' = "done" /\ UNCHANGED <<out, failed>>
              ELSE Send(Flush(splitter).parts, "tail")
           /\ UNCHANGED <<packets, received, downVars, wsClosed, session>>

(* drain returned, or the connection was lost. *)
Drained == /\ \/ up = "drain" /\ up' = "read" /\ UNCHANGED failed
              \/ up = "tail" /\ up' = "done" /\ UNCHANGED failed
              \/ up \in {"read", "drain", "tail"} /\ up' = "done" /\ failed' = TRUE
           /\ UNCHANGED <<packets, received, splitter, downVars, out, wsClosed, session>>
-----------------------------------------------------------------------------
Deliver(message) == delivered' = Append(delivered, message) /\ down' = "drain"
TooLarge == down' = "done" /\ UNCHANGED delivered
Sent(n) == [i \in 1..n |-> Len(messages) + 1]

(* Mutant: a last fragment is taken for a message. *)
FragmentIsMessage(n, fin) ==
    CASE n > MaxMessage -> TooLarge /\ UNCHANGED frag
      [] n <= MaxMessage /\ fin -> Deliver(Sent(n)) /\ frag' = <<>>
      [] OTHER -> /\ frag' = frag \o Sent(n)
                  /\ IF Len(frag') > MaxMessage THEN TooLarge ELSE UNCHANGED <<delivered, down>>

(* recv, on a data frame of n bytes: a message of one frame, or one more of its fragments. *)
Assemble(n, fin) ==
    CASE n > MaxMessage -> TooLarge /\ UNCHANGED frag
      [] n <= MaxMessage /\ fin /\ frag = <<>> -> Deliver(Sent(n)) /\ UNCHANGED frag
      [] OTHER -> LET all == frag \o Sent(n)
                  IN CASE Len(all) > MaxMessage -> TooLarge /\ frag' = all
                       [] Len(all) <= MaxMessage /\ fin -> Deliver(all) /\ frag' = <<>>
                       [] OTHER -> frag' = all /\ UNCHANGED <<delivered, down>>

(* The peer's next frame of data; an empty fragment is one too. *)
DataFrame == /\ down = "frame" /\ Len(messages) < MaxMessages
             /\ \E n \in 0..(MaxMessage + 1), fin \in BOOLEAN :
                   /\ begun + n <= MaxMessage + 1
                   /\ Assemble(n, fin)
                   /\ IF fin THEN messages' = Append(messages, begun + n) /\ begun' = 0
                             ELSE begun' = begun + n /\ UNCHANGED messages
             /\ UNCHANGED <<upVars, pings, out, wsClosed, session>>

Ping == /\ down = "frame" /\ pings < MaxPings /\ pings' = pings + 1
        /\ out' = Append(out, Frame("pong", <<pings'>>)) /\ down' = "pong"
        /\ UNCHANGED <<upVars, begun, messages, frag, delivered, wsClosed, session>>

(* The peer closes: the answer is the last frame, and recv returns None. *)
PeerCloses == /\ down = "frame" /\ wsClosed' = TRUE
              /\ out' = Append(out, Frame("close", <<>>)) /\ down' = "bye"
              /\ UNCHANGED <<upVars, begun, messages, pings, frag, delivered, session>>

(* A drain returned, one to the peer whether it failed or not; or the connection was lost. *)
DownDrained == /\ \/ down \in {"pong", "drain"} /\ down' = "frame"
                  \/ down = "bye" /\ down' = "done"
                  \/ down \in {"frame", "drain"} /\ down' = "done"
               /\ UNCHANGED <<upVars, begun, messages, pings, frag, delivered, out, wsClosed, session>>
-----------------------------------------------------------------------------
(* FIRST_COMPLETED: the other direction is cancelled where it waits. *)
CancelOther == /\ session = "wait" /\ (up = "done" \/ down = "done") /\ session' = "close"
               /\ up' = "done" /\ down' = "done" /\ failed' = (failed \/ up # "done")
               /\ UNCHANGED <<packets, received, splitter, begun, messages, pings, frag, delivered, out, wsClosed>>

(* close: nothing when the peer has closed already. *)
CloseBridge == /\ session = "close" /\ session' = "over" /\ wsClosed' = TRUE
               /\ IF wsClosed THEN UNCHANGED out ELSE out' = Append(out, Frame("close", <<>>))
               /\ UNCHANGED <<upVars, downVars>>

BridgeNext == ReadChunk \/ ReadEnd \/ Drained \/ DataFrame \/ Ping \/ PeerCloses \/ DownDrained
              \/ CancelOther \/ CloseBridge

BridgeSpec == BridgeInit /\ [][BridgeNext]_bridgeVars
-----------------------------------------------------------------------------
Bodies == FlattenSeq([i \in 1..Len(out) |-> IF out[i].op = "data" THEN <<out[i].body>> ELSE <<>>])

(* Types; the two buffers of the splitter are the same bytes, encrypted and not. *)
BridgeTypeOK ==
    /\ up \in {"read", "drain", "tail", "done"} /\ down \in {"frame", "pong", "bye", "drain", "done"}
    /\ session \in {"wait", "close", "over"} /\ wsClosed \in BOOLEAN /\ failed \in BOOLEAN
    /\ splitter.plain = [i \in 1..Len(splitter.cipher) |-> Stream[splitter.cipher[i]]]
    /\ pings \in 0..MaxPings
    /\ down # "done" => Len(frag) <= MaxMessage /\ Len(frag) = begun

(* The packets of the client that have arrived as a whole, before anything that is none. *)
Ends(k) == Len(FlattenSeq(SubSeq(packets, 1, k)))
Arrived == Cardinality({k \in 1..Len(packets) : Ends(k) <= received /\ packets[k] \in Transport[splitter.proto]})
Piece(k) == Interval(Ends(k - 1), Ends(k))

(* However the stream was cut on its way, each packet is a frame of its own, sent as soon as
   it is there (bridge.py 51-54 "so each can be sent as a separate WS frame"); what is no
   packet ends the splitting, not the stream. *)
OnePacketPerFrame ==
    ~failed => /\ Len(Bodies) >= Arrived /\ \A k \in 1..Arrived : Bodies[k] = Piece(k)
               /\ up = "read" /\ ~splitter.disabled => Len(Bodies) = Arrived

(* No byte of the client is lost, doubled or overtaken; what it sent before it hung up goes
   out before our close, an unfinished packet too. *)
StreamIsKept ==
    ~failed => /\ FlattenSeq(Bodies) \o splitter.cipher = Interval(0, received)
               /\ up \in {"tail", "done"} => splitter.cipher = <<>>

(* The client gets the peer's messages, whole, in order and once, whatever their fragments
   and the pings between them; none is larger than MAX_MESSAGE_LEN. *)
MessagesAreWhole ==
    /\ \A k \in 1..Len(delivered) :
          k <= Len(messages) /\ messages[k] <= MaxMessage /\ delivered[k] = [i \in 1..messages[k] |-> k]
    /\ down # "done" => Len(delivered) = Len(messages)

(* Our close is the last frame we write, and there is one: neither a frame of the other
   direction, which has not noticed, nor a second close follows. *)
CloseIsLast == \A i \in 1..Len(out) : out[i].op = "close" => i = Len(out)

(* What the bridge writes to either side is what the other side sent. *)
BridgeIsFaithful == OnePacketPerFrame /\ StreamIsKept /\ MessagesAreWhole /\ CloseIsLast
=============================================================================
