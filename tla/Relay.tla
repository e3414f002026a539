------------------------------- MODULE Relay -------------------------------
(***************************************************************************)
(* One Telegram connection after another through the proxy                 *)
(* (tg_ws_proxy.py 248-355, bridge.py 148-503): the handshake, a socket of *)
(* the pool, or the fallback routes in their order, and the bridge.        *)
(* Encryption and framing are left out, and so are the Cloudflare workers, *)
(* the PROXY header and the masking domain, which the program never        *)
(* configures.                                                             *)
(***************************************************************************)
EXTENDS WsPool

CONSTANTS Client, NoSocket

ASSUME RelayAssumption == NoSocket \notin Socket

VARIABLES place,   \* where _handle_client is
          holds,   \* the socket of the pool it took
          tcpBusy, \* _tcp_connecting holds the address
          tcpWait, \* _tcp_retry_after is in the future
          useCf,   \* proxy_config.fallback_cfproxy
          dropped  \* history: sockets a client let go of without closing them

relayVars == <<place, holds, tcpBusy, tcpWait, useCf, dropped>>

RelayInit == /\ place = [c \in Client |-> "none"]
             /\ holds = [c \in Client |-> NoSocket]
             /\ tcpBusy = FALSE /\ tcpWait = FALSE /\ useCf = TRUE /\ dropped = {}

GoOn(c, p)    == place' = [place EXCEPT ![c] = p]
Serving(c)    == place[c] # "none"

Accept(c) == /\ place[c] = "none" /\ GoOn(c, "init")
             /\ UNCHANGED <<holds, tcpBusy, tcpWait, useCf, dropped, poolVars>>

(* The client went away, did not know the secret (it is read until it leaves: it stays here), or
   asks for a data centre: one with a pool, whose socket it may get, or another. *)
FirstRoute(media) == IF ~useCf THEN "tcp" ELSE IF media THEN "h2open" ELSE "cf"

Init64(c) ==
    /\ place[c] = "init"
    /\ \/ GoOn(c, "none") /\ UNCHANGED <<holds, poolVars>>
       \/ /\ Get /\ Got # {}
          /\ GoOn(c, "greet") /\ holds' = [holds EXCEPT ![c] = CHOOSE s \in Got : TRUE]
       \/ \E media \in BOOLEAN :
             /\ (Get /\ Got = {}) \/ UNCHANGED poolVars
             /\ GoOn(c, FirstRoute(media)) /\ UNCHANGED holds
    /\ UNCHANGED <<tcpBusy, tcpWait, useCf, dropped>>

(* ws.send(relay_init).  When it fails the handler ends and closes its client, but
   not the socket. *)
LetsGo(c) == /\ GoOn(c, "none") /\ holds' = [holds EXCEPT ![c] = NoSocket]
             /\ dropped' = dropped \cup ({holds[c]} \ {NoSocket})

Greet(c) == /\ place[c] = "greet"
            /\ \/ GoOn(c, "bridge") /\ UNCHANGED <<holds, dropped>>
               \/ LetsGo(c)
            /\ UNCHANGED <<tcpBusy, tcpWait, useCf, poolVars>>

(* do_fallback: HTTP/2 for media, else the Cloudflare domains one by one, else plain TCP. *)
H2Open(c) == /\ place[c] = "h2open"
             /\ GoOn(c, "bridge") \/ GoOn(c, "cf")
             /\ UNCHANGED <<holds, tcpBusy, tcpWait, useCf, dropped, poolVars>>

(* A domain answers, or none does; a test data centre has no address for TCP. *)
CfRoute(c) == /\ place[c] = "cf"
              /\ GoOn(c, "greet") \/ GoOn(c, "tcp") \/ GoOn(c, "none")
              /\ UNCHANGED <<holds, tcpBusy, tcpWait, useCf, dropped, poolVars>>

(* One attempt at a time for an address, and none during its backoff. *)
TcpBegin(c) == /\ place[c] = "tcp"
               /\ \/ (tcpBusy \/ tcpWait) /\ GoOn(c, "none") /\ UNCHANGED tcpBusy
                  \/ ~tcpBusy /\ ~tcpWait /\ GoOn(c, "connect") /\ tcpBusy' = TRUE
               /\ UNCHANGED <<holds, tcpWait, useCf, dropped, poolVars>>

TcpEnd(c) == /\ place[c] = "connect" /\ tcpBusy' = FALSE
             /\ \/ GoOn(c, "pipe") /\ tcpWait' = FALSE
                \/ GoOn(c, "none") /\ tcpWait' = TRUE
             /\ UNCHANGED <<holds, useCf, dropped, poolVars>>

(* finally: the socket and the client are closed. *)
HangUp(c) == /\ GoOn(c, "none") /\ holds' = [holds EXCEPT ![c] = NoSocket]
             /\ where' = Move({holds[c]}, "unused")

(* ... but a peer that closed its WebSocket is left to close the connection too (WsBridge). *)
BridgeCloses(c) == \/ HangUp(c) /\ UNCHANGED dropped
                   \/ LetsGo(c) /\ UNCHANGED where

(* One of the two directions ended; the other one is cancelled. *)
RelayEnds(c) == /\ place[c] = "bridge" /\ BridgeCloses(c)
                /\ UNCHANGED <<tcpBusy, tcpWait, useCf, bucket, refill, rotating, backoff, connected>>

(* The peer ends a connection that nobody closed here. *)
PeerEnds(s) == /\ s \in dropped /\ dropped' = dropped \ {s} /\ where' = Move({s}, "unused")
               /\ UNCHANGED <<place, holds, tcpBusy, tcpWait, useCf, bucket, refill, rotating, backoff, connected>>

(* _bridge_tcp_reencrypt: either direction ends, the other is cancelled, and both ends are
   closed; so is the remote one by _tcp_fallback. *)
PipeEnds(c) == /\ place[c] = "pipe" /\ GoOn(c, "none")
               /\ UNCHANGED <<holds, tcpBusy, tcpWait, useCf, dropped, poolVars>>

(* Mutant: a cancelled attempt is not taken out of _tcp_connecting. *)
CancelledBusy(c) ==
    /\ Serving(c)
    /\ IF place[c] = "bridge" THEN BridgeCloses(c) /\ UNCHANGED <<bucket, refill, rotating, backoff, connected>>
       ELSE LetsGo(c) /\ UNCHANGED poolVars
    /\ UNCHANGED <<tcpBusy, tcpWait, useCf>>

(* The server cancels the handler: it ends the way it would on an error. *)
Cancelled(c) ==
    /\ Serving(c)
    /\ \/ /\ place[c] = "bridge" /\ BridgeCloses(c)
          /\ UNCHANGED <<tcpBusy, bucket, refill, rotating, backoff, connected>>
       \/ place[c] = "greet" /\ LetsGo(c) /\ UNCHANGED <<tcpBusy, poolVars>>
       \/ place[c] \notin {"bridge", "greet"} /\ GoOn(c, "none")
          /\ tcpBusy' = (tcpBusy /\ place[c] # "connect")
          /\ UNCHANGED <<holds, dropped, poolVars>>
    /\ UNCHANGED <<tcpWait, useCf>>

TcpElapses == /\ tcpWait /\ tcpWait' = FALSE
              /\ UNCHANGED <<place, holds, tcpBusy, useCf, dropped, poolVars>>

RelayStep == \/ PoolStep /\ UNCHANGED relayVars
             \/ TcpElapses
             \/ \E s \in Socket : PeerEnds(s)
             \/ \E c \in Client : \/ Init64(c) \/ Greet(c) \/ H2Open(c) \/ CfRoute(c)
                                  \/ TcpBegin(c) \/ TcpEnd(c) \/ RelayEnds(c) \/ PipeEnds(c)
-----------------------------------------------------------------------------
(* Types; and the address is taken for exactly as long as one client connects to it, however
   its attempt ends (bridge.py 285-324). *)
RelayTypeOK == /\ place \in [Client -> {"none", "init", "greet", "h2open", "cf", "tcp", "connect", "bridge", "pipe"}]
               /\ holds \in [Client -> Socket \cup {NoSocket}] /\ dropped \subseteq Socket
               /\ tcpBusy <=> \E c \in Client : place[c] = "connect"
               /\ Cardinality({c \in Client : place[c] = "connect"}) <= 1

(* A connected socket is in the pool, with the refill that made it, or with exactly one
   client, and with none of them after it was closed; the exception are the sockets whose
   first message failed (tg_ws_proxy.py:328) and those that the peer closed. *)
SocketsAreOwned ==
    /\ \A s \in Socket :
          /\ where[s] \in {"connecting", "made"} => refill \in {"running", "unwinding"}
          /\ where[s] \in {"idle", "stale"} <=> \E i \in 1..Len(bucket) : bucket[i] = s
          /\ where[s] = "client" => s \in dropped \/ \E c \in Client : holds[c] = s
    /\ \A c \in Client : holds[c] # NoSocket =>
          where[holds[c]] = "client" /\ \A d \in Client \ {c} : holds[d] # holds[c]

(* The sockets of the proxy are accounted for, and those of the pool are within pool_size. *)
SocketsAreAccounted == PoolIsBounded /\ SocketsAreOwned
=============================================================================
