----------------------------- MODULE H2Streams -----------------------------
(***************************************************************************)
(* The HTTP/2 connection under a lane (tgproxy/h2_transport.py): requests  *)
(* connect one at a time, take a stream each, upload under flow control    *)
(* and wait for headers and data; a reader task applies what the peer      *)
(* sends.  A coroutine that cannot go on clears an event, looks again and  *)
(* waits, with no await between: whoever changes what it looked at must    *)
(* set that event.  Frames, sizes and the contents of data are left out.   *)
(***************************************************************************)
EXTENDS Naturals, FiniteSets

CONSTANTS Caller,     \* the requests
          NoCaller,
          MaxStreams, \* max_streams
          MaxConnect  \* bound on the connections ever opened

ASSUME StreamsAssumption == MaxStreams \in Nat \ {0} /\ NoCaller \notin Caller

VARIABLES link,     \* self.connection: "none", "up" or "failed" (its error is set)
          links,    \* the connections opened so far
          shut,     \* H2Transport.closed
          opener,   \* the request that holds connect_lock
          settings, \* settings_received
          room,     \* the peer's max_concurrent_streams
          streams,  \* connection.streams
          stage,    \* request -> where it is
          mine,     \* the requests whose connection is self.connection
          asleep,   \* the requests that wait for an event
          credit,   \* the streams that may send: their window is open
          headed,   \* the streams with headers
          data,     \* the streams with chunks
          ended,    \* the streams with ended set
          broken    \* the streams with an error

streamVars == <<link, links, shut, opener, settings, room, streams, stage, mine, asleep,
                credit, headed, data, ended, broken>>
peerVars   == <<credit, headed, data, ended, broken>>
linkVars   == <<link, links, shut, opener, settings, room>>

StreamsInit == /\ link = "none" /\ links = 0 /\ shut = FALSE /\ opener = NoCaller
               /\ settings = FALSE /\ room = MaxStreams
               /\ stage = [r \in Caller |-> "idle"]
               /\ streams = {} /\ mine = {} /\ asleep = {}
               /\ credit = {} /\ headed = {} /\ data = {} /\ ended = {} /\ broken = {}

InStage(set)     == {r \in Caller : stage[r] \in set}
Stage(r, s)      == stage' = [stage EXCEPT ![r] = s]
Dead(r)          == r \notin mine \/ link = "failed"   \* the error of the request's connection
OnLink           == {"reserve", "send"}                \* wait for connection.changed; later ones for stream.changed
Sharing(r)       == {q \in InStage(OnLink) : q \in mine <=> r \in mine}
-----------------------------------------------------------------------------
(* handle_async_request: under the lock, the connection there is, or a new one. *)
Ask(r) == /\ stage[r] = "idle" /\ Stage(r, "lock")
          /\ UNCHANGED <<linkVars, streams, mine, asleep, peerVars>>

Lock(r) == /\ stage[r] = "lock" /\ opener = NoCaller
           /\ \/ shut /\ Stage(r, "done") /\ UNCHANGED <<opener, mine>>
              \/ ~shut /\ link = "up" /\ Stage(r, "reserve") /\ mine' = mine \cup {r} /\ UNCHANGED opener
              \/ /\ ~shut /\ link # "up" /\ links < MaxConnect
                 /\ Stage(r, "connect") /\ opener' = r /\ UNCHANGED mine
           /\ UNCHANGED <<link, links, shut, settings, room, streams, asleep, peerVars>>

Connect(r) == /\ stage[r] = "connect" /\ opener' = NoCaller /\ links' = links + 1
              /\ \/ /\ link' = "up" /\ settings' = FALSE /\ room' = MaxStreams
                    /\ streams' = {} /\ mine' = {r} /\ Stage(r, "reserve")
                 \/ Stage(r, "done") /\ UNCHANGED <<link, settings, room, streams, mine>>
              /\ UNCHANGED <<shut, asleep, peerVars>>

(* Mutant: a stream that is released wakes nobody. *)
ReleaseQuietly(r) ==
    /\ Stage(r, "done") /\ streams' = IF r \in mine THEN streams \ {r} ELSE streams
    /\ mine' = mine \ {r} /\ asleep' = asleep \ {r}
    /\ credit' = credit \ {r} /\ headed' = headed \ {r} /\ data' = data \ {r}
    /\ ended' = ended \ {r} /\ broken' = broken \ {r}

(* The request is over; its stream, if it has one, leaves the connection (release), and
   connection.changed is set. *)
Release(r) == /\ Stage(r, "done") /\ streams' = IF r \in mine THEN streams \ {r} ELSE streams
              /\ mine' = mine \ {r}
              /\ asleep' = (asleep \ {r}) \ (IF stage[r] = "reserve" THEN {} ELSE Sharing(r))
              /\ credit' = credit \ {r} /\ headed' = headed \ {r} /\ data' = data \ {r}
              /\ ended' = ended \ {r} /\ broken' = broken \ {r}

(* Each wait of a request: the error ends it, it goes on, or it falls asleep. *)
GoesOn(r)  == \/ stage[r] = "reserve" /\ settings /\ Cardinality(streams) < (IF room < MaxStreams THEN room ELSE MaxStreams)
              \/ stage[r] = "send" /\ r \in credit
              \/ stage[r] = "headers" /\ r \in headed
              \/ stage[r] = "body" /\ r \in data \cup ended
Errors(r)  == (stage[r] \in OnLink /\ Dead(r)) \/ r \in broken
Waiting(r) == stage[r] \in {"reserve", "send", "headers", "body"}

Raises(r) == /\ Waiting(r) /\ r \notin asleep /\ Errors(r) /\ Release(r) /\ UNCHANGED linkVars

Sleeps(r) == /\ Waiting(r) /\ r \notin asleep /\ ~Errors(r) /\ ~GoesOn(r)
             /\ asleep' = asleep \cup {r}
             /\ UNCHANGED <<linkVars, streams, stage, mine, peerVars>>

Reserve(r) == /\ stage[r] = "reserve" /\ r \notin asleep /\ ~Errors(r) /\ GoesOn(r)
              /\ streams' = streams \cup {r} /\ Stage(r, "send") /\ credit' \in {credit, credit \cup {r}}
              /\ UNCHANGED <<linkVars, mine, asleep, headed, data, ended, broken>>

(* A part of the body that fills the window, or the last one. *)
SendBody(r) == /\ stage[r] = "send" /\ r \notin asleep /\ ~Errors(r) /\ GoesOn(r)
               /\ \/ credit' = credit \ {r} /\ UNCHANGED stage
                  \/ Stage(r, "headers") /\ UNCHANGED credit
               /\ UNCHANGED <<linkVars, streams, mine, asleep, headed, data, ended, broken>>

Headers(r) == /\ stage[r] = "headers" /\ r \notin asleep /\ ~Errors(r) /\ GoesOn(r)
              /\ Stage(r, "body")
              /\ UNCHANGED <<linkVars, streams, mine, asleep, peerVars>>

(* __aiter__: a chunk, or the end. *)
Body(r) == /\ stage[r] = "body" /\ r \notin asleep /\ ~Errors(r) /\ GoesOn(r)
           /\ \/ /\ r \in data /\ data' = data \ {r}
                 /\ UNCHANGED <<streams, stage, mine, asleep, credit, headed, ended, broken>>
              \/ r \notin data /\ Release(r)
           /\ UNCHANGED linkVars

(* Mutant: a request that gives up leaves its stream with the connection. *)
GivesUpLeaving(r) == /\ Waiting(r) /\ Stage(r, "done") /\ asleep' = asleep \ {r}
                     /\ UNCHANGED <<linkVars, streams, mine, peerVars>>

(* A timeout, or the request's task is cancelled, wherever it waits. *)
GivesUp(r) == /\ \/ Waiting(r) /\ Release(r) /\ UNCHANGED linkVars
                 \/ /\ stage[r] \in {"lock", "connect"} /\ Stage(r, "done")
                    /\ opener' = IF opener = r THEN NoCaller ELSE opener
                    /\ UNCHANGED <<link, links, shut, settings, room, streams, mine, asleep, peerVars>>
-----------------------------------------------------------------------------
(* fail: the streams that have not ended get the error, and everybody is woken. *)
FailLink == /\ link = "up" /\ link' = "failed"
            /\ broken' = broken \cup (streams \ ended)
            /\ asleep' = asleep \ (streams \cup {r \in mine : stage[r] \in OnLink})
            /\ UNCHANGED <<links, opener, settings, room, streams, stage, mine, credit, headed, data, ended>>

(* The reader: the end of the connection or GOAWAY, settings, windows, and the events of
   a stream that is still there. *)
Breaks == FailLink /\ UNCHANGED shut

Settings == /\ link = "up" /\ settings' = TRUE /\ room' \in 1..MaxStreams
            /\ asleep' = asleep \ {r \in mine : stage[r] \in OnLink}
            /\ UNCHANGED <<link, links, shut, opener, streams, stage, mine, peerVars>>

Window == /\ link = "up" /\ \E r \in streams \ credit : credit' = credit \cup {r}
          /\ asleep' = asleep \ {q \in mine : stage[q] \in OnLink}
          /\ UNCHANGED <<linkVars, streams, stage, mine, headed, data, ended, broken>>

Arrives(r) == /\ link = "up" /\ r \in streams \ (ended \cup broken)
              /\ \/ r \notin headed /\ headed' = headed \cup {r} /\ UNCHANGED <<data, ended>>
                 \/ r \in headed \ data /\ data' = data \cup {r} /\ UNCHANGED <<headed, ended>>
                 \/ r \in headed /\ ended' = ended \cup {r} /\ UNCHANGED <<headed, data>>
              /\ asleep' = IF stage[r] = "send" THEN asleep ELSE asleep \ {r}
              /\ UNCHANGED <<linkVars, streams, stage, mine, credit, broken>>

ResetStream(r) == /\ link = "up" /\ r \in streams \ broken /\ broken' = broken \cup {r}
                  /\ asleep' = asleep \ ({r} \cup {q \in mine : stage[q] \in OnLink})
                  /\ UNCHANGED <<linkVars, streams, stage, mine, credit, headed, data, ended>>

(* aclose of the transport: no new request, and when nobody connects the connection fails. *)
Shut == /\ ~shut /\ shut' = TRUE
        /\ UNCHANGED <<link, links, opener, settings, room, streams, stage, mine, asleep, peerVars>>
Closes == shut /\ opener = NoCaller /\ FailLink /\ UNCHANGED shut

StreamsNext == \/ Breaks \/ Settings \/ Window \/ Shut \/ Closes
               \/ \E r \in Caller : \/ Ask(r) \/ Lock(r) \/ Connect(r) \/ Reserve(r) \/ SendBody(r)
                                    \/ Headers(r) \/ Body(r) \/ Raises(r) \/ Sleeps(r) \/ GivesUp(r)
                                    \/ Arrives(r) \/ ResetStream(r)

StreamsSpec == StreamsInit /\ [][StreamsNext]_streamVars
-----------------------------------------------------------------------------
StreamsTypeOK == /\ link \in {"none", "up", "failed"} /\ room \in 1..MaxStreams
                 /\ stage \in [Caller -> {"idle", "lock", "connect", "reserve", "send", "headers", "body", "done"}]
                 /\ asleep \subseteq {r \in Caller : Waiting(r)}
                 /\ streams = mine \cap InStage({"send", "headers", "body"})
                 /\ Cardinality(streams) <= MaxStreams
                 /\ opener # NoCaller <=> InStage({"connect"}) # {}

(* Nobody sleeps through what it waits for: not through a stream that became free, a window
   that opened, headers, data or the end, nor through the failure of its stream or of its
   connection (h2_transport.py:100 and 167-183). *)
NoLostWakeup == \A r \in asleep : ~Errors(r) /\ ~GoesOn(r)
=============================================================================
