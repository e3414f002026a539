------------------------------ MODULE TgProxy ------------------------------
(***************************************************************************)
(* The life of the Telegram proxy: the commands of the program's workers   *)
(* (zapret_core.py 1702-1757, zapret_app.pyw 2737-2805), the thread with   *)
(* the event loop, and the server in it (tg_ws_proxy.py 363-553) with its  *)
(* clients and its pool.                                                   *)
(***************************************************************************)
EXTENDS Relay

CONSTANTS AppWorker,  \* the program's background threads that command the proxy
          Nobody

ASSUME TgAssumption == Nobody \notin AppWorker

VARIABLES op,      \* what a worker does: "idle", "start", "stop", "join", "restart", "rejoin"
          tgLock,  \* who holds _tg_lock
          async,   \* _tg_async is set: the loop and its stop event
          told,    \* the stop event is set
          thread,  \* where the proxy's thread is; "none" when it is not alive
          listens, \* the listening socket is alive
          refreshes \* the thread that refreshes the domains goes on

appVars   == <<op, tgLock, async, told>>
tgVars    == <<appVars, thread, listens, refreshes>>
proxyVars == <<tgVars, relayVars, poolVars>>

ProxyInit == /\ op = [w \in AppWorker |-> "idle"] /\ tgLock = Nobody /\ async = FALSE /\ told = FALSE
             /\ thread = "none" /\ listens = FALSE /\ refreshes = FALSE
             /\ RelayInit /\ PoolInit

Running == thread # "none"   \* tg_proxy_running
Now(w, o) == op' = [op EXCEPT ![w] = o]
InLoop == UNCHANGED <<op, tgLock, async, told>>
-----------------------------------------------------------------------------
(* The buttons, the settings that restart a running proxy, the start with the program. *)
Command(w) == /\ op[w] = "idle"
              /\ \/ \E o \in {"start", "stop"} : Now(w, o)
                 \/ Running /\ Now(w, "restart")
              /\ UNCHANGED <<tgLock, async, told, thread, listens, refreshes, relayVars, poolVars>>

(* Mutant: the thread itself publishes its loop, once it runs. *)
LaunchLate == /\ async' = FALSE /\ told' = FALSE /\ thread' = "boot"
              /\ UNCHANGED <<listens, refreshes>>

(* The loop and its event are there before the thread is. *)
Launch == /\ async' = TRUE /\ told' = FALSE /\ thread' = "boot"
          /\ UNCHANGED <<listens, refreshes>>

TgStart(w) == /\ op[w] = "start" /\ tgLock = Nobody /\ Now(w, "idle")
              /\ \/ Running /\ UNCHANGED <<async, told, thread, listens, refreshes>>
                 \/ ~Running /\ Launch
              /\ UNCHANGED <<tgLock, relayVars, poolVars>>

TgStop(w) == /\ op[w] \in {"stop", "restart"} /\ tgLock = Nobody
             /\ tgLock' = w /\ told' = (told \/ async)
             /\ Now(w, IF op[w] = "stop" THEN "join" ELSE "rejoin")
             /\ UNCHANGED <<async, thread, listens, refreshes, relayVars, poolVars>>

(* join(5): the thread is dead, and a restart goes on; or it is not, and the error
   ends the restart too. *)
TgJoin(w) == /\ op[w] \in {"join", "rejoin"} /\ tgLock' = Nobody
             /\ \/ ~Running /\ Now(w, IF op[w] = "join" THEN "idle" ELSE "start")
                \/ Running /\ Now(w, "idle")
             /\ UNCHANGED <<async, told, thread, listens, refreshes, relayVars, poolVars>>
-----------------------------------------------------------------------------
(* _run begins afresh and listens, or the port is taken. *)
Boot == /\ thread = "boot" /\ tcpBusy' = FALSE /\ tcpWait' = FALSE /\ refreshes' = TRUE
        /\ useCf' \in BOOLEAN
        /\ \/ listens' = TRUE /\ thread' = "serve" /\ Warmup
           \/ thread' = "end" /\ UNCHANGED <<listens, poolVars>>
        /\ UNCHANGED <<place, holds, dropped>> /\ InLoop

Connects == /\ thread \in {"serve", "relisten"} /\ listens
            /\ \E c \in Client : Accept(c)
            /\ UNCHANGED tgVars

(* The stop event; or the listener's watchdog, which listens again or gives up. *)
Serve == /\ \/ /\ thread = "serve" /\ told /\ thread' = "closing" /\ listens' = FALSE
            \/ /\ thread = "serve" /\ ~listens /\ ~told /\ thread' = "relisten" /\ UNCHANGED listens
            \/ /\ thread = "relisten"
               /\ \/ thread' = "serve" /\ listens' = TRUE
                  \/ thread' = "closing" /\ UNCHANGED listens
         /\ InLoop /\ UNCHANGED <<refreshes, relayVars, poolVars>>

ListenerDies == /\ thread = "serve" /\ listens /\ listens' = FALSE
                /\ InLoop /\ UNCHANGED <<thread, refreshes, relayVars, poolVars>>

(* Mutant: the pools are closed while clients are still served. *)
TgCloseEarly == /\ thread = "closing"
                /\ Reset /\ thread' = "pools" /\ UNCHANGED relayVars
                /\ InLoop /\ UNCHANGED <<listens, refreshes>>

(* finally: the clients are cancelled and waited for, then the pool is closed. *)
TgClose == /\ thread = "closing"
           /\ \/ \E c \in Client : Cancelled(c) /\ UNCHANGED thread
              \/ /\ \A c \in Client : ~Serving(c)
                 /\ Reset /\ thread' = "pools" /\ UNCHANGED relayVars
           /\ InLoop /\ UNCHANGED <<listens, refreshes>>

PoolsClosed == /\ thread = "pools" /\ refill = "none" /\ thread' = "end"
               /\ InLoop /\ UNCHANGED <<listens, refreshes, relayVars, poolVars>>

(* runner's finally, then the thread is over. *)
End == /\ \/ thread = "end" /\ thread' = "last" /\ async' = FALSE /\ refreshes' = FALSE
          \/ thread = "last" /\ thread' = "none" /\ UNCHANGED <<async, refreshes>>
       /\ UNCHANGED <<op, tgLock, told, listens, relayVars, poolVars>>

Inside == thread \in {"serve", "relisten", "closing", "pools"}

ProxyNext == \/ \E w \in AppWorker : Command(w) \/ TgStart(w) \/ TgStop(w) \/ TgJoin(w)
             \/ Boot \/ Connects \/ Serve \/ ListenerDies \/ TgClose \/ PoolsClosed \/ End
             \/ Inside /\ RelayStep /\ UNCHANGED tgVars

ProxySpec == ProxyInit /\ [][ProxyNext]_proxyVars
-----------------------------------------------------------------------------
(* Types; and the lock is held by the worker that waits for the thread. *)
ProxyTypeOK == /\ PoolTypeOK /\ RelayTypeOK
               /\ op \in [AppWorker -> {"idle", "start", "stop", "join", "restart", "rejoin"}]
               /\ tgLock \in AppWorker \cup {Nobody}
               /\ thread \in {"none", "boot", "serve", "relisten", "closing", "pools", "end", "last"}
               /\ \A w \in AppWorker : op[w] \in {"join", "rejoin"} <=> tgLock = w

(* Whoever waits for the proxy's end has been heard: the event is set, or the server is
   on its way out anyway, however early the stop came (zapret_core.py:1724 "остановка
   возможна сразу после запуска потока"). *)
StopIsHeard == tgLock # Nobody => told \/ thread \in {"closing", "pools", "end", "last", "none"}

(* The proxy that is over leaves nothing: no listener, no client, no socket that is
   connecting, ready or in use, and nobody refreshes the domains. *)
OverMeansOver == thread \in {"end", "last", "none"} =>
                    /\ ~listens /\ \A c \in Client : ~Serving(c)
                    /\ \A s \in Socket \ dropped : where[s] \in {"unused", "closing"}
                    /\ thread # "end" => ~refreshes /\ ~async
=============================================================================
