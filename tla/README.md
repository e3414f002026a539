# A TLA+ verification of Zapret-GUI

Zapret-GUI is a Windows program (`src/zapret_app.pyw`, `src/zapret_core.py`, `src/zapret_runtime.py`) that runs the
DPI bypass `winws.exe`, as a child process or as the Windows service `zapret`, watches it, searches for a strategy
that works, and carries a Telegram proxy (`src/tgproxy/`). The GUI runs on one thread; every slow operation runs on a
thread of its own, and what keeps those threads apart is an object of 57 lines, `RuntimeController`.

The specifications here are translated from that source. TLC checks them on small instances, TLAPS proves the
theorems listed below for every value of the constants.

Contents: 1 Inventory - 2 Modules and code - 3 Runs, bounds, fairness - 4 Proofs - 5 Findings and known divergences -
6 What is not modelled - 7 Plan

## 1. Inventory

| component | state it keeps | operations | what makes it correct |
|---|---|---|---|
| Runtime controller, `zapret_runtime.py` | `token`, `closed`, `desired`, `busy`, the lock, `trial` | `request`, `valid`, `check`, `transition`, `set_desired`, `wait`, `close` | one thread acts at a time; a superseded one never acts after a newer one; sleepers are woken; nobody acts after `close` |
| Bypass control, `zapret_app.pyw` | `proc`, `active_args`, `active_preset_name`, the flags `_start_busy`, `_stop_busy`, `auto_running`, `auto_cancel`, `_auto_autoapply`, `_closing`, ... | start, stop, stop all, install and remove the service, restart, switch, search, fix, update lists, quit, update, resume | the last command decides; no two engines; no lost process; a search gives back what it took; an exit leaves what was chosen |
| Processes and the service, `zapret_core.py:891-1073` | `winws.exe` processes, the service and its command line | spawn, stop, `sc create/config/start/stop/delete` | each call succeeds or reports that it did not |
| Health check, `zapret_app.pyw:2411-2478` | sequence number, busy flag, `health_state` | start, done, invalidate | a late answer never overwrites a newer state |
| Watchdog and recovery, `zapret_app.pyw:1967-2157` | failure counter, `_recovery_busy`, `_recovery_failed`, `_restart_exhausted` | count, restart with delays 5/15/45, switch, roll back | never acts for a stopped bypass; never loops; returns to the original strategy |
| Search algorithm, `zapret_search.py`, `zapret_measurements.py` | results of two phases | trial, rank, cancel | the best is the best of the complete passes; a cancelled search decides nothing |
| Settings store, `zapret_core.py:700-890, 1155-1200` | config, presets, lists on disk | atomic write, update under a lock, import and update of the lists as transactions | old or new, never a mixture; no lost key; keys that other parts still need survive |
| DNS over HTTPS, `zapret_core.py:1840-2050` | adapters' servers, the snapshot | enable, disable, roll back | the original servers are never lost |
| Telegram proxy lifecycle, `zapret_core.py:1701-1760`, `zapret_app.pyw:2737-2795`, `tg_ws_proxy.py` | thread, stop event, listener, clients | start, stop, restart, serve, listen again | one server at a time; a stop is heard; what is over leaves nothing |
| Proxy connections, `tgproxy/pool.py`, `bridge.py`, `raw_websocket.py`, `balancer.py` | sockets, refills, rotations, backoff; a client's route; the splitter's buffers, fragments | get, refill, rotate, reset; handshake, fallbacks, bridge; split, send, recv, close | within bounds; every socket has one owner; one TCP attempt per address at a time; packets are frames, messages whole, nothing lost |
| HTTP/2 transport, `tgproxy/cf_h2.py`, `h2_transport.py` | lanes, channels, requests, histories; streams and their waits | open, send, replay, rotate, close; connect, reserve, release | counters return; repetitions are bounded; no waiter is forgotten |
| Wire formats, `tgproxy/fake_tls.py`, `_aes.py`, `utils.py`, ... | none | encode, decode | bytes |
| Self update, `zapret_core.py:1398-1524` | downloaded files | verify, stage, replace | old or new program |
| Pure rules, `zapret_core.py` | none | `prioritize_presets`, `select_candidates`, `result_is_better`, `normalize_port_ranges`, `_version_tuple` | agree with their definition |
| Autostart, diagnostics, Defender, runtime unpacking | none | one-shot OS calls | - |
| Pages, tray, log | widgets | - | - |

**How they interact.** A click is a handler on the UI thread. The handler checks flags, asks the controller for a token
(`runtime.request`), sets its flags and starts a worker with the token. The worker enters `runtime.transition(token)`:
it waits for the lock, is refused if its token is stale, and otherwise does its OS calls, testing the token between
them (`runtime.check`). Workers report to the UI thread by posted callbacks. The watchdog, the timers and the tray use
the same paths. The config file carries what must survive a crash: `strategy`, `svc_stopped_for_search`,
`resume_after_update`, and the DNS snapshot. The proxy has a thread and an event loop of its own: workers of the program
start and stop it under `_tg_lock`, and inside the loop the tasks of clients, pools and lanes interleave at their awaits.

**What is hard.** Interleaving of clicks, workers, timers and dying processes between any two OS calls; calls that fail
half way; what is read before the lock and used after it; code that re-takes the lock in a `finally`; an exit that has
to wait for a search that has to put things back; a crash while the service is stopped, or between two adapters or two
files; a recovery that sleeps while the user decides otherwise; results that arrive after a newer command; tasks that
are cancelled between taking a resource and handing it on; shared events that are cleared by one waiter under another. `PROJECT.json` lists these
hazards at their lines, with the properties that cover them.

## 2. Modules and code

| module | what it is |
|---|---|
| `LatestIntent` | the abstract promise of the controller: only the latest intent is admitted, one at a time, none after shutting |
| `RuntimeController` | `zapret_runtime.py`, one action per method (two for `close`, which is two statements); `ImplementsLatestIntent` is its refinement |
| `WinwsHost` | processes, service and other programs' winws; every operation has a success form and, when its kind is in `Faults`, a failure form |
| `BypassControl` | the handlers and workers of `zapret_app.pyw`, composing the two above; `FollowsProtocol` says that it uses the controller only by the controller's own actions |
| `Recovery` | the watchdog, its restarts and its walk over the strategies, and the health check, on an instance of `RuntimeController` |
| `AtomicStore` | the abstract promise of the settings: a field changes alone and at once, files are replaced whole |
| `SettingsStore` | threads, the import, the update of the lists and crashes; `StoreIsAtomic` is its refinement of `AtomicStore` |
| `Doh` | enabling and disabling encrypted DNS, adapter by adapter |
| `SearchPlan` | what a search measures, shows and saves |
| `H2Lane` | one lane of `cf_h2.py` with its channels, requests, histories and replays |
| `H2Streams` | the HTTP/2 connection under a lane: its lock, streams, waits and end |
| `WsPool`, `Relay`, `TgProxy` | the pool of sockets; the clients on top of it; the server and the program's commands on top of both |
| `MsgSplitter`, `WsBridge` | the splitter as operators on its buffers; one bridged connection, frame by frame |
| `MCRuntimeController`, `MCBypassControl`, `MCRecovery`, `MCServices`, `MCProxy` | instances for TLC |
| `Listing` | `sorted` and the filtering of lists, by positions; `SearchPlan`, `Recovery`, `H2Lane` and `WsPool` rest on it |
| `RuntimeController_proofs`, `BypassControl_proofs`, `Services_proofs`, `MCServices_proofs`, `Recovery_proofs`, `TgProxy_proofs`, `H2_proofs` | the theorems about those modules; `Services_proofs` is about `SettingsStore`, `SearchPlan` and `WsBridge`, `MCServices_proofs` about `Doh` and about all of `MCServices` |
| `Listing_proofs` | the lemmas on counting and ranking that the others cite |

### RuntimeController

A token is a `threading.Event` compared with `is`; it is a number here, `signalled` holds the numbers whose `set()`
was called. `at[w]` is where a thread is in the protocol (`armed`: has a token; `inside`: in `transition`; `locked`
and `admitted`: in a bare `with runtime.lock` before and after `valid`; `closing`: between the statements of
`close`). `valid` reads three fields without a lock; since a token is signalled before it is replaced, and nothing is
ever undone, its answer True was right at the moment `is_set()` was read, and one test stands for the reads.
`request` is one action because `_state_lock` makes it one.

### BypassControl

`job[w]` is what worker `w` does: the operation, the next step `pc`, and the locals the code keeps. A step is one OS
call, one `runtime.check`, one entry to or exit from the lock, or one posted callback, because that is where other
threads and the world can come in between. `check` is a step of its own whose continuation is `k`. The handlers are
`Start ... QuitForUpdate`; `Begin` puts the worker they start into `enter`, `download` or `begin`.

| code | actions |
|---|---|
| `on_start` | `Start`, then `Enter StartTest (Raise) Claim Spawn Persist` |
| `on_stop`, `on_stop_all_winws` | `Stop`, then `Enter StopService StopLocal` |
| `on_install_service`, `install_service` | `Install`, then `Enter HaltLocal SvcOff SvcConfig SvcOn InstallLeave InstallEpilogue` |
| `on_remove_service` | `Remove`, then `Enter RemoveService` |
| `_watchdog_restart` from `on_diag_restart`, `_on_games_excl_toggle`, `on_sites_save` | `DiagRestart`, or `Toggle` and `TakeToken`, then `Enter Decide HaltLocal Spawn`, or `SvcOff SvcOn` |
| `on_update_lists` | `Lists`, `ListsDone`, then as a restart |
| `on_apply_best`, `on_restore_last_working`, `_apply_found`, `_switch_to` | `RestoreLast` or `SearchDone`, then `Enter Decide HaltLocal Spawn Persist`, or `SvcOff SvcConfig SvcOn Persist` |
| `on_auto_start`, `_auto_worker`, `_auto_done` | `Search`, `SimpleFix`, `SearchStop`, `SearchBegin ... SearchDone` |
| `_real_quit`, `_quit_for_update` | `Quit`, `QuitForUpdate`, `QuitClose QuitSignal QuitJoin QuitLock QuitStop Exit` |
| `_startup_service_restore`, `_resume_after_update` | `StartupRestore` then `SvcOn Unmark`; `StartupResume` |
| `refresh_status` | `AdoptService` |
| process death, other programs, power loss | `Die`, `Foreign`, `Crash`, and `Boot` for the next instance |

`asked`, `failed` and `silent` are history variables: the last command (a strategy, `"stop"`, or none), whether an error
was shown to the user since, and whether an operation with the newest token failed since without a word. `Errs` is the
end of an operation that failed, and it tells the two apart: the handlers of the workers log what they catch (`Reports`),
but `_bg` (482) catches nothing, so a failed restart, or a failed switch of "last working strategy" and "apply best",
reaches nobody (`Unheard`, `Vanishes`); only the search's own switch (`_apply_found`, marked by `complete`) has a handler.
A property that speaks of what the user gets is relieved when an error was *shown*. `RunIsHonoured` says what is left
after a silent failure: the strategy does not run, but the bypass is still wanted, and the watchdog restarts what is wanted.

Handlers are atomic. Four of them open a modal dialog between their guards and their effect (`on_stop_all_winws`,
`on_install_service`, `on_sites_save`, the exit dialog); dialogs are answered at once here, so a flag that changed
while the dialog was open is not considered. The autostart and the tray reach `on_start` and are not separate actions.

### Recovery

Two threads use the controller: the watchdog's (`Dog`) and the worker of the user's command (`User`). The watchdog's
place is `pc`.

| code | actions |
|---|---|
| `_watchdog_loop` | `Begin Continue Forget Sleep LookNetwork LookMoved Managed Probe Probed` |
| `_recover`, `_recover_impl` | `Recover Impl Pick Delay Measure Commit Blamed Finally Over Finish` |
| `_switch_to`, `_watchdog_restart` | `Enter Halt Spawn Up CutShort Settle Verify LeaveWith` |
| `on_start`, `on_stop` and their workers | `UserStart StartServed StartRefused`, `UserStop StopServed` |
| `on_health_check`, `_invalidate_health`, `_finish_health` | `Check Invalidate FinishHealth` (`Shown`) |
| a process dies, the network changes | `Die NetChange` |

The user has one command at a time here: commands against each other are `BypassControl`'s. Closing is its too.
`fruitless` (restarts in vain in a row under one token) and `overtaken` (a user's start was served under the token a
recovery holds) are history. A walk in vain ends where `Pick` finds no candidate left; the other ends, a commit, a lost
network or a rollback that failed, pass through the places "over" and "raised". `CommitsOrRollsBack` looks at all of them:
`Original`, the strategy in use, is the one of the start wherever a candidate is picked or missing.

### SettingsStore and Doh

`SettingsStore` lets threads do `update_config` (`Load`, `Save`) while a transaction (`ImportBegin` or `UpdateLists`, then
`Copy ReplaceFiles Undo`) replaces several files, each step of which may fail, and the program may die (`StoreCrash`). A
file's content is a set of fields for `config.json` and the number of the transaction for the others. The three lists
are one file, and a file is replaced in one step, which is what `os.replace` gives.

`Doh` has one worker, as `_doh_lock` makes it, and one `update_config` per step, which `StoreIsAtomic` justifies. An
adapter's servers are a provider's or its `Original` ones; `Apply` may skip an absent adapter, or fail with or without
effect. `lost` is history: adapters whose entry was given up while they were away, which the program tells the user.

### SearchPlan

A measurement is a rank; from `FullRank` on every target was reached. `Interrupt` is every reason why
`_search_cancelled` answers True; it may come at any step up to the handler that shows the results. `world` is what
`recovery_context` sees, one of `Conditions`, and every result carries the world it was measured in (history). The code compares
the conditions at the start and at the end only (2985, 3030-3032), so they may change and change back; `returned` is history
of just that, and then a search may save results of two worlds (section 5).

### H2Lane and H2Streams

`H2Lane` is one lane: `life[c]` is where a channel is (`run`, `end`, `closing`, `gone`), `upload[c]` where its sender is (it
waits for room in the channel, then in the lane), `history[c]` the packets that could be repeated, `recover[c]` where its
recovery task is, and `req[r]` a request with the channel, packet and attempt it belongs to. Time is two kinds of
flags: a request may grow old (`Ages`), and a lane that failed rests (`cool`). Byte limits are counts. Which of several
packets is repeated first is left open. The `Condition`s are never waited for while they are held (`wait_for` of
`utils.py:155-173` runs in the same task), so `_release` is one step.

`H2Streams` is `h2_transport.py`: callers queue for the connect lock, reserve a stream under the peer's limit, send, and
wait for headers and data. A waiter clears the event, looks, and sleeps (`Sleeps`); the model keeps who is asleep, and
a step that sets the event wakes them all. Several connections may follow each other; streams of the failed one
end with its error.

### WsPool, Relay, TgProxy

A socket's `where` goes from `connecting` through `made`, `idle` or `stale` to `client`, `closing` and back to `unused`;
`bucket` is the pool of one data centre in its order. `Relay` adds clients: `place[c]` is where `_handle_client` is on its
way through the routes of `do_fallback`, `tcpBusy` and `tcpWait` are the backoff of the one TCP address. `dropped` is history:
sockets a handler let go of without closing them (section 5), until the peer ends the connection (`PeerEnds`). `TgProxy` adds the thread (`boot`, `serve`, `relisten`,
`closing`, `pools`, `end`, `last`), the stop event and the commands of the program (`op`). Reading the handshake is one
step: a client that does not know the secret is read until it leaves, so it stays in that place until then. The
Cloudflare workers, the PROXY header and the masking domain are never configured by the program and are left out.

### MsgSplitter, WsBridge

What `Relay` calls "bridge" in one word, `WsBridge` takes apart. The client's stream is a sequence of packets, which a
TCP read cuts anywhere (`ReadChunk`); `Split` keeps the plain and the encrypted buffer of `MsgSplitter` and finds the ends
of the packets by the bytes of their length fields. Encryption keeps the length and the order, so an encrypted byte is
its place in the stream. The peer's frames are data with or without the last mark, a ping or a close (`DataFrame Ping
PeerCloses`); `Assemble` is `recv` with its limits. `up` and `down` are where the two tasks wait; they write to one
connection, each write without an await, and `wsClosed` is what they share. The peer's messages and the client's packets
are kept as they were made, so that the properties compare what comes out with what went in. `PacketAssumption` says what
a packet is: bytes as many as its length field says; what is no packet begins with a length field of zero. It excludes no
client: `_next_packet_len` reads any stream of bytes as whole packets, then the beginning of one more, or a zero length field
with anything after it, and a client may stop anywhere in a packet.

## 3. Runs, bounds, fairness

| run | instance | what it shows |
|---|---|---|
| `controller` | 3 threads, 2 requests | mutual exclusion, superseding, waking, closing, the newest is served, refinement of `LatestIntent` |
| `commands` | 3 workers, 3 requests, 2 strategies; start, stop, stop all, install, switch; other programs' winws come and go; stopping, spawning and the service may fail | never two engines; the last run command is the one that runs, or its failure was shown, or the bypass is still wanted; the program follows the controller's protocol |
| `restarts` | 3 workers, 3 requests, 1 strategy; adds restarts, removal and dying processes | no process is lost; a stop is final |
| `search` | 3 workers, 3 requests; search, start, stop, both exits, update, crash and one more start of the program | a trial is alone; what a search stopped is put back or remembered; an exit stops or keeps what was chosen |
| `live` | 2 workers, 2 requests; search, fix, cancel, lists, stop, quit; failing stops and lost networks | every operation ends; the program exits when told to |
| `orphan`, `lost_stop`, `lost_bypass` | 2 workers | three counterexamples, section 5 |
| `recovery` | 3 strategies, 1 service, 2 requests, 2 events (deaths, network changes); started by hand or as the service | a stop is final; a walk commits, or goes back after every candidate; being offline blames nobody; at most three restarts in vain; no late health answer |
| `recovery_live` | 2 strategies, 2 services, 2 requests, 2 events | a wanted bypass that died is tried again, or the retries are used up, or the user was heard |
| `services` | `SettingsStore`: 2 writers, 2 fields, 2 transactions. `Doh`: 2 adapters, 2 providers, 3 mishaps. `H2Lane`: 2 channels, 3 requests, 2 packets. `H2Streams`: 3 callers, 1 stream, 2 connections. `SearchPlan`: 4 strategies, 2 conditions that change at any time. `WsBridge`: both transports, 2 packets, 2 messages of at most 2 bytes, 1 ping | the store is atomic and torn transactions can be repaired; DNS can be put back; the lane's counters, the number of replays, and none of a packet whose answer arrives; no lost wake-up; a search is all or nothing; packets are frames however the stream is cut, messages are whole, a close is last |
| `proxy` | 3 sockets, a pool of 2, 2 clients, 1 worker that commands | a stop is heard, what is over leaves nothing, every socket has one owner |

Bounds: `MaxToken` (requests per life of the program), `Worker`, `Pid` (processes of the GUI alive at a time),
`MaxTrials` (strategies per search), `MaxBoots`. Three workers and three requests give a worker in the lock, one
waiting with a stale token and one waiting with the newest, which are all the roles the controller distinguishes, and a
third command overlapping two. Three process identities are one for `proc`, one for `trial` and one that could be
lost; `OneEngine` and `NoOrphan` look at all of them. One trial per search makes a search that was cut before, in and
after its trial; further trials repeat the same steps. Two strategies are needed only where properties compare them.
`Symmetry` permutes the workers, which no action or property tells apart; it is not used with liveness.
`CHECK_DEADLOCK FALSE` because the runs are bounded in requests and because the program does stop.

The runs choose `Ops` by question: an operation that refutes a property by a known divergence (section 5) is not in
the run that checks it, and that is what the run's claim is limited to. `RunIsHonoured` and `OneEngine` are about
commands alone; `NoOrphan` and `StopIsHonoured` about all operations without a search and a list update;
`SearchRestores` about a search that overlaps start, stop and exits. In the `search` run OS calls do not fail.

The six models of `services` share no variable. `MCServices` chooses one of them at the start and lets the others
rest, so that the run explores the sum of their states and not the product; since no part reads another's state, a
behaviour of all of them together projects to these. Two packets and a limit of one replay with two attempts make a
packet wait behind another; three requests exceed the room of a channel (2) and of the lane (2), so that rotation
happens; one stream and three callers queue at both levels. Four strategies are one more than a fast search needs; a result is
full or it is not (two ranks); two conditions are enough to differ and to be equal again, and the search begins with what
an earlier one saved. Two
transactions let a second one meet what a torn first one left. Three mishaps are a failure, a failure in its
rollback, and a crash or an absent adapter. In `proxy`, one worker is enough, as `_tg_lock` serialises them, and a
restart is a stop and a start that another command cannot come between; three sockets against a pool of two leave
one for a client. Clients, sockets and channels are permuted by symmetry, which nothing tells apart.
In `WsBridge`, the packets have a short and a long length field, with and without the mark of a quick acknowledgement, and
a stream may end in something that is no packet; chunks end within a field, a payload and a next packet. The second
message shows what the first one left, and three bytes are one too many for a frame and for a message. The histories in
`dropped` and `lost` bound what the properties claim: see section 5.

Fairness of `recovery_live`: the watchdog's thread is scheduled and its calls have timeouts; the user's worker and what
was posted to the window's thread run. Nothing is assumed of the user, of deaths or of the network.

Fairness: weak fairness of each worker's steps, since every OS call in the code has a timeout and worker threads are
scheduled; strong fairness of taking `runtime.lock`, an unfair lock that is released again and again, so it can be
missed but not for ever. Nothing is assumed of the user, timers, downloads that are never asked for, or dying
processes. `close` between its statements and the release of the lock are weakly fair for the same reason.

## 4. Proofs

A theorem holds for every value of the constants that the named assumptions allow; the assumptions say that a marker
such as "no worker" is no member of what it marks the absence of, that bounds are numbers, and the few things listed with
the theorems that need them. In each module one inductive invariant carries everything.

**`RuntimeController_proofs`** (`WorkerAssumption`, `TokenAssumption`): `Typed`, `OneAtATime`, `NobodySleepsOn` prove `TypeOK`,
`Serialised`, `StaleTokensSignalled`; `LaterRequestsWin`, `OnlyTheNewestDecides`, `NobodyActsAfterClose` the action
properties; `Implements` that every step is one of `LatestIntent`, or none, under the mapping of `Abstract`. `Serialised`
is not inductive: that two threads are not in the lock follows from `owner`, so `LockInv` says that a thread in a
held place *is* the owner; `BusyInv` ties `busy` to the place; `TokenInv` says that tokens do not exceed `cur`, that
all below `cur` are signalled and that `entered` is at most `cur`, from which `NewestWins` follows.

**`BypassControl_proofs`** (`OpsAssumption`, `HostAssumption`, `ControllerAssumption`, `CommandAssumption`: "stop" is the name of no
strategy). `Protocol` proves `FollowsProtocol`: each action of the program, with every failure disjunct, is a step of the
controller or leaves it alone. So `ProgramSerialised` and `ProgramWakesSuperseded` hold for the whole program. `BaseInv`
adds `Control`, the table of which steps belong to which operation and where the controller has the worker at each of
them, and the types of the data; `TypesHold` is its consequence, and what follows rests on it:

| theorem | property | hypothesis on the operations | what the induction needs beside the property |
|---|---|---|---|
| `NothingIsOrphaned` | `NoOrphan` | no search, no fix | `Guarded`: every live winws is `proc`, and whoever is about to spawn has seen `proc` dead |
| `NoteIsKept` | `ServiceIsRemembered` | nobody clicks "last working strategy" | `Remembering`: whoever is about to stop the service has noted it, and whoever is about to erase the note sees the service run; a stop is the last command while it is served |
| `StopsAreObeyed` | `StopIsHonoured` | no search, no fix, no update of the lists | `StopInv` |
| `NeverTwoEngines` | `OneEngine` | `Unsettling`: also no restart | `EngineInv` |
| `RunsAreObeyed` | `RunIsHonoured` | the same, and processes do not die by themselves | `RunInv` |
| `MeasuredAlone` | `CleanMeasurement` | `Steady`, no restart with another's token | `MeasureInv` |
| `SearchesOrphanNothing` | `NoOrphan` | the same: with searches, restarts, updates and exits | `MeasureInv` |
| `ExitStopsAll` | `QuitStopsAll` | the same | `MeasureInv` |
| `SearchPutsBack` | `SearchRestores` | `Gentle` | `KeepInv` |
| `LeavingIsHonoured` | `ExitIsHonoured` | `Gentle` | `KeepInv` |

`Steady` says that neither a stop of a process nor the context of a measurement fails; a restart with another's token is
the one of the pages for sites and games (`"toggle"`). `Gentle` is both, and excludes three more operations: a process that
dies by itself, the one-click fix and the click on "last working strategy".

The hypotheses are not conveniences; without them the properties fail, and TLC finds such a behaviour for each operation
that one of them excludes. Section 5 says how:

- a restart with a search's token makes the search lose a process (run `orphan`), which is why `NothingIsOrphaned` excludes
  searches and `SearchesOrphanNothing` that restart;
- after a failed stop or context the `finally` block starts a second winws beside the first, and an exit that fails to stop
  the trial leaves it. `SearchRestores` alone may hold without `Steady`: TLC finds no counterexample with two strategies and
  three workers, but the proof rests on `MeasureInv`, which does not hold then;
- after the fix or the click on "last working strategy" a switch may be under way, whose arguments a search reads too
  early (run `lost_bypass`); what a search has put back may die by itself before the search ends;
- an update of the lists supersedes a stop (run `lost_stop`) and a restart a start that nobody repeats; a restart after a
  superseded installation may start the service beside our winws; of what was started and died nobody promised anything;
- while a stop is under way, the click on "last working strategy" makes another command the last one, and the stop then
  erases the note of the service (`NoteIsKept` excludes it).

Workers, strategies, processes, requests and, but for `Steady`, faults are arbitrary throughout.

- `StopInv`: the current token is signalled by an exit only (`Signals`), and an exit is final (`Parting`); one worker at most
  serves a stop (`OneStop`), and when it turns to our process the service is down (`NoSvc`). After a stop was asked
  and while no error was shown, either the program leaves, or the mode is "stopped" and nobody but the stop and restarts has
  the current token, and then everything is down with nobody in the transition who would start something, or a
  worker with the current token still serves the stop (`StopObeyed`).
- `EngineInv`: no two workers in the protocol hold the same token (`Unique`). Whoever is on the way to start the service
  saw our winws end, whoever is on the way to spawn saw the service not running - unless it was superseded, and then the
  next `runtime.check`, or the one after the stop of our process, turns it away (`Side`). A switch decides by the
  mode it finds when it is served, which the click had set by what ran then (`Choosing`, `Chosen`).
- `RunInv`: with `Signals` and `Parting`, after a command to run a strategy and while no error was shown, either the program
  leaves, or the strategy runs and nobody who could touch an engine is inside or has the current token (`Settled`), or a
  worker carries the promise: it has the current token and is before the step that makes the strategy run (`Carries`), or
  the switch failed without a word, nobody acts for the current token, and the bypass is still wanted (`Lost`, `RunObeyed`).
- `MeasureInv`: there is one search at most, and nobody else who was or may be admitted has its token (`OneSearch`, `Apart`);
  whatever is alive is `proc` or the trial, and there is a trial only in the step between its spawn and the stop of it
  (`Traced`); whoever is about to spawn for a command has seen `proc` dead (`Launch`); each step of the search has
  ended what the table of `Trial` says, and in the `finally` block, while its token is valid, nobody is in the transition; an
  exit that has stopped has closed the controller and ended the rest (`Parted`). `Traced` alone is not inductive: that
  the `finally` block may start `proc` again rests on what `Trial` keeps from the search's first stop to there, across the
  release and the second take of the lock.
- `KeepInv`: nobody switches, since only the excluded clicks make someone switch (`Modest`); `args` is what `proc` runs
  with and what a start under way promised, hence what the search reads under its own token before it enters is what runs
  (`ArgsTrue`, `Promised`, `Origin`); there is one exit, and the controller is closed only after every search that was there when it
  began is past its last step (`Exits`). Then a search that nobody superseded and that met no error is `Faithful`: it has
  written down what it cut off before it cut it off, and what it put back is still there when it ends, because whoever holds
  the lock then is an exit that keeps the bypass.

**`Services_proofs`** (`StoreAssumption`, `SearchAssumption`, `BridgeAssumption`, `PacketAssumption`). `StoreTypes`; `BackupsAreKept`: `TornImportKeepsBackups`; `Atomic`:
`StoreIsAtomic`, the refinement of `AtomicStore`, for any threads, fields, values, transactions, failures and crashes.
`StoreInv` says that a thread changes what is on disk (`Locked`), how far a transaction has come and what it has not
replaced or has put back (`Progress`), that nothing is replaced before everything is copied (`Copies`), and what a result means
(`Results`). `SearchTypesHold`; `AllOrNothing`: `SearchIsAllOrNothing`, for any number of strategies, ranks and searches; the conditions of
all results are those it saves unless they changed and changed back; it rests on `Listing_proofs`, where `Ranking` proves that the sort is stable and leaves nothing out, for lists of any length,
without an induction over lists: counting those up to a member numbers the members.

`BridgeFaithful` proves `BridgeIsFaithful`, and `BridgeTypes` proves `BridgeTypeOK`, for any set of packets, any number and
length of packets and messages, any cut of the client's stream and any order of the two directions, pings, losses and closes.
`SplitterCuts` says what the splitter does: given a buffer that begins where a packet begins, its parts are the packets
that are complete, the rest waits, and at what is no packet everything left goes out as one part and splitting ends. It
is about `Cuts`, a recursive function on places in the buffer, so it takes an induction; the library's induction theorems have an
operator as a parameter, and it is done on sets of numbers instead: a set that is not empty has a least
element (`NatLessThanWellFounded`, `WFMin`), and the least place where the claim fails would have a smaller one. `FlattenSeq`,
the stream and the frames written, is treated the same way. The inductive `BridgeInv`:

- `UpInv`: while nothing failed, what was sent are the packets that arrived as a whole and the splitter waits with the
  bytes after the last of them (`Early`), or it has given up at what is no packet and everything read was sent (`Off`), or the client
  ended its stream and everything was sent (`Over`). `OnePacketPerFrame` and `StreamIsKept` do not mention the plain buffer,
  which decides where the next cut falls; this does.
- `TwinInv`: the two buffers are the same bytes, encrypted and plain.
- `DownInv`: the fragments kept are the bytes of the peer's unfinished message, which is within the limit.
- `CloseInv`: a close frame is the last frame, and once it is written `ws_to_tcp` reads no more.

**`MCServices_proofs`** (`DohAssumption`: the original servers are none of the providers', "no entry" is neither): `Restorable`
proves `DnsCanBeRestored` for any adapters, providers and number of mishaps. Whether a snapshot is worth something depends
on the servers that were there when it was taken. So `DohInv` says that the snapshots hold original servers or nothing
(`Snapshots`), what an old version can have left (`OldVersion`), which durable marks an operation under way has set
(`Marks`), that a first enabling finds only original servers (`FirstTime`), and that an adapter a rollback or a restore is
done with has its servers back unless it was skipped or an error was noted (`Undone`). `DohTypesHold` are the types. `PartsBehave`
says that each part of the run of `MCServices` behaves there as it does alone, so that what is proved of the parts
holds in that run too; `ServicesTypes` proves its `ServicesTypeOK` from the types of the six.

**`Recovery_proofs`** (`RecoveryAssumption`): `RecoveryTypes`, `StopSurvives` (`StopSurvivesRecovery`), `SwitchIsUndone`
(`CommitsOrRollsBack`), `RetriesAreBounded` (`BoundedRetries`), `HealthShown` (`HealthIsCurrent`), `OfflineIsInnocent`
(`OfflineBlacklistsNobody`), for any services, strategies, requests and events. `RecoveryInv`: the place of the watchdog says
what it holds (`Placing`); after a stop the mode is "stopped" and the watchdog's token an old one from the moment it
leaves `wait()`, so that it may not spawn (`Stopping`); which strategy is installed, runs and is saved at each place of a
switch (`Switching`) and of the walk, which has the original back when it picks or ends in vain (`Walking`); how the retries are counted (`Retrying`).

**`TgProxy_proofs`** (`TgAssumption`, `RelayAssumption`, `PoolAssumption`: there are finitely many sockets, since the pool counts
them): `ProxyTypes`, `SocketsAccounted` (`SocketsAreAccounted`), `StopHeard` (`StopIsHeard`), `OverIsOver` (`OverMeansOver`), for any
workers, clients, sockets and pool size. `ProxyInv`: bucket, refill, clients and dropped sockets partition those that are
connected, and idle sockets and those a refill still tries to connect are within the pool's size (`Relaying`); what each place of the thread has
already ended (`Ends`); who holds `_tg_lock` and what it waits for (`Locking`).

**`H2_proofs`** (`LaneAssumption`, `StreamsAssumption`): `LaneTypesHold`, `SlotsAreAccounted` (`LaneAccounting`), `RepeatsAreBounded`
(`ReplaysAreBounded`), `StreamsTypesHold`, `NoWakeupIsLost` (`NoLostWakeup`), for any channels, requests, packets, callers
and limits. `LaneAssumption` asks for at least as many identities of requests as the lane admits; with fewer the model, and
not the code, would bound the lane. `LaneInv`: a packet that waits for the lane has the channel's slot, which
nothing else takes (`Slots`, `Shares`); only a channel whose client is served sends (`Quiet`); the request that gives way to a
repeated packet is a repetition itself (`Scarce`), and a packet of the history is repeated by one request at a time (`OneCopy`).
`ReplaysAreBounded` has two parts: the bounds of every state (`FewRepeats`), and that no step repeats a packet whose answer
arrives (`RepeatsTheUnanswered`), also one that first waits for another request to give way. `StreamsInv`: the streams are
those of the requests past `reserve` (`Belonging`), and `connect_lock` is held by the one that opens a connection while none
is up, so that nobody sleeps on the connection that the new one replaces (`Opening`).

Model-checked only: liveness under fairness, which is out of the prover's reach: `NewestIsServed`, `EveryOperationEnds`,
`QuitTerminates`, `DeadBypassIsRetried`. Every invariant that a passing run checks is stated by a
theorem, those of `BypassControl` under the hypotheses of the table.

## 5. Findings and known divergences

Three have a run that TLC refutes:

1. **orphan.** `on_sites_save` and `_on_games_excl_toggle` restart with the current token, the search's own while one runs. If
   the restart gets the lock between the end of the search's transition and its `finally`, the search starts the
   original process again and overwrites `self.proc`.
2. **lost_stop.** A list update that begins after the click on Stop captures the stop's token and supersedes it while it waits
   for the lock. The bypass runs on although the wanted mode is "stopped".
3. **lost_bypass.** `_auto_worker` reads the arguments to restore before it takes the lock.

Others were met while modelling, follow from the same code and have no run of their own:

- `zapret_app.pyw:2984-2986`: `interrupted` is set before `recovery_context` and the stop of our process; if either fails, the
  `finally` block starts a second winws beside the first (3051-3052).
- 1742-1744: the guard of `on_start` saw our process dead in the middle of a restart; its worker then takes our own
  process for another program's and sets the mode to "stopped", so the watchdog no longer guards it.
- 1858-1866: the epilogue of an installation writes name and strategy without a token, after a later command's.
- 1338, 2550, 2928: a restart from the diagnostics page, a list update or a search supersedes a pending start or installation,
  which nobody repeats; after a superseded installation the restart may start the service beside our winws.
- 2665: an update during a search records nothing to resume, as `proc` is None then.
- 737: `on_simple_fix` sets the auto-apply flag before `on_auto_start` refuses; the next plain search applies its result.
- 1925: after a crash during a search, the timer that restores the service may run beside a start clicked in the first second.
- 2089-2095: the user's start and the watchdog may hold the same token, and a commit does not look again: what is saved is
  then not what runs (`CommitsOrRollsBack` excludes it by `overtaken`). A failed rollback leaves the candidate's arguments.
- 2100-2104: a candidate that was superseded while it settled is blacklisted although it was never measured. A network
  identity that cannot be read counts as a change of the network. `_restart_exhausted` is not reset by a later success
  under the same token.
- 2411: installing and removing the service do not invalidate the health, and a check that is in flight across a whole
  recovery with the same token is still applied.
- `zapret_core.py:865`: an import replaces the whole configuration, the DNS snapshot and the marker of the service with it.
- 1983: after a crash with `doh_enabled` false and `doh_pending` true, enabling is refused ("Сначала восстановите DNS") while
  the switch that would restore shows "off".
- 1956: an adapter that is away when DNS is put back keeps the provider's servers, and its entry is removed; if it is
  there again when DoH is enabled next, these are recorded as its original ones (`lost`).
- `tg_ws_proxy.py:328` and the Cloudflare routes: when the first message on a socket fails, the socket is not closed
  (`dropped`). `raw_websocket.py:180, 221`: after a close frame was received `close()` does not close the writer.
- `zapret_core.py:1752-1756`: after a stop that timed out the restart of the settings page never starts again, and a start
  returns at once because the old thread still runs.
- `cf_h2.py:447-455`: the history may drop a packet whose request was cancelled to make room; it is then not sent again.
- 482: `_bg` has no handler. A switch of "last working strategy" (3215) or "apply best" (3201) that fails, or that answers
  False, and a restart that fails (962, 992, 1341, 2553) show nothing: an exception ends in the crash log, the answer is
  dropped. The old strategy runs on, or nothing does; the bypass is still wanted, so the watchdog takes it up.
- 3030-3032: conditions that change during a search and change back before it ends are not noticed, and the results of both
  are saved together (`SearchIsAllOrNothing` excludes it by `returned`).
- 2967 with two strategies: the arguments can also be stale, and the wrong strategy is restored.

## 6. What is not modelled

- Widgets, tray, wording, logging; diagnostics, Defender exclusions, the autostart task and unpacking: one-shot calls
  without concurrency.
- The bytes of a WebSocket frame's header and its mask, the upgrade request, and cryptography (`raw_websocket.py`, `_aes.py`):
  functions on bytes. The balancer's choice of a domain; the Cloudflare workers, the PROXY header, the disguise as TLS
  (`fake_tls.py`) and the masking domain, which the program never configures.
- Downloading and unpacking an update (sequential), and the PowerShell script that copies it after the exit.
- The pure rules (ports, versions, domain names, the order of presets), which take their arguments and keep nothing.
- Of the settings: exporting them, which reads config and presets one after the other without the lock, and the files
  that are written alone. Of DoH: a PowerShell that outlives the program's crash. Of the bypass: dialogs held open
  (section 2).
- `Recovery` is not composed with `BypassControl`: the watchdog is checked against one user command at a time.

## 7. Plan

Done: the modules of section 2. Left, in this order:

1. `Recovery` with `BypassControl`'s other commands, and with the exit.
2. Self update as a sequence of files (verify, stage, copy) with a crash between two of them.
