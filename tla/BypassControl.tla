--------------------------- MODULE BypassControl ---------------------------
(***************************************************************************)
(* The operations on the bypass in zapret_app.pyw: the handlers of the UI  *)
(* thread, which answer a click at once, and the worker thread each of     *)
(* them starts, which does the slow work one OS call at a time inside      *)
(* runtime.transition(token).  The controller is RuntimeController, the    *)
(* OS is WinwsHost.                                                        *)
(*                                                                         *)
(* A worker's step is one OS call or one runtime.check, the granularity at *)
(* which clicks, dying processes and other threads interleave with it.     *)
(***************************************************************************)
EXTENDS WinwsHost

CONSTANTS Worker, NoWorker, MaxToken,
          Ops,         \* the operations this instance exercises
          MaxTrials,   \* bound: strategies tried by one search
          MaxBoots     \* bound: how many times the program is started again

AllOps == {"start", "stop", "stopAll", "install", "remove", "diagRestart",
           "toggle", "lists", "restoreLast", "search", "fix", "autoStop",
           "quit", "update", "crash", "die", "foreign"}

ASSUME OpsAssumption == /\ Ops \subseteq AllOps
                        /\ MaxTrials \in Nat \ {0} /\ MaxBoots \in Nat
ASSUME CommandAssumption == "stop" \notin Strategy \cup {None}
ASSUME ControllerAssumption == NoWorker \notin Worker /\ MaxToken \in Nat

VARIABLES cur, signalled, closed, desired, owner, busy, tok, at, entered

RT == INSTANCE RuntimeController

VARIABLES job,      \* what each worker thread is doing
          ui,       \* the flags of the application object
          args,     \* active_args
          name,     \* active_preset_name
          cfg,      \* config file: "strategy"
          marker,   \* config file: "svc_stopped_for_search"
          resume,   \* config file: "resume_after_update"
          up,       \* the program is running
          boots,    \* how many times it was started again
          asked,    \* history: the strategy the user last commanded to run, or "stop"
          failed,   \* history: an error was shown since that command
          silent    \* history: its own operation failed since, and nothing was shown

ctl  == <<cur, signalled, closed, desired, owner, busy, tok, at, entered>>
vars == <<host, ctl, job, ui, args, name, cfg, marker, resume,
          up, boots, asked, failed, silent>>
files == <<cfg, marker, resume>>
app  == <<ui, args, name>>
past == <<up, boots, asked, failed, silent>>

(* A worker's local variables: op is the operation, pc its next step, k the
   step after a runtime.check, s the strategy it applies; the others are the
   locals of _auto_worker: original_args, original_name, own_running,
   svc_was_running, interrupted, the number of trials made, _auto_completed
   (which its switch, _apply_found, keeps).
   t is history: the current token when the user chose to exit. *)
Idle == [op |-> "none", pc |-> "idle", k |-> "", s |-> None, orig |-> None,
         oname |-> None, own |-> FALSE, svcWas |-> FALSE, cut |-> FALSE,
         n |-> 0, complete |-> FALSE, t |-> 0]

Flags == [auto |-> FALSE, cancel |-> FALSE, apply |-> FALSE, start |-> FALSE,
          stop |-> FALSE, closing |-> FALSE, nostart |-> FALSE, restore |-> FALSE,
          resume |-> None]

CtlInit == RT!Init
Init == /\ CtlInit
        /\ win = [p \in Pid |-> None] /\ proc = None /\ trial = None
        /\ svc \in {"absent", "stopped", "running"}
        /\ svcRuns = IF svc = "absent" THEN None ELSE CHOOSE s \in Strategy : TRUE
        /\ foreign = FALSE
        /\ job = [w \in Worker |-> Idle]
        /\ ui = Flags
        /\ args = None /\ name = None
        /\ cfg \in Strategy
        /\ marker = FALSE /\ resume = None
        /\ up = TRUE /\ boots = 0 /\ asked = None /\ failed = FALSE /\ silent = FALSE
-----------------------------------------------------------------------------
(* Helpers of the handlers. *)
Free(w) == job[w].pc = "idle" /\ at[w] = "idle"
Begin(w, op, pc, s) == /\ Free(w)
                       /\ job' = [job EXCEPT ![w] = [Idle EXCEPT !.op = op, !.pc = pc, !.s = s]]
Asks(what) == asked' = what /\ failed' = FALSE /\ silent' = FALSE /\ UNCHANGED <<up, boots>>

(* The UI thread is free unless it is still inside the quit handler. *)
UIFree    == up /\ \A w \in Worker : job[w].pc \notin {"q.close", "q.signal"}
Click(op) == UIFree /\ op \in Ops

(* on_start, also reached from the tray, the autostart and the resume. *)
StartGuard == ~ui.auto /\ ~ui.stop /\ ~ui.start /\ ~ProcAlive
StartWith(w, s) == /\ StartGuard
                   /\ RT!Request(w, "manual")
                   /\ Begin(w, "start", "enter", s)
                   /\ Asks(s)
                   /\ UNCHANGED <<host, args, name, files>>

Start(w, s) == Click("start") /\ StartWith(w, s) /\ ui' = [ui EXCEPT !.start = TRUE]

(* on_stop and on_stop_all_winws. *)
Stop(w, op) == /\ op \in {"stop", "stopAll"} /\ Click(op)
               /\ ~ui.stop
               /\ RT!Request(w, "stopped")
               /\ Begin(w, op, "enter", None)
               /\ ui' = [ui EXCEPT !.cancel = TRUE, !.apply = FALSE, !.stop = TRUE,
                                   !.nostart = TRUE]
               /\ Asks("stop")
               /\ UNCHANGED <<host, args, name, files>>

(* on_install_service. *)
Install(w, s) == /\ Click("install")
                 /\ ~ui.auto /\ ~ui.stop
                 /\ RT!Request(w, "service")
                 /\ Begin(w, "install", "enter", s)
                 /\ Asks(s)
                 /\ UNCHANGED <<host, app, files>>

(* on_remove_service. *)
Remove(w) == /\ Click("remove")
             /\ ~ui.auto /\ ~ui.stop /\ svc # "absent"
             /\ RT!Request(w, "stopped")
             /\ Begin(w, "remove", "enter", None)
             /\ Asks(None)
             /\ UNCHANGED <<host, app, files>>

(* on_diag_restart. *)
DiagRestart(w) == /\ Click("diagRestart")
                  /\ ~ui.auto /\ ~ui.stop
                  /\ RT!Request(w, desired)
                  /\ Begin(w, "restart", "enter", None)
                  /\ UNCHANGED <<host, app, files, past>>

(* _on_games_excl_toggle and on_sites_save ask for no token: the worker takes
   whatever token is current when it starts (TakeToken). *)
Toggle(w) == /\ Click("toggle")
             /\ Managed
             /\ Begin(w, "restart", "token", None)
             /\ UNCHANGED <<host, ctl, app, files, past>>

(* on_update_lists(restart_if_running=True), from the timer. *)
Lists(w) == /\ Click("lists")
            /\ ~ui.auto
            /\ RT!Capture(w)
            /\ Begin(w, "lists", "download", None)
            /\ UNCHANGED <<host, app, files, past>>

(* on_restore_last_working while the bypass runs (on_apply_best is the same
   with one more guard); when it does not run both are on_start. *)
RestoreLast(w, s) == /\ Click("restoreLast")
                     /\ Managed
                     /\ RT!Request(w, IF SvcRunning THEN "service" ELSE "manual")
                     /\ Begin(w, "switch", "enter", s)
                     /\ cfg' = s
                     /\ Asks(s)
                     /\ UNCHANGED <<host, app, marker, resume>>

(* on_auto_start.  The results of an earlier search are not modelled. *)
BeginSearch(w, flags) == /\ RT!Request(w, desired)
                         /\ Begin(w, "search", "begin", None)
                         /\ ui' = [flags EXCEPT !.auto = TRUE, !.cancel = FALSE]
                         /\ UNCHANGED <<host, args, name, files, past>>
Search(w) == /\ Click("search")
             /\ ~ui.auto /\ ~ui.stop
             /\ BeginSearch(w, ui)

(* on_simple_fix: the flag is set before on_auto_start looks at its guards. *)
SimpleFix(w) == /\ Click("fix")
                /\ ~ui.auto
                /\ LET flags == [ui EXCEPT !.apply = TRUE]
                   IN \/ ~ui.stop /\ BeginSearch(w, flags)
                      \/ ui.stop /\ ui' = flags /\ UNCHANGED <<host, ctl, job, args, name, files, past>>

(* on_auto_stop. *)
SearchStop == /\ Click("autoStop")
              /\ ui.auto
              /\ ui' = [ui EXCEPT !.cancel = TRUE]
              /\ UNCHANGED <<host, ctl, job, args, name, files, past>>

(* refresh_status adopts a service that runs before anything was requested. *)
AdoptService == /\ up /\ SvcRunning /\ cur = 0
                /\ RT!Announce("service")
                /\ UNCHANGED <<host, job, app, files, past>>
-----------------------------------------------------------------------------
(* Helpers of the workers.  A finished worker clears the flag its handler set
   (the code does it in "finally"). *)
Goto(w, pc) == job' = [job EXCEPT ![w].pc = pc]
CheckThen(w, pc) == job' = [job EXCEPT ![w].pc = "check", ![w].k = pc]
At(w, pc) == up /\ job[w].pc = pc

Finish(w) == /\ job' = [job EXCEPT ![w] = Idle]
             /\ ui' = [ui EXCEPT !.start = @ /\ job[w].op # "start",
                                 !.stop = @ /\ job[w].op \notin {"stop", "stopAll"}]

(* An error is shown: a worker's handler logs it.  _bg has none (482), so that nobody
   hears of a restart that fails, nor of a switch but the search's own (_apply_found). *)
Reports     == failed' = TRUE /\ UNCHANGED <<up, boots, asked, silent>>
Unheard(w)  == job[w].op = "restart" \/ (job[w].op = "switch" /\ ~job[w].complete)
Vanishes(w) == silent' = (silent \/ RT!Valid(tok[w])) /\ UNCHANGED <<up, boots, asked, failed>>

Ends(w)  == RT!Leave(w) /\ Finish(w) /\ UNCHANGED past   \* normally, or Superseded
Errs(w)  == RT!Leave(w) /\ Finish(w) /\ IF Unheard(w) THEN Vanishes(w) ELSE Reports

TakeToken(w) == /\ At(w, "token")
                /\ RT!Capture(w)
                /\ Goto(w, "enter")
                /\ UNCHANGED <<host, app, files, past>>

(* Mutant: an installation does not stop our process first. *)
FirstKeepingProcess ==
    [start |-> "test", stop |-> "stopSvc", stopAll |-> "stopSvc", install |-> "svcOff",
     remove |-> "remove", restart |-> "decide", switch |-> "decide",
     restore |-> "svcOn", search |-> "s.look"]

First == [start |-> "test", stop |-> "stopSvc", stopAll |-> "stopSvc", install |-> "halt",
          remove |-> "remove", restart |-> "decide", switch |-> "decide",
          restore |-> "svcOn", search |-> "s.look"]

Enter(w) == /\ At(w, "enter")
            /\ ~(job[w].op = "switch" /\ desired = "stopped")
            /\ RT!Enter(w)
            /\ Goto(w, First[job[w].op])
            /\ UNCHANGED <<host, app, files, past>>

(* Mutant: Superseded is not caught by the search. *)
TurnAwayButSearch(w) == /\ At(w, "enter") /\ job[w].op # "search"
                        /\ RT!Refuse(w) /\ Finish(w)
                        /\ UNCHANGED <<host, args, name, files, past>>

(* transition() raises Superseded, or _switch_to returns before it. *)
TurnAway(w) == /\ At(w, "enter")
               /\ \/ RT!Refuse(w)
                  \/ job[w].op = "switch" /\ desired = "stopped" /\ RT!Drop(w)
               /\ IF job[w].op = "search"
                    THEN Goto(w, "s.lock") /\ ui' = [ui EXCEPT !.cancel = TRUE]
                    ELSE Finish(w)
               /\ UNCHANGED <<host, args, name, files, past>>

(* runtime.check(token), and the cancelled() tests of install_service. *)
Check(w) == /\ At(w, "check")
            /\ \/ RT!Valid(tok[w]) /\ Goto(w, job[w].k) /\ UNCHANGED <<ctl, ui, past>>
               \/ ~RT!Valid(tok[w]) /\ Ends(w)
            /\ UNCHANGED <<host, args, name, files>>
-----------------------------------------------------------------------------
(* Mutant: the mode is assigned without set_desired(). *)
StartTestAssigning(w) == /\ At(w, "test")
                         /\ IF WinwsRunning
                              THEN desired' = "stopped" /\ Goto(w, "raise")
                              ELSE UNCHANGED desired /\ CheckThen(w, "claim")
                         /\ UNCHANGED <<host, cur, signalled, closed, owner, busy, tok, at, entered>>
                         /\ UNCHANGED <<app, files, past>>

(* The worker of on_start. *)
StartTest(w) == /\ At(w, "test")
                /\ IF WinwsRunning
                     THEN /\ RT!SetDesired(w, IF SvcRunning THEN "service" ELSE "stopped")
                          /\ Goto(w, "raise")
                     ELSE UNCHANGED ctl /\ CheckThen(w, "claim")
                /\ UNCHANGED <<host, app, files, past>>

Raise(w) == At(w, "raise") /\ Errs(w) /\ UNCHANGED <<host, args, name, files>>

Claim(w) == /\ At(w, "claim")
            /\ args' = job[w].s /\ name' = job[w].s
            /\ CheckThen(w, "spawn")
            /\ UNCHANGED <<host, ctl, ui, files, past>>

(* _spawn_winws: a restart runs active_args again. *)
Spawned(s, n) == /\ Fresh # {}
                 /\ win' = [win EXCEPT ![NewPid] = s]
                 /\ proc' = NewPid
                 /\ args' = s /\ name' = IF n = None THEN name ELSE n
                 /\ UNCHANGED <<trial, svc, svcRuns, foreign>>

Spawn(w) ==
    /\ At(w, "spawn")
    /\ \/ /\ IF job[w].op = "restart" THEN Spawned(args, name) ELSE Spawned(job[w].s, job[w].s)
          /\ \/ job[w].op = "restart" /\ Ends(w)
             \/ job[w].op = "start"  /\ Goto(w, "persist") /\ UNCHANGED <<ctl, ui, past>>
             \/ job[w].op = "switch" /\ CheckThen(w, "persist") /\ UNCHANGED <<ctl, ui, past>>
       \/ MayFail("spawn") /\ Errs(w) /\ UNCHANGED <<host, args, name>>
    /\ UNCHANGED files

(* Mutant: the wrong local is saved. *)
PersistOriginal(w) == /\ At(w, "persist")
                      /\ cfg' = job[w].orig
                      /\ Ends(w)
                      /\ UNCHANGED <<host, args, name, marker, resume>>

Persist(w) == /\ At(w, "persist")
              /\ cfg' = job[w].s
              /\ Ends(w)
              /\ UNCHANGED <<host, args, name, marker, resume>>

(* Mutant: the reference is dropped although the process did not stop. *)
HaltLocalForgetting(w) ==
    /\ At(w, "halt")
    /\ \/ /\ win' = Ended(proc) /\ proc' = None
          /\ CheckThen(w, IF job[w].op = "install" THEN "svcOff" ELSE "spawn")
          /\ UNCHANGED <<ctl, ui, past>>
       \/ StopFails(proc) /\ proc' = None /\ Errs(w) /\ UNCHANGED win
    /\ UNCHANGED <<trial, svc, svcRuns, foreign, args, name, files>>

(* _stop_local_winws: install clears the active strategy, restart and switch keep it. *)
HaltLocal(w) ==
    /\ At(w, "halt")
    /\ \/ /\ win' = Ended(proc) /\ proc' = None
          /\ IF job[w].op = "install" THEN args' = None /\ name' = None
                                      ELSE UNCHANGED <<args, name>>
          /\ CheckThen(w, IF job[w].op = "install" THEN "svcOff" ELSE "spawn")
          /\ UNCHANGED <<trial, svc, svcRuns, foreign, ctl, ui, past>>
       \/ StopFails(proc) /\ Errs(w) /\ UNCHANGED <<host, args, name>>
    /\ UNCHANGED files

(* _watchdog_restart and _switch_to choose by the desired mode. *)
Decide(w) ==
    /\ At(w, "decide")
    /\ LET restart == job[w].op = "restart"
           nothing == restart /\ (desired = "stopped" \/ (desired = "manual" /\ args = None))
       IN \/ nothing /\ Ends(w)
          \/ /\ ~nothing
             /\ IF desired # "service" THEN Goto(w, "halt")
                ELSE IF restart THEN Goto(w, "svcOff") ELSE CheckThen(w, "svcOff")
             /\ UNCHANGED <<ctl, ui, past>>
    /\ UNCHANGED <<host, args, name, files>>

(* install_service, and the service branch of _watchdog_restart. *)
SvcOff(w) ==
    /\ At(w, "svcOff")
    /\ \/ /\ SvcStops
          /\ CheckThen(w, IF job[w].op = "restart" THEN "svcOn" ELSE "config")
          /\ UNCHANGED <<ctl, ui, past>>
       \/ SvcStopFails /\ UNCHANGED svc /\ Errs(w)
    /\ UNCHANGED <<win, proc, trial, svcRuns, foreign, args, name, files>>

(* Mutant: an installed service is started again as it is. *)
SvcConfigOnce(w) ==
    /\ At(w, "config")
    /\ svc' = "stopped"
    /\ svcRuns' = IF svc = "absent" THEN job[w].s ELSE svcRuns
    /\ CheckThen(w, "svcOn")
    /\ UNCHANGED <<win, proc, trial, foreign, ctl, app, files, past>>

SvcConfig(w) ==
    /\ At(w, "config")
    /\ \/ /\ svc' = "stopped" /\ svcRuns' = job[w].s
          /\ CheckThen(w, "svcOn")
          /\ UNCHANGED <<ctl, ui, past>>
       \/ MayFail("service") /\ UNCHANGED <<svc, svcRuns>> /\ Errs(w)
    /\ UNCHANGED <<win, proc, trial, foreign, args, name, files>>

SvcOn(w) ==
    /\ At(w, "svcOn")
    /\ \/ /\ SvcStarts
          /\ \/ job[w].op = "restart" /\ Ends(w) /\ UNCHANGED <<args, name>>
             \/ job[w].op = "install" /\ CheckThen(w, "leave") /\ UNCHANGED <<ctl, app, past>>
             \/ job[w].op = "restore" /\ CheckThen(w, "unmark") /\ UNCHANGED <<ctl, app, past>>
             \/ /\ job[w].op = "switch" /\ CheckThen(w, "persist")
                /\ args' = job[w].s /\ name' = job[w].s
                /\ UNCHANGED <<ctl, ui, past>>
       \/ SvcStartFails /\ UNCHANGED <<svc, args, name>> /\ Errs(w)
    /\ UNCHANGED <<win, proc, trial, svcRuns, foreign, files>>

(* on_install_service after the transition: no token is looked at. *)
InstallLeave(w) == /\ At(w, "leave")
                   /\ RT!Leave(w)
                   /\ Goto(w, "epilogue")
                   /\ UNCHANGED <<host, app, files, past>>
InstallEpilogue(w) == /\ At(w, "epilogue")
                      /\ name' = job[w].s /\ cfg' = job[w].s
                      /\ Finish(w)
                      /\ UNCHANGED <<host, ctl, args, marker, resume, past>>

(* remove_service: stop, then delete. *)
RemoveService(w) ==
    /\ At(w, "remove")
    /\ \/ svc' = "absent" /\ svcRuns' = None /\ Ends(w)
       \/ SvcStopFails /\ UNCHANGED <<svc, svcRuns>> /\ Errs(w)
       \/ MayFail("service") /\ SvcStops /\ UNCHANGED svcRuns /\ Errs(w)
    /\ UNCHANGED <<win, proc, trial, foreign, args, name, files>>

(* The workers of on_stop and on_stop_all_winws: trial, service, own process
   (whatever became of the service), the processes of others, the marker. *)
StopService(w) ==
    /\ At(w, "stopSvc")
    /\ \/ /\ win' = Ended(trial) /\ trial' = None
          /\ \/ SvcStops /\ Goto(w, "stopLocal")
             \/ SvcStopFails /\ UNCHANGED svc /\ Goto(w, "stopLocalErr")
          /\ UNCHANGED <<ctl, ui, past>>
       \/ StopFails(trial) /\ UNCHANGED <<win, trial, svc>> /\ Errs(w)
    /\ UNCHANGED <<proc, svcRuns, foreign, args, name, files>>

StopLocal(w) ==
    /\ At(w, "stopLocal") \/ At(w, "stopLocalErr")
    /\ LET all == job[w].op = "stopAll" /\ At(w, "stopLocal")
       IN \/ /\ proc' = None /\ args' = None /\ name' = None
             /\ IF all THEN win' = [p \in Pid |-> None] /\ foreign' = FALSE
                       ELSE win' = Ended(proc) /\ UNCHANGED foreign
             /\ IF At(w, "stopLocal") THEN marker' = FALSE /\ Ends(w)
                                      ELSE UNCHANGED marker /\ Errs(w)
          \/ StopFails(proc) /\ Errs(w) /\ UNCHANGED <<win, proc, foreign, args, name, marker>>
          \/ /\ all /\ MayFail("stop")          \* taskkill leaves some process alive
             /\ proc' = None /\ args' = None /\ name' = None /\ win' = Ended(proc)
             /\ Errs(w) /\ UNCHANGED <<foreign, marker>>
    /\ UNCHANGED <<trial, svc, svcRuns, cfg, resume>>

(* on_update_lists after the download: restart only what runs, and only if
   nobody asked for anything meanwhile; the download may also have failed. *)
ListsDone(w) ==
    /\ At(w, "download")
    /\ \/ /\ Managed
          /\ RT!RequestIfCurrent(w, desired)
          /\ job' = [job EXCEPT ![w].op = "restart", ![w].pc = "enter"]
          /\ UNCHANGED ui
       \/ RT!Drop(w) /\ Finish(w)
    /\ UNCHANGED <<host, args, name, files, past>>
-----------------------------------------------------------------------------
(* _auto_worker. *)
SearchBegin(w) == /\ At(w, "begin")
                  /\ job' = [job EXCEPT ![w].pc = "enter", ![w].orig = args, ![w].oname = name]
                  /\ UNCHANGED <<host, ctl, app, files, past>>

Fails(w) == /\ Goto(w, "s.exit") /\ ui' = [ui EXCEPT !.cancel = TRUE]
            /\ Reports

(* Mutant: the marker is not saved before the service is stopped. *)
SearchLookUnmarked(w) ==
    /\ At(w, "s.look")
    /\ job' = [job EXCEPT ![w].pc = IF SvcRunning THEN "s.svcOff" ELSE "s.context",
                          ![w].svcWas = SvcRunning, ![w].own = ProcAlive]
    /\ UNCHANGED <<host, ctl, app, files, past>>

SearchLook(w) ==
    /\ At(w, "s.look")
    /\ IF WinwsRunning /\ ~Managed
         THEN Fails(w) /\ UNCHANGED marker
         ELSE /\ marker' = (marker \/ SvcRunning)
              /\ job' = [job EXCEPT ![w].pc = IF SvcRunning THEN "s.svcOff" ELSE "s.context",
                                    ![w].svcWas = SvcRunning, ![w].own = ProcAlive]
              /\ UNCHANGED <<ui, past>>
    /\ UNCHANGED <<host, ctl, args, name, cfg, resume>>

SearchSvcOff(w) ==
    /\ At(w, "s.svcOff")
    /\ \/ SvcStops /\ Goto(w, "s.context") /\ UNCHANGED <<ui, past>>
       \/ SvcStopFails /\ UNCHANGED svc /\ Fails(w)
    /\ UNCHANGED <<win, proc, trial, svcRuns, foreign, ctl, args, name, files>>

(* interrupted = True precedes recovery_context and the stop of our process. *)
SearchContext(w) ==
    /\ At(w, "s.context")
    /\ \/ /\ job' = [job EXCEPT ![w].pc = "s.halt", ![w].cut = TRUE]
          /\ UNCHANGED <<ui, past>>
       \/ /\ MayFail("context")
          /\ job' = [job EXCEPT ![w].pc = "s.exit", ![w].cut = TRUE]
          /\ ui' = [ui EXCEPT !.cancel = TRUE]
          /\ Reports
    /\ UNCHANGED <<host, ctl, args, name, files>>

(* Mutant: our process is left running during the trials. *)
SearchHaltNothing(w) == /\ At(w, "s.halt") /\ Goto(w, "s.trial")
                        /\ UNCHANGED <<host, ctl, app, files, past>>

SearchHalt(w) ==
    /\ At(w, "s.halt")
    /\ \/ /\ win' = Ended(proc) /\ proc' = None
          /\ Goto(w, "s.trial")
          /\ UNCHANGED <<ui, past>>
       \/ StopFails(proc) /\ UNCHANGED <<win, proc>> /\ Fails(w)
    /\ UNCHANGED <<trial, svc, svcRuns, foreign, ctl, args, name, files>>

Cancelled(w) == ui.cancel \/ ui.closing \/ ~RT!Valid(tok[w])

(* The head of trial(), and the end of run_search. *)
SearchNext(w) ==
    /\ At(w, "s.trial")
    /\ \/ Cancelled(w) /\ Goto(w, "s.exit") /\ ui' = [ui EXCEPT !.cancel = TRUE]
       \/ ~Cancelled(w) /\ job[w].n < MaxTrials /\ Goto(w, "s.spawn") /\ UNCHANGED ui
       \/ /\ ~Cancelled(w) /\ job[w].n = MaxTrials
          /\ job' = [job EXCEPT ![w].pc = "s.exit", ![w].complete = TRUE]
          /\ UNCHANGED ui
       \/ /\ ~Cancelled(w) /\ job[w].n = MaxTrials      \* the context changed
          /\ MayFail("context") /\ Goto(w, "s.exit") /\ ui' = [ui EXCEPT !.cancel = TRUE]
    /\ UNCHANGED <<host, ctl, args, name, files, past>>

Tried(w) == job' = [job EXCEPT ![w].pc = "s.trial", ![w].n = @ + 1]

SearchSpawn(w) ==
    /\ At(w, "s.spawn")
    /\ \/ \E s \in Strategy : /\ Fresh # {}
                              /\ win' = [win EXCEPT ![NewPid] = s]
                              /\ trial' = NewPid
                              /\ Goto(w, "s.probe")
       \/ MayFail("spawn") /\ Tried(w) /\ UNCHANGED <<win, trial>>
    /\ UNCHANGED <<proc, svc, svcRuns, foreign, ctl, app, files, past>>

(* Waiting and measuring end; the trial process is stopped in "finally". *)
SearchProbe(w) ==
    /\ At(w, "s.probe")
    /\ \/ /\ win' = Ended(trial) /\ trial' = None
          /\ Tried(w)
          /\ UNCHANGED <<ui, past>>
       \/ StopFails(trial) /\ UNCHANGED <<win, trial>> /\ Fails(w)
    /\ UNCHANGED <<proc, svc, svcRuns, foreign, ctl, args, name, files>>

SearchExit(w) == /\ At(w, "s.exit")
                 /\ RT!Leave(w)
                 /\ Goto(w, "s.lock")
                 /\ UNCHANGED <<host, app, files, past>>

(* "finally": the lock again, taken after the transition released it. *)
SearchLock(w) == /\ At(w, "s.lock")
                 /\ RT!Lock(w)
                 /\ Goto(w, "s.fin")
                 /\ UNCHANGED <<host, app, files, past>>

RestoreFails(w) == /\ RT!Leave(w)
                   /\ job' = [job EXCEPT ![w].pc = "s.done", ![w].complete = FALSE]
                   /\ ui' = [ui EXCEPT !.cancel = TRUE]
                   /\ Reports

SearchFinally(w) ==
    /\ At(w, "s.fin")
    /\ \/ /\ win' = Ended(trial) /\ trial' = None
          /\ \/ RT!Admit(w) /\ Goto(w, "s.restore")
             \/ ~RT!Valid(tok[w]) /\ RT!Leave(w) /\ Goto(w, "s.done")
          /\ UNCHANGED <<ui, past>>
       \/ StopFails(trial) /\ UNCHANGED <<win, trial>> /\ RestoreFails(w)
    /\ UNCHANGED <<proc, svc, svcRuns, foreign, args, name, files>>

(* Mutant: only a search that was completed restores our process. *)
SearchRestoreCompleted(w) ==
    /\ At(w, "s.restore")
    /\ LET spawns == ~job[w].svcWas /\ job[w].own /\ job[w].complete
       IN \/ /\ job[w].svcWas /\ SvcStarts /\ Goto(w, "s.unmark")
             /\ UNCHANGED <<win, proc, trial, svcRuns, foreign, ctl, args, name>>
          \/ /\ ~job[w].svcWas
             /\ IF spawns THEN Spawned(job[w].orig, job[w].oname) ELSE UNCHANGED <<host, args, name>>
             /\ RT!Leave(w) /\ Goto(w, "s.done")
    /\ UNCHANGED <<ui, files, past>>

SearchRestore(w) ==
    /\ At(w, "s.restore")
    /\ LET spawns == ~job[w].svcWas /\ job[w].cut /\ job[w].own /\ job[w].orig # None
           quits  == RT!Leave(w) /\ Goto(w, "s.done") /\ UNCHANGED <<ui, past>>
       IN \/ /\ job[w].svcWas /\ SvcStarts
             /\ Goto(w, "s.unmark")
             /\ UNCHANGED <<win, proc, trial, svcRuns, foreign, ctl, app, past>>
          \/ spawns /\ Spawned(job[w].orig, job[w].oname) /\ quits
          \/ ~job[w].svcWas /\ ~spawns /\ quits /\ UNCHANGED <<host, args, name>>
          \/ /\ (job[w].svcWas /\ SvcStartFails) \/ (spawns /\ MayFail("spawn"))
             /\ RestoreFails(w)
             /\ UNCHANGED <<host, args, name>>
    /\ UNCHANGED files

SearchUnmark(w) == /\ At(w, "s.unmark")
                   /\ marker' = FALSE
                   /\ RT!Leave(w) /\ Goto(w, "s.done")
                   /\ UNCHANGED <<host, app, cfg, resume, past>>

(* _auto_done on the UI thread; the rating of the strategies is not modelled:
   any of them, or none, is the best one. *)
SearchDone(w) ==
    /\ UIFree /\ At(w, "s.done")
    /\ LET good == RT!Valid(tok[w]) /\ job[w].complete /\ ~ui.cancel /\ ~ui.closing
       IN /\ ui' = [ui EXCEPT !.auto = FALSE, !.apply = IF ui.closing THEN @ ELSE FALSE,
                              !.cancel = @ \/ ~RT!Valid(tok[w]) \/ ~job[w].complete]
          /\ \/ /\ good /\ ui.apply
                /\ \E s \in Strategy :
                      job' = [job EXCEPT ![w] = [Idle EXCEPT !.op = "switch", !.pc = "enter", !.s = s,
                                                             !.complete = TRUE]]
                /\ IF desired = "stopped" THEN RT!RequestIfCurrent(w, "manual") ELSE RT!Rearm(w)
             \/ job' = [job EXCEPT ![w] = Idle] /\ UNCHANGED ctl
    /\ UNCHANGED <<host, args, name, files, past>>
-----------------------------------------------------------------------------
(* _real_quit.  Without a search the handler itself closes the controller; the
   cleanup thread it starts closes it, once more, when the search has ended. *)
Quit(w, stopManual) ==
    /\ Click("quit")
    /\ ~ui.closing
    /\ stopManual => ProcAlive \/ (ui.auto /\ desired = "manual")
    /\ Free(w)
    /\ job' = [job EXCEPT ![w] = [Idle EXCEPT !.op = IF stopManual THEN "quitStop" ELSE "quit",
                                              !.pc = IF ui.auto THEN "q.join" ELSE "q.close",
                                              !.t = cur]]
    /\ ui' = [ui EXCEPT !.cancel = TRUE, !.closing = TRUE]
    /\ IF stopManual THEN RT!Announce("stopped") /\ Asks("stop") ELSE UNCHANGED <<ctl, past>>
    /\ UNCHANGED <<host, args, name, files>>

(* _quit_for_update, posted when the download was verified; whether a search
   runs was asked when the download started (_do_update). *)
QuitForUpdate(w) ==
    /\ Click("update")
    /\ ~ui.closing
    /\ Begin(w, "update", "q.close", IF ProcAlive THEN name ELSE None)
    /\ ui' = [ui EXCEPT !.cancel = TRUE, !.closing = TRUE]
    /\ UNCHANGED <<host, ctl, args, name, files, past>>

(* runtime.close(), in the handler and in the cleanup thread. *)
QuitClose(w) == /\ \/ At(w, "q.close") /\ Goto(w, "q.signal")
                   \/ At(w, "q.reclose") /\ Goto(w, "q.resignal")
                /\ RT!CloseFlag(w)
                /\ UNCHANGED <<host, app, files, past>>
QuitSignal(w) == /\ \/ At(w, "q.signal") /\ Goto(w, IF job[w].op = "update" THEN "q.lock" ELSE "q.join")
                    \/ At(w, "q.resignal") /\ Goto(w, "q.lock")
                 /\ RT!CloseSignal(w)
                 /\ UNCHANGED <<host, app, files, past>>

(* Mutant: the search is not waited for. *)
QuitJoinNobody(w) == At(w, "q.join") /\ Goto(w, "q.reclose")
                     /\ UNCHANGED <<host, ctl, app, files, past>>

(* thread.join(): the search thread ends when it posts _auto_done. *)
QuitJoin(w) == /\ At(w, "q.join")
               /\ \A v \in Worker : job[v].op = "search" => job[v].pc = "s.done"
               /\ Goto(w, "q.reclose")
               /\ UNCHANGED <<host, ctl, app, files, past>>

QuitLock(w) == /\ At(w, "q.lock") /\ RT!Lock(w) /\ Goto(w, "q.stop")
               /\ UNCHANGED <<host, app, files, past>>

(* cleanup() under the lock: quit stops the trial and then, if asked, our process;
   the update stops our process and records what to resume. *)
QuitStop(w) ==
    /\ At(w, "q.stop")
    /\ RT!Leave(w)
    /\ LET update == job[w].op = "update"
           local  == job[w].op # "quit"
           noTrial == IF update THEN win ELSE Ended(trial)
       IN \/ /\ ~update /\ StopFails(trial)
             /\ Reports
             /\ UNCHANGED <<win, proc, trial, args, name, resume>>
          \/ /\ trial' = IF update THEN trial ELSE None
             /\ \/ /\ win' = IF local /\ proc # None THEN [noTrial EXCEPT ![proc] = None] ELSE noTrial
                   /\ IF local THEN proc' = None /\ args' = None /\ name' = None
                               ELSE UNCHANGED <<proc, args, name>>
                   /\ resume' = IF update /\ job[w].s # None THEN job[w].s ELSE resume
                   /\ UNCHANGED past
                \/ /\ local /\ StopFails(proc)
                   /\ win' = noTrial
                   /\ Reports
                   /\ UNCHANGED <<proc, args, name, resume>>
    /\ Goto(w, "q.exit")
    /\ UNCHANGED <<svc, svcRuns, foreign, ui, cfg, marker>>

(* The process ends: its daemon threads die where they are, the winws it
   leaves behind belongs to nobody. *)
Gone == /\ up' = FALSE
        /\ foreign' = (foreign \/ \E p \in Pid : Alive(p))
        /\ win' = [p \in Pid |-> None] /\ proc' = None /\ trial' = None
        /\ job' = [w \in Worker |-> Idle]
        /\ UNCHANGED <<svc, svcRuns, ctl, app, files, boots, asked, failed, silent>>
Exit(w) == At(w, "q.exit") /\ Gone
Crash == up /\ "crash" \in Ops /\ Gone

(* A new instance: main() and __init__. *)
Boot == /\ ~up /\ boots < MaxBoots
        /\ up' = TRUE /\ boots' = boots + 1
        /\ asked' = None /\ failed' = FALSE /\ silent' = FALSE
        /\ cur' = 0 /\ signalled' = {} /\ closed' = FALSE /\ desired' = "stopped"
        /\ owner' = NoWorker /\ busy' = FALSE /\ entered' = 0
        /\ tok' = [w \in Worker |-> 0] /\ at' = [w \in Worker |-> "idle"]
        /\ ui' = [Flags EXCEPT !.restore = marker, !.resume = resume]
        /\ args' = None /\ name' = None
        /\ resume' = None
        /\ UNCHANGED <<host, job, cfg, marker>>

(* _startup_service_restore and _resume_after_update, on their timers. *)
StartupRestore(w) == /\ UIFree /\ ui.restore /\ ~ui.closing /\ ~ui.nostart
                     /\ marker
                     /\ RT!Request(w, "service")
                     /\ Begin(w, "restore", "enter", None)
                     /\ ui' = [ui EXCEPT !.restore = FALSE]
                     /\ UNCHANGED <<host, args, name, files, past>>

StartupResume(w) == /\ UIFree /\ ui.resume # None /\ ~ui.closing /\ ~ui.nostart
                    /\ ~Managed /\ ~WinwsRunning
                    /\ StartWith(w, ui.resume)
                    /\ ui' = [ui EXCEPT !.resume = None, !.start = TRUE]

Unmark(w) == /\ At(w, "unmark") /\ marker' = FALSE /\ Ends(w)
             /\ UNCHANGED <<host, args, name, cfg, resume>>
-----------------------------------------------------------------------------
(* The environment. *)
Die == /\ "die" \in Ops
       /\ \E p \in Pid : Alive(p) /\ win' = [win EXCEPT ![p] = None]
       /\ UNCHANGED <<proc, trial, svc, svcRuns, foreign, ctl, job, app, files, past>>
Foreign == /\ "foreign" \in Ops
           /\ foreign' = ~foreign
           /\ UNCHANGED <<win, proc, trial, svc, svcRuns, ctl, job, app, files, past>>

Handler(w) == \/ \E s \in Strategy : Start(w, s) \/ Install(w, s) \/ RestoreLast(w, s)
              \/ \E op \in {"stop", "stopAll"} : Stop(w, op)
              \/ Remove(w) \/ DiagRestart(w) \/ Toggle(w) \/ Lists(w)
              \/ Search(w) \/ SimpleFix(w)
              \/ \E b \in BOOLEAN : Quit(w, b)
              \/ QuitForUpdate(w)
              \/ StartupRestore(w) \/ StartupResume(w)

Work(w) == \/ TakeToken(w) \/ Enter(w) \/ TurnAway(w) \/ Check(w)
           \/ StartTest(w) \/ Raise(w) \/ Claim(w) \/ Spawn(w) \/ Persist(w)
           \/ HaltLocal(w) \/ Decide(w) \/ SvcOff(w) \/ SvcConfig(w) \/ SvcOn(w)
           \/ InstallLeave(w) \/ InstallEpilogue(w) \/ RemoveService(w)
           \/ StopService(w) \/ StopLocal(w) \/ ListsDone(w) \/ Unmark(w)
           \/ SearchBegin(w) \/ SearchLook(w) \/ SearchSvcOff(w) \/ SearchContext(w)
           \/ SearchHalt(w) \/ SearchNext(w) \/ SearchSpawn(w) \/ SearchProbe(w)
           \/ SearchExit(w) \/ SearchLock(w) \/ SearchFinally(w) \/ SearchRestore(w)
           \/ SearchUnmark(w) \/ SearchDone(w)
           \/ QuitJoin(w) \/ QuitClose(w) \/ QuitSignal(w) \/ QuitLock(w) \/ QuitStop(w)
           \/ Exit(w)

Next == \/ \E w \in Worker : Handler(w) \/ Work(w)
        \/ SearchStop \/ AdoptService \/ Crash \/ Boot \/ Die \/ Foreign

Spec == Init /\ [][Next]_vars

(***************************************************************************)
(* Fairness.  Every OS call has a timeout, so a worker that can go on does *)
(* (weak fairness); one that waits for runtime.lock, which has no queue,   *)
(* gets it if it keeps being released (strong fairness).  Nothing is asked *)
(* of the user, of the timers or of processes that may die.                *)
(***************************************************************************)
AwaitsLock(w) == Enter(w) \/ TurnAway(w) \/ SearchLock(w) \/ QuitLock(w)

Fairness == \A w \in Worker : WF_vars(Work(w)) /\ SF_vars(AwaitsLock(w))

FairSpec == Spec /\ Fairness
-----------------------------------------------------------------------------
Operation == {"none", "start", "stop", "stopAll", "install", "remove", "restart", "lists",
              "switch", "search", "restore", "quit", "quitStop", "update"}
WorkStep == {"idle", "enter", "token", "check", "test", "raise", "claim", "spawn", "persist",
             "halt", "decide", "svcOff", "config", "svcOn", "leave", "epilogue", "remove",
             "stopSvc", "stopLocal", "stopLocalErr", "download", "unmark"}
SearchStep == {"begin", "s.look", "s.svcOff", "s.context", "s.halt", "s.trial", "s.spawn", "s.probe",
               "s.exit", "s.lock", "s.fin", "s.restore", "s.unmark", "s.done"}
QuitStep == {"q.close", "q.signal", "q.join", "q.reclose", "q.resignal", "q.lock", "q.stop", "q.exit"}
PC == WorkStep \cup SearchStep \cup QuitStep

Jobs == [op : Operation, pc : PC, k : PC \cup {""}, s : Strategy \cup {None},
         orig : Strategy \cup {None}, oname : Strategy \cup {None},
         own : BOOLEAN, svcWas : BOOLEAN, cut : BOOLEAN,
         n : 0..MaxTrials, complete : BOOLEAN, t : 0..MaxToken]

TypeOK == /\ HostTypeOK /\ RT!TypeOK
          /\ job \in [Worker -> Jobs]
          /\ args \in Strategy \cup {None} /\ name \in Strategy \cup {None}
          /\ cfg \in Strategy /\ marker \in BOOLEAN /\ resume \in Strategy \cup {None}
          /\ up \in BOOLEAN /\ boots \in 0..MaxBoots
          /\ asked \in Strategy \cup {None, "stop"} /\ failed \in BOOLEAN /\ silent \in BOOLEAN

Quiet == up /\ \A w \in Worker : job[w].pc = "idle"

(* The handlers and workers use the controller only the way RuntimeController
   says, so that what is proved of it holds of them; only a new instance of the
   program starts with a new controller (zapret_app.pyw:150). *)
FollowsProtocol == [][RT!Next \/ (~up /\ up')]_ctl

(* A winws started by the program is always one it can stop: no step drops the
   last reference to a live process, not even one that failed to stop it
   (zapret_app.pyw:1774-1780, 1803-1822). *)
NoOrphan == \A p \in Pid : Alive(p) => p \in {proc, trial}

(* When everything has come to rest and the user's last command was to stop,
   nothing the program manages runs, whatever was started, restarted, measured
   or restored before and after the click, unless an error was shown. *)
StopIsHonoured == Quiet /\ asked = "stop" /\ ~failed => ~Managed

(* When everything has come to rest and the user's last command was to run a
   strategy, that strategy runs, unless an error was shown.  A click on "last working
   strategy" may also fail without a word (3201, 3215): then the strategy does not run,
   but the bypass is still wanted, and the watchdog, which goes by that, restarts it. *)
RunIsHonoured == Quiet /\ asked \in Strategy /\ ~failed =>
                    \/ ProcAlive /\ win[proc] = asked
                    \/ SvcRunning /\ svcRuns = asked
                    \/ silent /\ desired # "stopped"

(* The service and a winws of the program never run side by side: two copies
   would divert the same packets. *)
OneEngine == ~(SvcRunning /\ \E p \in Pid : Alive(p))

(* A strategy under trial is measured alone: with another engine running, the
   rating would be that of both (zapret_app.pyw:2976-2986). *)
CleanMeasurement == \A w \in Worker : job[w].pc = "s.probe" /\ ~failed =>
                        ~Managed /\ \A p \in Pid : Alive(p) => p = trial

(* A search that was not superseded leaves the bypass as it found it: the service
   running, or our winws with the strategy it ran, cancelled or not. *)
Restored(w) == /\ job[w].svcWas => SvcRunning
               /\ job[w].own /\ ~job[w].svcWas => ProcAlive /\ win[proc] = job[w].orig
SearchRestores == \A w \in Worker : job[w].pc = "s.done" /\ RT!Valid(tok[w]) /\ ~failed
                                        /\ owner = NoWorker => Restored(w)

(* The note that a search stopped the service is on disk before the service stops,
   and is erased only when the service runs again or the user wants no bypass:
   a crash at any point loses neither (zapret_app.pyw:2981-2983, 3045-3048). *)
ServiceIsRemembered ==
    [][/\ SvcRunning /\ svc' = "stopped" /\ (\E w \in Worker : at[w] = "inside" /\ job[w].op = "search")
             => marker
       /\ marker /\ ~marker' => svc' = "running" \/ asked = "stop"]_vars

(* When the process is about to exit after "stop at exit" or for an update, no
   winws of its own is alive, also when a search or a start was under way. *)
QuitStopsAll == \A w \in Worker : At(w, "q.exit") /\ job[w].op # "quit" /\ ~failed =>
                    \A p \in Pid : ~Alive(p)

(* An exit that keeps the bypass lets a search that was under way put back what it
   had stopped before the controller is closed (zapret_app.pyw:3238, 3243-3246). *)
QuitKeeps == \A v, w \in Worker : At(w, "q.exit") /\ job[w].op = "quit" /\ ~failed
                                    /\ At(v, "s.done") /\ tok[v] = cur /\ tok[v] <= job[w].t
                                        => Restored(v)

(* What the user chose for the bypass when leaving is what becomes of it. *)
ExitIsHonoured == QuitStopsAll /\ QuitKeeps

(* An operation never hangs: neither on the lock nor on a thread it waits for. *)
EveryOperationEnds == \A w \in Worker : job[w].pc # "idle" ~> job[w].pc = "idle"

(* The exit the user chose happens: the cleanup thread joins the search and takes
   the lock, and neither waits for it (zapret_app.pyw:3240-3268). *)
QuitTerminates == ui.closing ~> ~up
=============================================================================
