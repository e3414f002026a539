------------------------------ MODULE Recovery ------------------------------
(***************************************************************************)
(* The watchdog thread of zapret_app.pyw and what it does about a bypass   *)
(* that died or stopped helping: three delayed restarts, or a walk through *)
(* the recovery pool that keeps a strategy which works for every service   *)
(* and otherwise puts the original one back.  It shares the controller     *)
(* with the user's commands, and the health check with the UI thread.      *)
(*                                                                         *)
(* The bypass is the strategy that runs, and whether as the service.       *)
(***************************************************************************)
EXTENDS Naturals, SequencesExt, Listing

CONSTANTS Dog, User,   \* the watchdog thread; the worker of the user's commands
          NoWorker, MaxToken,
          Strategy, None,
          Pool,        \* cfg["recovery_pool"]: a sequence of strategies
          Service,     \* cfg["recovery_services"]
          Booted,      \* how the bypass was started: "manual", "service" or either
          MaxEvents    \* bound: commands, health checks, deaths and failures of the
                       \* bypass, and changes of network, together

ASSUME RecoveryAssumption ==
          /\ Dog # User /\ NoWorker \notin {Dog, User} /\ MaxToken \in Nat /\ MaxEvents \in Nat
          /\ Pool \in Seq(Strategy) /\ Pool # <<>> /\ Booted \subseteq {"manual", "service"}
          /\ None \notin Strategy /\ {"stop", "refused"} \cap (Strategy \cup {None}) = {}

Threshold == 2   \* WATCHDOG_FAIL_THRESHOLD
Delays    == 3   \* 5, 15 and 45 seconds

VARIABLES cur, signalled, closed, desired, owner, busy, tok, at, entered

RT == INSTANCE RuntimeController WITH Worker <- {Dog, User}
ctl == <<cur, signalled, closed, desired, owner, busy, tok, at, entered>>

VARIABLES runs,       \* the strategy the bypass runs with, or None
          asService,  \* what runs is the service
          installed,  \* the strategy in the service's command line
          active,     \* self.active_args and active_preset_name
          saved,      \* cfg["strategy"]
          job,        \* the user's command: "stop", a strategy to start, or None
          stopped,    \* history: the last command was to stop
          net,        \* the default route
          overtaken,  \* history: a start was served since the recovery began
          events      \* history: what MaxEvents bounds
bypass == <<runs, asService, installed, active, saved, job, stopped, overtaken, net, events>>

VARIABLES pc,         \* where the watchdog is
          outcome,    \* how the last restart or switch left the lock
          sw,         \* its recovery switches strategies (or restarts)
          goal,       \* the strategy it is switching to
          undo,       \* it is switching back
          offline,    \* the measurement found no network at all
          cands,      \* the candidates not tried yet
          orig,       \* the strategy before the recovery
          delay       \* how many delayed restarts were begun
walk == <<outcome, sw, goal, undo, offline, cands, orig, delay>>

VARIABLES failures, healthy, episode, known, \* locals of _watchdog_loop
          tried,      \* self._recovery_failed
          exhausted,  \* self._restart_exhausted
          recBusy,    \* self._recovery_busy
          fruitless   \* history: delayed restarts that failed in a row, this token
count == <<failures, healthy, episode, known>>
memory == <<tried, exhausted, recBusy, fruitless>>

VARIABLES posted,     \* _invalidate_health was posted to the UI thread and did not run yet
          health,     \* self._health_state
          hbusy, htok \* self._health_busy, self._health_token
ui == <<posted, health, hbusy, htok>>

vars == <<ctl, bypass, pc, walk, count, memory, ui>>
-----------------------------------------------------------------------------
Happens == events < MaxEvents /\ events' = events + 1

Mine == tok[Dog]
Live == RT!Valid(Mine)

(* The program some time after a start: our process, or the service, runs. *)
Init == /\ cur = 0 /\ signalled = {} /\ closed = FALSE
        /\ desired \in Booted
        /\ owner = NoWorker /\ busy = FALSE /\ entered = 0
        /\ tok = [w \in {Dog, User} |-> 0] /\ at = [w \in {Dog, User} |-> "idle"]
        /\ runs = Pool[1] /\ asService = (desired = "service") /\ saved = runs /\ active = runs
        /\ installed = IF desired = "service" THEN runs ELSE None
        /\ job = None /\ stopped = FALSE /\ overtaken = FALSE /\ net = 0 /\ events = 0
        /\ pc = "loop" /\ outcome = "none" /\ sw = FALSE /\ goal = None /\ undo = FALSE /\ offline = FALSE
        /\ cands = <<>> /\ orig = None /\ delay = 0
        /\ failures = [s \in Service |-> 0] /\ healthy = 0 /\ episode = 0 /\ known = None
        /\ tried = {} /\ exhausted = None /\ recBusy = FALSE /\ fruitless = 0
        /\ posted = FALSE /\ health = "unknown" /\ hbusy = FALSE /\ htok = 0

-----------------------------------------------------------------------------
(* The loop.  A token that is not the episode's starts the counters afresh. *)
Forget == failures' = [s \in Service |-> 0] /\ healthy' = 0

Begin == /\ pc = "loop" /\ ~closed
         /\ RT!Capture(Dog)
         /\ \/ cur = episode /\ UNCHANGED <<failures, healthy>>
            \/ cur # episode /\ Forget
         /\ episode' = cur
         /\ fruitless' = IF cur = episode THEN fruitless ELSE 0
         /\ pc' = "sleep"
         /\ UNCHANGED <<bypass, walk, known, tried, exhausted, recBusy, ui>>

(* "continue": back to the head of the loop, with nothing but the counters. *)
Continue == pc' = "loop" /\ RT!Drop(Dog)

(* wait(token, WATCHDOG_INTERVAL), then the flags: runtime.busy and _stop_busy say
   that somebody else is changing the bypass.  Callbacks wait less than 45 seconds. *)
Sleep == /\ pc = "sleep" /\ ~posted
         /\ \/ (~Live \/ (~busy /\ job # "stop" /\ desired = "stopped"))
               /\ Continue /\ UNCHANGED <<failures, healthy>>
            \/ Live /\ (busy \/ job = "stop") /\ Forget /\ Continue
            \/ /\ Live /\ ~busy /\ job # "stop" /\ desired # "stopped"
               /\ pc' = "look" /\ UNCHANGED <<ctl, failures, healthy>>
         /\ UNCHANGED <<bypass, walk, episode, known, memory, ui>>

(* The first look only remembers the network. *)
LookNetwork == /\ pc = "look" /\ known \in {None, net}
               /\ known' = net /\ pc' = "managed"
               /\ UNCHANGED <<ctl, bypass, walk, failures, healthy, episode, memory, ui>>

(* Another network: the episode starts again under a token of its own, unless
   somebody made a request meanwhile. *)
LookMoved == /\ pc = "look" /\ known \notin {None, net}
             /\ \/ /\ RT!RequestIfCurrent(Dog, desired)
                   /\ posted' = TRUE
                   /\ known' = net /\ tried' = {} /\ Forget /\ episode' = cur + 1
                   /\ fruitless' = 0 /\ pc' = "managed"
                   /\ UNCHANGED <<exhausted, recBusy, health, hbusy, htok>>
                \/ /\ Mine # cur /\ Continue /\ UNCHANGED <<count, memory, ui>>
             /\ UNCHANGED <<bypass, walk>>

(* Mutant: health checks are not put off. *)
RecoverOpenly(switch) == /\ sw' = switch /\ posted' = TRUE /\ pc' = "recover"
                         /\ UNCHANGED <<recBusy, outcome, goal, undo, offline, cands, orig, delay,
                                        health, hbusy, htok>>

(* _recover: health checks are put off until it is over. *)
Recover(switch) == /\ recBusy' = TRUE /\ sw' = switch
                   /\ posted' = TRUE /\ pc' = "recover"
                   /\ UNCHANGED <<outcome, goal, undo, offline, cands, orig, delay, health, hbusy, htok>>

(* Mutant: a bypass that died is taken for one that was stopped. *)
ManagedPassively == /\ pc = "managed"
                    /\ \/ runs = None /\ Continue
                       \/ runs # None /\ pc' = "probe" /\ UNCHANGED ctl
                    /\ UNCHANGED <<walk, ui, bypass, count, memory>>

Managed == /\ pc = "managed"
           /\ \/ runs = None /\ Recover(FALSE)
              \/ runs # None /\ pc' = "probe" /\ UNCHANGED <<walk, recBusy, ui>>
           /\ UNCHANGED <<ctl, bypass, count, tried, exhausted, fruitless>>

Counts(ok) == [s \in Service |->
                 IF s \in ok THEN 0 ELSE IF failures[s] < Threshold THEN failures[s] + 1 ELSE Threshold]

(* check_hosts has answered for the services in ok; when nobody answers and
   the controls do not either, the network is gone and nothing is tried. *)
Probed(ok) ==
    LET fails == Counts(ok)
        late  == \E s \in Service : fails[s] = Threshold
    IN /\ failures' = fails
       /\ healthy' = IF ok = Service THEN 1 ELSE 0
       /\ tried' = IF ok = Service /\ healthy = 1 THEN {} ELSE tried
       /\ \/ late /\ Recover(TRUE) /\ UNCHANGED ctl
          \/ (~late \/ ok = {}) /\ Continue /\ UNCHANGED <<walk, recBusy, ui>>
       /\ UNCHANGED <<bypass, episode, known, exhausted, fruitless>>

Probe == /\ pc = "probe"
         /\ \/ Live /\ \E ok \in SUBSET Service : Probed(ok)
            \/ ~Live /\ Continue /\ UNCHANGED <<bypass, walk, count, memory, ui>>
-----------------------------------------------------------------------------
(* The end of _recover, however it is reached: health checks again, and the
   counters of a switch that raised no error start afresh. *)
Over == /\ recBusy' = FALSE /\ Continue
        /\ failures' = IF sw /\ pc # "raised" THEN [s \in Service |-> 0] ELSE failures
        /\ overtaken' = FALSE /\ outcome' = "none" /\ sw' = FALSE /\ goal' = None /\ undo' = FALSE /\ offline' = FALSE
        /\ cands' = <<>> /\ orig' = None /\ delay' = 0
        /\ UNCHANGED <<runs, asService, installed, active, saved, job, stopped, net, events, healthy, episode, known, tried, exhausted, fruitless, ui>>

Finish == pc \in {"over", "raised"} /\ Over

Spent == ~sw /\ exhausted = Mine

(* active_preset_name or cfg.get("strategy"): the strategy in use. *)
Original == IF active = None THEN saved ELSE active

Impl == /\ pc = "recover"
        /\ \/ (desired = "stopped" \/ ~Live \/ Spent) /\ Over
           \/ /\ desired # "stopped" /\ Live /\ ~Spent
              /\ orig' = Original
              /\ cands' = Kept(Pool, Strategy \ ({orig'} \cup tried))
              /\ delay' = 0 /\ undo' = FALSE /\ offline' = FALSE
              /\ pc' = IF sw THEN "pick" ELSE "delay"
              /\ UNCHANGED <<ctl, bypass, outcome, sw, goal, count, memory, ui>>

Pick == /\ pc = "pick"
        /\ \/ (~Live \/ cands = <<>>) /\ Over
           \/ /\ Live /\ cands # <<>>
              /\ goal' = Head(cands) /\ cands' = Tail(cands) /\ undo' = FALSE
              /\ pc' = "enter"
              /\ UNCHANGED <<ctl, bypass, outcome, sw, offline, orig, delay, count, memory, ui>>

(* Mutant: nobody writes down that the attempts are over. *)
DelayAgain == /\ pc = "delay" /\ Live /\ delay' = delay + 1 /\ pc' = "enter"
              /\ UNCHANGED <<ctl, bypass, outcome, sw, goal, undo, offline, cands, orig, count, memory, ui>>

(* The fourth time there is no delay left: this token's restarts are over. *)
Delay == /\ pc = "delay"
         /\ \/ ~Live /\ Over
            \/ /\ Live /\ delay < Delays
               /\ delay' = delay + 1 /\ pc' = "enter"
               /\ UNCHANGED <<ctl, bypass, outcome, sw, goal, undo, offline, cands, orig, count, memory, ui>>
            \/ /\ Live /\ delay = Delays
               /\ exhausted' = Mine /\ pc' = "over"
               /\ UNCHANGED <<ctl, bypass, walk, count, tried, recBusy, fruitless, ui>>
-----------------------------------------------------------------------------
(* The strategy to run: again, back to, or for a trial. *)
Target == IF ~sw THEN IF desired = "service" THEN installed ELSE active
          ELSE IF undo THEN orig ELSE goal

(* Mutant: the token is the current one, as when the callers do not pass theirs. *)
EnterAfresh == /\ pc = "enter" /\ owner = NoWorker
               /\ owner' = Dog /\ busy' = TRUE /\ at' = [at EXCEPT ![Dog] = "inside"]
               /\ tok' = [tok EXCEPT ![Dog] = cur] /\ entered' = cur /\ pc' = "halt"
               /\ UNCHANGED <<cur, signalled, closed, desired, bypass, walk, count, memory, ui>>

(* _watchdog_restart and _switch_to take the lock; a switch looks at the wanted
   mode before, and drops the health answer. *)
Enter == /\ pc = "enter"
         /\ \/ /\ sw /\ desired = "stopped" /\ outcome' = "error"
               /\ pc' = (IF undo THEN "raised" ELSE "finally")
               /\ UNCHANGED <<ctl, posted>>
            \/ /\ ~(sw /\ desired = "stopped")
               /\ \/ RT!Enter(Dog) /\ pc' = "halt"
                  \/ owner = NoWorker /\ ~Live /\ pc' = "over" /\ UNCHANGED ctl
               /\ IF sw THEN posted' = TRUE ELSE UNCHANGED posted
               /\ UNCHANGED outcome
         /\ UNCHANGED <<bypass, sw, goal, undo, offline, cands, orig, delay, count, memory,
                        health, hbusy, htok>>

LeaveWith(o) == /\ RT!Leave(Dog) /\ outcome' = o /\ pc' = "settle"
                /\ UNCHANGED <<sw, goal, undo, offline, cands, orig, delay>>

Halt == /\ pc = "halt"
        /\ \/ /\ ~sw /\ (desired = "stopped" \/ Target = None)
              /\ LeaveWith("error") /\ UNCHANGED <<runs, asService>>
           \/ /\ sw \/ (desired # "stopped" /\ Target # None)
              /\ runs' = None /\ asService' = FALSE /\ pc' = "spawn" /\ UNCHANGED <<ctl, walk>>
        /\ UNCHANGED <<installed, active, saved, job, stopped, overtaken, net, events, count, memory, ui>>

(* The new process, or the service with its new command line; an installation
   that fails may have changed the command line. *)
Spawn == /\ pc = "spawn"
         /\ \/ ~Live /\ LeaveWith("superseded") /\ UNCHANGED bypass
            \/ /\ Live /\ LeaveWith("spawned")
               /\ runs' = Target /\ asService' = (desired = "service")
               /\ active' = IF sw \/ desired # "service" THEN Target ELSE active
               /\ installed' = IF desired = "service" THEN Target ELSE installed
               /\ UNCHANGED <<saved, job, stopped, overtaken, net, events>>
            \/ /\ Live /\ LeaveWith("error")
               /\ Happens
               /\ installed' \in {installed} \cup IF desired = "service" THEN {Target} ELSE {}
               /\ UNCHANGED <<runs, asService, active, saved, job, stopped, overtaken, net>>
         /\ UNCHANGED <<count, memory, ui>>

(* wait(token, FULL_WAIT), and is it still running?  A request that came after the
   spawn is seen by the check inside the lock, or by the wait outside it. *)
Up      == outcome = "spawned" /\ Live /\ runs # None
CutShort == outcome = "superseded" \/ (outcome = "spawned" /\ ~Live)

(* Mutant: whatever is switched back from is blacklisted. *)
BlamedAnyway == IF sw /\ undo THEN {goal} ELSE {}

Blamed == IF sw /\ undo /\ ~offline THEN {goal} ELSE {}

Settle ==
    /\ pc = "settle" /\ RT!Rearm(Dog)
    /\ \/ CutShort /\ pc' = "over" /\ UNCHANGED <<fruitless, offline, tried>>
       \/ /\ outcome # "superseded" /\ ~Up
          /\ IF sw THEN /\ pc' = (IF undo THEN "raised" ELSE "finally")
                        /\ UNCHANGED <<fruitless, offline, tried>>
                   ELSE /\ pc' = "delay" /\ fruitless' = fruitless + (IF Live THEN 1 ELSE 0)
                        /\ UNCHANGED <<offline, tried>>
       \/ /\ Up
          /\ pc' = IF ~sw THEN "verify" ELSE IF ~undo THEN "measure"
                   ELSE IF offline THEN "over" ELSE "pick"
          /\ tried' = tried \cup Blamed
          /\ UNCHANGED <<fruitless, offline>>
    /\ UNCHANGED <<bypass, outcome, sw, goal, undo, cands, orig, delay, count, exhausted, recBusy, ui>>

(* The restart helped when every host of the services answers. *)
Verify == /\ pc = "verify"
          /\ \/ ~Live /\ pc' = "over" /\ UNCHANGED fruitless
             \/ Live /\ runs # None /\ pc' = "over" /\ fruitless' = 0
             \/ Live /\ pc' = "delay" /\ fruitless' = fruitless + 1
          /\ UNCHANGED <<ctl, bypass, walk, count, tried, exhausted, recBusy, ui>>

(* Three samples of every host; when not one succeeds, the controls decide
   between a bad strategy and a lost network. *)
Measure == /\ pc = "measure"
           /\ \/ ~Live /\ pc' = "over" /\ UNCHANGED offline
              \/ Live /\ pc' = "finally" /\ offline' \in BOOLEAN
              \/ Live /\ runs # None /\ pc' = "commit" /\ UNCHANGED offline
           /\ UNCHANGED <<ctl, bypass, outcome, sw, goal, undo, cands, orig, delay, count, memory, ui>>

(* Mutant: the strategy is used and not written down. *)
CommitUnsaved == pc = "commit" /\ pc' = "over" /\ UNCHANGED <<ctl, bypass, walk, count, memory, ui>>

(* The strategy is kept; the token is not looked at again. *)
Commit == /\ pc = "commit" /\ saved' = goal /\ pc' = "over"
          /\ UNCHANGED <<ctl, runs, asService, installed, active, job, stopped, overtaken, net, events,
                         walk, count, memory, ui>>

(* Mutant: a candidate is undone only when the network is gone. *)
FinallyNext == /\ pc = "finally"
               /\ \/ Live /\ offline /\ undo' = TRUE /\ pc' = "enter" /\ UNCHANGED tried
                  \/ ~Live /\ offline /\ pc' = "over" /\ UNCHANGED <<undo, tried>>
                  \/ ~offline /\ tried' = tried \cup {goal} /\ pc' = "pick" /\ UNCHANGED undo
               /\ UNCHANGED <<ctl, bypass, outcome, sw, goal, offline, cands, orig, delay, count,
                              exhausted, recBusy, fruitless, ui>>

(* finally: back to the original strategy, unless somebody took over. *)
Finally == /\ pc = "finally"
           /\ \/ Live /\ undo' = TRUE /\ pc' = "enter" /\ UNCHANGED tried
              \/ ~Live /\ offline /\ pc' = "over" /\ UNCHANGED <<undo, tried>>
              \/ ~Live /\ ~offline /\ tried' = tried \cup {goal} /\ pc' = "pick" /\ UNCHANGED undo
           /\ UNCHANGED <<ctl, bypass, outcome, sw, goal, offline, cands, orig, delay, count,
                          exhausted, recBusy, fruitless, ui>>

DogStep == \/ Begin \/ Sleep \/ LookNetwork \/ LookMoved \/ Managed
           \/ Probe \/ Impl \/ Pick \/ Delay \/ Enter \/ Halt \/ Spawn \/ Settle \/ Verify
           \/ Measure \/ Commit \/ Finally \/ Finish
-----------------------------------------------------------------------------
(* The user's commands: one at a time here, the watchdog is the other actor. *)
UserStart(s) == /\ job = None /\ (runs = None \/ asService) /\ Happens
                /\ RT!Request(User, "manual")
                /\ job' = s /\ stopped' = FALSE /\ tried' = {} /\ health' = "stale"
                /\ UNCHANGED <<runs, asService, installed, active, saved, overtaken, net, exhausted,
                               recBusy, fruitless, posted, hbusy, htok>>

UserStop == /\ job = None /\ Happens
            /\ RT!Request(User, "stopped")
            /\ job' = "stop" /\ stopped' = TRUE /\ health' = "stale"
            /\ UNCHANGED <<runs, asService, installed, active, saved, overtaken, net, memory, posted,
                           hbusy, htok>>

UserEnter == RT!Enter(User) /\ UNCHANGED <<bypass, memory, ui>>

UserRefused == /\ RT!Refuse(User) /\ job' = None
               /\ UNCHANGED <<runs, asService, installed, active, saved, stopped, overtaken, net, events, memory, ui>>

StopServed == /\ job = "stop" /\ at[User] = "inside" /\ RT!Leave(User)
              /\ runs' = None /\ asService' = FALSE /\ active' = None /\ job' = None
              /\ UNCHANGED <<installed, saved, stopped, overtaken, net, events, memory, ui>>

(* Something runs already: the mode becomes what runs. *)
StartRefused == /\ job \in Strategy /\ at[User] = "inside" /\ runs # None
                /\ RT!SetDesired(User, IF asService THEN "service" ELSE "stopped")
                /\ job' = "refused"
                /\ UNCHANGED <<runs, asService, installed, active, saved, stopped, overtaken, net, events, memory, ui>>

StartLeft == /\ job = "refused" /\ RT!Leave(User) /\ job' = None
             /\ UNCHANGED <<runs, asService, installed, active, saved, stopped, overtaken, net, events, memory, ui>>

StartServed == /\ job \in Strategy /\ at[User] = "inside" /\ runs = None
               /\ RT!Leave(User) /\ job' = None /\ overtaken' = recBusy
               /\ active' = job
               /\ \/ /\ runs' = job /\ saved' = job /\ asService' = FALSE /\ UNCHANGED events
                  \/ /\ Happens
                     /\ UNCHANGED <<runs, saved, asService>>
               /\ UNCHANGED <<installed, stopped, net, memory, ui>>

UserStep == UserEnter \/ UserRefused \/ StopServed \/ StartRefused \/ StartLeft \/ StartServed
-----------------------------------------------------------------------------
(* on_health_check, from the 20-second timer, the button, or a callback posted at
   the end of an operation: it can come at any time. *)
Check == /\ ~hbusy /\ ~closed /\ job # "stop" /\ ~busy /\ ~recBusy
         /\ hbusy' = TRUE /\ htok' = cur /\ health' = "checking"
         /\ UNCHANGED posted

(* Mutant of _finish_health: the token of the check is not compared. *)
ShowsAnyAnswer(ok) == IF busy \/ recBusy THEN "stale" ELSE IF ok THEN "ready" ELSE "failed"

Shown(ok) == IF ~RT!Valid(htok) \/ busy \/ recBusy THEN "stale" ELSE IF ok THEN "ready" ELSE "failed"

(* The health worker's answer, or its error, reaches the UI thread. *)
FinishHealth(ok) == /\ hbusy /\ hbusy' = FALSE /\ health' = Shown(ok)
                    /\ UNCHANGED <<posted, htok>>

Invalidate == /\ posted /\ posted' = FALSE /\ health' = "stale" /\ UNCHANGED <<hbusy, htok>>

HealthStep == Invalidate \/ \E ok \in BOOLEAN : FinishHealth(ok)
-----------------------------------------------------------------------------
(* The world: the bypass dies, the network changes. *)
Die == /\ runs # None /\ runs' = None /\ asService' = FALSE
       /\ UNCHANGED <<installed, active, saved, job, stopped, overtaken, net>>
NetChange == /\ net' = net + 1
             /\ UNCHANGED <<runs, asService, installed, active, saved, job, stopped, overtaken>>

Next == \/ DogStep
        \/ /\ UserStop \/ UserStep \/ \E s \in Strategy : UserStart(s)
           /\ UNCHANGED <<pc, walk, count>>
        \/ HealthStep /\ UNCHANGED <<ctl, bypass, pc, walk, count, memory>>
        \/ /\ Check /\ Happens
           /\ UNCHANGED <<ctl, runs, asService, installed, active, saved, job, stopped, overtaken, net, pc,
                          walk, count, memory>>
        \/ (Die \/ NetChange) /\ Happens /\ UNCHANGED <<ctl, pc, walk, count, memory, ui>>

Spec == Init /\ [][Next]_vars

(* Threads are scheduled, check_hosts and OS calls have timeouts, Tk runs what was
   posted.  The lock is free again and again: the user makes few requests. *)
Fairness == /\ WF_vars(DogStep)
            /\ WF_vars(UserStep /\ UNCHANGED <<pc, walk, count>>)
            /\ WF_vars(HealthStep /\ UNCHANGED <<ctl, bypass, pc, walk, count, memory>>)
FairSpec == Spec /\ Fairness
-----------------------------------------------------------------------------
DogPlace == {"loop", "sleep", "look", "managed", "probe", "recover", "pick", "delay", "enter",
             "halt", "spawn", "settle", "verify", "measure", "commit", "finally", "over", "raised"}
Some == Strategy \cup {None}

(* Types; and recovery_busy, which keeps health checks away, is up exactly while the
   watchdog is in _recover (2050-2057). *)
RecoveryTypeOK == /\ RT!TypeOK
                  /\ runs \in Some /\ installed \in Some /\ active \in Some /\ saved \in Some
                  /\ goal \in Some /\ orig \in Some /\ cands \in Seq(Strategy)
                  /\ job \in Some \cup {"stop", "refused"} /\ pc \in DogPlace
                  /\ failures \in [Service -> 0..Threshold] /\ healthy \in 0..1
                  /\ delay \in Nat /\ fruitless \in Nat /\ tried \subseteq Strategy
                  /\ exhausted \in Nat \cup {None}
                  /\ recBusy <=> pc \notin {"loop", "sleep", "look", "managed", "probe"}

(* Once a stop was served the bypass does not run, wherever in a restart, a trial of a
   candidate or a rollback the watchdog was (docs/VALIDATION-2.44.0.md:15). *)
StopSurvivesRecovery == stopped /\ job = None => runs = None

(* A switch that nobody interrupted ends with the strategy it began with, or with the
   one it saved: finally (2100-2103) undoes a candidate on every path that does not
   commit.  The original is back before the next candidate and when there is none left,
   which is the end of a walk in vain (2105); "over" is the end after a commit or without
   a network.  "raised" is the failed rollback, which is reported. *)
CommitsOrRollsBack == sw /\ Live /\ ~overtaken => /\ (pc = "pick" => Original = orig)
                                                 /\ (pc = "over" => active \in {orig, saved})

(* A lost network blacklists nobody: a candidate whose measurement found neither the
   services nor the controls stays in the pool (2083-2088). *)
OfflineBlacklistsNobody == [][offline => tried' \subseteq tried]_vars

(* The bypass is restarted in vain at most three times in a row under one token,
   however often the watchdog comes round (2107-2120). *)
BoundedRetries == fruitless <= Delays

(* What the health page shows as measured was measured under the present request, or
   the callback that takes it back is waiting (2430-2438). *)
HealthIsCurrent == health = "ready" => htok = cur \/ posted

(* A bypass that is wanted and died comes back, or three attempts were made, or the
   user was heard: no path of the watchdog forgets it. *)
DeadBypassIsRetried == (desired # "stopped" /\ runs = None) ~>
                       (desired = "stopped" \/ runs # None \/ exhausted = cur)
=============================================================================
