------------------------ MODULE BypassControl_proofs ------------------------
(***************************************************************************)
(* Proofs about BypassControl, for every set of operations, faults,        *)
(* workers, strategies and bounds.                                         *)
(*                                                                         *)
(* - The handlers and workers use the runtime controller only as           *)
(*   RuntimeController says, so what RuntimeController_proofs shows of the *)
(*   controller by itself holds while the program runs, crashes and starts *)
(*   again (Protocol, ProgramSerialised, ProgramWakesSuperseded).          *)
(* - Control says which steps belong to which operation and where the      *)
(*   controller has the worker at each of them; with the types of the data *)
(*   it is the inductive invariant BaseInv that everything else rests on   *)
(*   (TypesHold).                                                          *)
(* - On top of BaseInv: no live process is forgotten (NothingIsOrphaned),  *)
(*   the note of a stopped service outlives its search (NoteIsKept), a     *)
(*   stop is obeyed whatever else goes on (StopsAreObeyed, by StopInv),    *)
(*   the service and a winws never run together (NeverTwoEngines, by       *)
(*   EngineInv), and the last command to run something is obeyed           *)
(*   (RunsAreObeyed, by RunInv).                                           *)
(***************************************************************************)
EXTENDS BypassControl, TLAPS

P == INSTANCE RuntimeController_proofs

(* A step of the program, seen by the controller. *)
CtlStep == RT!Next \/ UNCHANGED ctl

(* The operations of the controller, one name each. *)
LEMMA Operations ==
    ASSUME NEW w \in Worker
    PROVE  /\ RT!Capture(w) \/ RT!Rearm(w) \/ RT!Drop(w) \/ RT!Enter(w) \/ RT!Refuse(w) => RT!Next
           /\ RT!Lock(w) \/ RT!Admit(w) \/ RT!Leave(w) => RT!Next
           /\ RT!CloseFlag(w) \/ RT!CloseSignal(w) => RT!Next
           /\ \A d \in RT!Mode : RT!Request(w, d) \/ RT!RequestIfCurrent(w, d)
                                   \/ RT!SetDesired(w, d) => RT!Next
BY DEF RT!Next, RT!Step

LEMMA Announcing == \A d \in RT!Mode : RT!Announce(d) => RT!Next
BY DEF RT!Next

(* A click, or a timer, is one operation of the controller or none. *)
LEMMA HandlerProtocol ==
    ASSUME desired \in RT!Mode, NEW w \in Worker, Handler(w) PROVE CtlStep
<1> USE Operations, Announcing DEF CtlStep
<1>0. /\ "manual" \in RT!Mode /\ "service" \in RT!Mode /\ "stopped" \in RT!Mode
      /\ (IF SvcRunning THEN "service" ELSE "manual") \in RT!Mode
  BY DEF RT!Mode
<1>1. ASSUME NEW s \in Strategy, Start(w, s) \/ Install(w, s) \/ RestoreLast(w, s) PROVE CtlStep
  BY <1>0, <1>1 DEF Start, StartWith, Install, RestoreLast
<1>2. ASSUME NEW op, Stop(w, op) PROVE CtlStep
  BY <1>0, <1>2 DEF Stop
<1>3. CASE Remove(w) \/ DiagRestart(w) \/ Toggle(w) \/ Lists(w)
  BY <1>0, <1>3 DEF Remove, DiagRestart, Toggle, Lists
<1>4. CASE Search(w) \/ SimpleFix(w)
  BY <1>4 DEF Search, SimpleFix, BeginSearch
<1>5. ASSUME NEW b, Quit(w, b) PROVE CtlStep
  BY <1>0, <1>5 DEF Quit
<1>6. CASE QuitForUpdate(w)
  BY <1>6 DEF QuitForUpdate
<1>7. CASE StartupRestore(w) \/ StartupResume(w)
  BY <1>0, <1>7 DEF StartupRestore, StartupResume, StartWith
<1> QED BY <1>1, <1>2, <1>3, <1>4, <1>5, <1>6, <1>7 DEF Handler

(* So is a step of a worker thread. *)
LEMMA WorkProtocol ==
    ASSUME desired \in RT!Mode, NEW w \in Worker, Work(w) PROVE CtlStep
<1> USE Operations DEF CtlStep, Ends, Errs
<1>0. /\ "manual" \in RT!Mode
      /\ (IF SvcRunning THEN "service" ELSE "stopped") \in RT!Mode
  BY DEF RT!Mode
<1>1. CASE TakeToken(w) \/ Enter(w) \/ TurnAway(w) \/ Check(w)
  BY <1>1 DEF TakeToken, Enter, TurnAway, Check
<1>2. CASE StartTest(w) \/ Raise(w) \/ Claim(w) \/ Persist(w)
  BY <1>0, <1>2 DEF StartTest, Raise, Claim, Persist
<1>3. CASE Spawn(w)
  BY <1>3 DEF Spawn
<1>4. CASE HaltLocal(w) \/ Decide(w) \/ SvcOff(w) \/ SvcConfig(w)
  BY <1>4 DEF HaltLocal, Decide, SvcOff, SvcConfig
<1>5. CASE SvcOn(w)
  BY <1>5 DEF SvcOn
<1>6. CASE InstallLeave(w) \/ InstallEpilogue(w) \/ RemoveService(w) \/ Unmark(w)
  BY <1>6 DEF InstallLeave, InstallEpilogue, RemoveService, Unmark
<1>7. CASE StopService(w) \/ StopLocal(w) \/ ListsDone(w)
  BY <1>7 DEF StopService, StopLocal, ListsDone
<1>8. CASE SearchBegin(w) \/ SearchLook(w) \/ SearchSvcOff(w) \/ SearchContext(w)
             \/ SearchHalt(w) \/ SearchNext(w) \/ SearchSpawn(w) \/ SearchProbe(w)
  BY <1>8 DEF SearchBegin, SearchLook, SearchSvcOff, SearchContext, SearchHalt, SearchNext,
              SearchSpawn, SearchProbe
<1>9. CASE SearchExit(w) \/ SearchLock(w) \/ SearchFinally(w) \/ SearchUnmark(w)
  BY <1>9 DEF SearchExit, SearchLock, SearchFinally, RestoreFails, SearchUnmark
<1>10. CASE SearchRestore(w)
  BY <1>10 DEF SearchRestore, RestoreFails
<1>11. CASE SearchDone(w)
  BY <1>0, <1>11 DEF SearchDone
<1>12. CASE QuitJoin(w) \/ QuitClose(w) \/ QuitSignal(w) \/ QuitLock(w) \/ QuitStop(w)
  BY <1>12 DEF QuitJoin, QuitClose, QuitSignal, QuitLock, QuitStop
<1>13. CASE Exit(w)
  BY <1>13 DEF Exit, Gone
<1> QED BY <1>1, <1>2, <1>3, <1>4, <1>5, <1>6, <1>7, <1>8, <1>9, <1>10, <1>11, <1>12, <1>13
        DEF Work

LEMMA NextProtocol == desired \in RT!Mode /\ Next => CtlStep \/ Boot
<1> SUFFICES ASSUME desired \in RT!Mode, Next PROVE CtlStep \/ Boot
  OBVIOUS
<1>1. ASSUME NEW w \in Worker, Handler(w) PROVE CtlStep
  BY <1>1, HandlerProtocol
<1>2. ASSUME NEW w \in Worker, Work(w) PROVE CtlStep
  BY <1>2, WorkProtocol
<1>3. CASE SearchStop \/ Crash \/ Die \/ Foreign
  BY <1>3 DEF SearchStop, Crash, Gone, Die, Foreign, CtlStep
<1>4. CASE AdoptService
  BY <1>4, Announcing DEF AdoptService, CtlStep, RT!Mode
<1> QED BY <1>1, <1>2, <1>3, <1>4 DEF Next

-----------------------------------------------------------------------------
(* Both instances of the controller are the same formulas. *)
LEMMA SameNext == RT!Next <=> P!Next
BY DEF RT!Supersede, P!Supersede, RT!Request, P!Request, RT!Announce, P!Announce,
       RT!Capture, P!Capture, RT!Rearm, P!Rearm, RT!Drop, P!Drop, RT!RequestIfCurrent,
       P!RequestIfCurrent, RT!Valid, P!Valid, RT!GiveUp, P!GiveUp, RT!Enter, P!Enter,
       RT!Refuse, P!Refuse, RT!Lock, P!Lock, RT!Admit, P!Admit, RT!SetDesired,
       P!SetDesired, RT!Leave, P!Leave, RT!CloseFlag, P!CloseFlag, RT!CloseSignal,
       P!CloseSignal, RT!Step, P!Step, RT!Next, P!Next, RT!Mode, P!Mode, RT!Held,
       P!Held

(* The inductive invariant of the controller, kept across restarts. *)
LEMMA InitialController == Init => P!IInv
BY P!InitIInv, ControllerAssumption DEF Init, CtlInit, RT!Init, P!Init

LEMMA ControllerStep == ASSUME P!IInv, [Next]_vars PROVE P!IInv'
<1>1. desired \in RT!Mode
  BY DEF P!IInv, P!TypeOK, P!Mode, RT!Mode
<1>2. CASE CtlStep
  <2>1. [P!Next]_(P!ctl)
    BY <1>2, SameNext DEF CtlStep, ctl, P!ctl
  <2> QED BY <2>1, P!NextIInv, ControllerAssumption
<1>3. CASE Boot
  <2>1. P!Init'
    BY <1>3 DEF Boot, P!Init
  <2> QED BY <2>1, P!RestartIInv, ControllerAssumption
<1>4. CASE UNCHANGED vars
  BY <1>4 DEF vars, ctl, P!IInv, P!TypeOK, P!LockInv, P!BusyInv, P!TokenInv
<1> QED BY <1>1, <1>2, <1>3, <1>4, NextProtocol

LEMMA ProgramIInv == Spec => []P!IInv
BY InitialController, ControllerStep, PTL DEF Spec

(* The program uses the controller only as RuntimeController says. *)
THEOREM Protocol == Spec => FollowsProtocol
<1>1. P!IInv /\ [Next]_vars => [RT!Next \/ (~up /\ up')]_ctl
  <2> SUFFICES ASSUME P!IInv, [Next]_vars PROVE RT!Next \/ (~up /\ up') \/ UNCHANGED ctl
    OBVIOUS
  <2>1. desired \in RT!Mode
    BY DEF P!IInv, P!TypeOK, P!Mode, RT!Mode
  <2>2. CASE Boot
    BY <2>2 DEF Boot
  <2>3. CASE UNCHANGED vars
    BY <2>3 DEF vars, ctl
  <2> QED BY <2>1, <2>2, <2>3, NextProtocol DEF CtlStep
<1> QED BY <1>1, ProgramIInv, PTL DEF Spec, FollowsProtocol

(* While the program runs, with any workers, faults and restarts, at most one thread
   changes processes or the service. *)
THEOREM ProgramSerialised == Spec => []RT!Serialised
<1>1. P!IInv => RT!Serialised
  BY ControllerAssumption DEF P!IInv, P!LockInv, P!BusyInv, P!Held, RT!Serialised, RT!Held
<1> QED BY <1>1, ProgramIInv, PTL

(* While the program runs, a worker that sleeps on a superseded token is woken. *)
THEOREM ProgramWakesSuperseded == Spec => []RT!StaleTokensSignalled
<1>1. P!IInv => RT!StaleTokensSignalled
  BY ControllerAssumption DEF P!IInv, P!TypeOK, P!TokenInv, RT!StaleTokensSignalled
<1> QED BY <1>1, ProgramIInv, PTL
-----------------------------------------------------------------------------
(* The steps of each operation.  A search passes through the transition and then
   through its "finally"; an exit has steps of its own. *)
Entering == {"start", "stop", "stopAll", "install", "remove", "restart", "switch", "restore", "search"}
AtSearch == {"s.look", "s.svcOff", "s.context", "s.halt", "s.trial", "s.spawn", "s.probe", "s.exit"}
Finally  == {"s.lock", "s.fin", "s.restore", "s.unmark", "s.done"}
Quitting == {"quit", "quitStop", "update"}
AfterCheck == {"claim", "spawn", "persist", "svcOff", "config", "svcOn", "leave", "unmark"}

Does(op, pc) ==
    \/ op = "none" /\ pc = "idle"
    \/ op \in Entering /\ pc = "enter"
    \/ op = "start" /\ pc \in {"test", "raise", "claim", "spawn", "persist"}
    \/ op \in {"stop", "stopAll"} /\ pc \in {"stopSvc", "stopLocal", "stopLocalErr"}
    \/ op = "install" /\ pc \in {"halt", "svcOff", "config", "svcOn", "leave", "epilogue"}
    \/ op = "remove" /\ pc = "remove"
    \/ op = "restart" /\ pc \in {"token", "decide", "halt", "spawn", "svcOff", "svcOn"}
    \/ op = "switch" /\ pc \in {"decide", "halt", "spawn", "svcOff", "config", "svcOn", "persist"}
    \/ op = "restore" /\ pc \in {"svcOn", "unmark"}
    \/ op = "lists" /\ pc = "download"
    \/ op = "search" /\ pc \in {"begin"} \cup AtSearch \cup Finally
    \/ op \in Quitting /\ pc \in QuitStep

(* Where a job is, or goes next when it is at a runtime.check. *)
Going(j) == IF j.pc = "check" THEN j.k ELSE j.pc
(* A job at a step of its operation, with the data that step needs. *)
Fits(op, pc, k, s, n) ==
    /\ Does(op, IF pc = "check" THEN k ELSE pc)
    /\ pc = "check" => k \in AfterCheck
    /\ op \in {"start", "switch", "install"} => s \in Strategy
    /\ pc \in {"s.spawn", "s.probe"} => n < MaxTrials
Sound(j) == Fits(j.op, j.pc, j.k, j.s, j.n)

(* Where the controller has a worker at each step. *)
Outside == {"idle", "token", "epilogue", "s.lock", "s.done", "q.close", "q.join", "q.reclose", "q.lock", "q.exit"}
PlaceOf(pc) == IF pc \in Outside THEN "idle"
               ELSE IF pc \in {"enter", "download", "begin"} THEN "armed"
               ELSE IF pc \in {"q.signal", "q.resignal"} THEN "closing"
               ELSE IF pc \in {"s.fin", "q.stop"} THEN "locked"
               ELSE IF pc \in {"s.restore", "s.unmark"} THEN "admitted" ELSE "inside"

(* The invariant of the control flow. *)
Control == /\ job \in [Worker -> Jobs]
           /\ \A w \in Worker : Sound(job[w])
           /\ IF up THEN \A w \in Worker : at[w] = PlaceOf(job[w].pc)
                    ELSE \A w \in Worker : job[w] = Idle

(* Step effects: the others' jobs stay, and w is at place p of the controller. *)
Alone(w) == \A v \in Worker \ {w} : job'[v] = job[v]
Stands(w, p) == at'[w] = p /\ \A v \in Worker \ {w} : at'[v] = at[v]

(* The names of operations and steps, for the provers that do not enumerate sets. *)
LEMMA Names ==
    /\ "none" \in Operation /\ "start" \in Operation /\ "stop" \in Operation /\ "stopAll" \in Operation
    /\ "install" \in Operation /\ "remove" \in Operation /\ "restart" \in Operation /\ "lists" \in Operation
    /\ "switch" \in Operation /\ "search" \in Operation /\ "restore" \in Operation /\ "quit" \in Operation
    /\ "quitStop" \in Operation /\ "update" \in Operation
    /\ "idle" \in PC /\ "enter" \in PC /\ "token" \in PC /\ "check" \in PC /\ "test" \in PC
    /\ "raise" \in PC /\ "claim" \in PC /\ "spawn" \in PC /\ "persist" \in PC /\ "halt" \in PC
    /\ "decide" \in PC /\ "svcOff" \in PC /\ "config" \in PC /\ "svcOn" \in PC /\ "leave" \in PC
    /\ "epilogue" \in PC /\ "remove" \in PC /\ "stopSvc" \in PC /\ "stopLocal" \in PC /\ "stopLocalErr" \in PC
    /\ "download" \in PC /\ "unmark" \in PC /\ "begin" \in PC /\ "s.look" \in PC /\ "s.svcOff" \in PC
    /\ "s.context" \in PC /\ "s.halt" \in PC /\ "s.trial" \in PC /\ "s.spawn" \in PC /\ "s.probe" \in PC
    /\ "s.exit" \in PC /\ "s.lock" \in PC /\ "s.fin" \in PC /\ "s.restore" \in PC /\ "s.unmark" \in PC
    /\ "s.done" \in PC /\ "q.close" \in PC /\ "q.signal" \in PC /\ "q.join" \in PC /\ "q.reclose" \in PC
    /\ "q.resignal" \in PC /\ "q.lock" \in PC /\ "q.stop" \in PC /\ "q.exit" \in PC
BY DEF Operation, PC, WorkStep, SearchStep, QuitStep

(* The fields of a job that matter to control, after each way of assigning to it. *)
IdleOf(a, b, c, d) == [op |-> "none", pc |-> "idle", k |-> "", s |-> None, orig |-> None,
         oname |-> None, own |-> a, svcWas |-> b, cut |-> c,
         n |-> 0, complete |-> d, t |-> 0]
IsIdle(j) == j \in Jobs /\ j.op = "none" /\ j.pc = "idle" /\ j.n = 0 /\ j.k = ""

LEMMA IdleJob == IsIdle(Idle)
<1>1. \A a, b, c, d \in BOOLEAN : IsIdle(IdleOf(a, b, c, d))
  <2>1. "none" \in Operation /\ "idle" \in PC /\ 0 \in 0..MaxTrials /\ 0 \in 0..MaxToken
    BY Names, OpsAssumption, ControllerAssumption
  <2> QED BY <2>1 DEF IdleOf, Jobs, IsIdle
<1>2. IsIdle(IdleOf(FALSE, FALSE, FALSE, FALSE))
  BY <1>1, Zenon
<1> QED BY <1>2, Zenon DEF Idle, IdleOf

Becomes(w, op, pc, k, s, n) ==
    /\ job' \in [Worker -> Jobs] /\ Alone(w)
    /\ job'[w].op = op /\ job'[w].pc = pc /\ job'[w].k = k /\ job'[w].s = s /\ job'[w].n = n

LooksLike(j, op, pc, k, s, n) ==
    j \in Jobs /\ j.op = op /\ j.pc = pc /\ j.k = k /\ j.s = s /\ j.n = n

LEMMA Puts ==
    ASSUME job \in [Worker -> Jobs], NEW w \in Worker, NEW op, NEW pc, NEW k, NEW s, NEW n,
           NEW j, LooksLike(j, op, pc, k, s, n), job' = [job EXCEPT ![w] = j]
    PROVE  Becomes(w, op, pc, k, s, n)
BY DEF LooksLike, Becomes, Alone

LEMMA Goes ==
    ASSUME job \in [Worker -> Jobs], NEW w \in Worker, NEW pc \in PC
    PROVE  /\ Goto(w, pc) => Becomes(w, job[w].op, pc, job[w].k, job[w].s, job[w].n)
           /\ CheckThen(w, pc) => Becomes(w, job[w].op, "check", pc, job[w].s, job[w].n)
<1>0. job[w] \in Jobs /\ "check" \in PC
  BY Names
<1>1. LooksLike([job[w] EXCEPT !.pc = pc], job[w].op, pc, job[w].k, job[w].s, job[w].n)
  BY <1>0 DEF LooksLike, Jobs
<1>2. LooksLike([job[w] EXCEPT !.pc = "check", !.k = pc], job[w].op, "check", pc, job[w].s, job[w].n)
  BY <1>0 DEF LooksLike, Jobs
<1> QED BY <1>1, <1>2, Puts, Zenon DEF Goto, CheckThen

LEMMA Restarts ==
    ASSUME job \in [Worker -> Jobs], NEW w \in Worker, job' = [job EXCEPT ![w].op = "restart", ![w].pc = "enter"]
    PROVE  Becomes(w, "restart", "enter", job[w].k, job[w].s, job[w].n)
<1>1. LooksLike([job[w] EXCEPT !.op = "restart", !.pc = "enter"], "restart", "enter", job[w].k, job[w].s, job[w].n)
  BY Names DEF LooksLike, Jobs
<1> QED BY <1>1, Puts, Zenon

LEMMA Ceases ==
    ASSUME job \in [Worker -> Jobs], NEW w \in Worker
    PROVE  /\ Finish(w) => Becomes(w, "none", "idle", "", Idle.s, 0)
           /\ job' = [job EXCEPT ![w] = Idle] => Becomes(w, "none", "idle", "", Idle.s, 0)
<1>1. job' = [job EXCEPT ![w] = Idle] => Becomes(w, "none", "idle", "", Idle.s, 0)
  BY IdleJob DEF IsIdle, Becomes, Alone
<1> QED BY <1>1 DEF Finish

LEMMA Begins ==
    ASSUME job \in [Worker -> Jobs], NEW w \in Worker, NEW op \in Operation, NEW pc \in PC,
           NEW s \in Strategy \cup {None}
    PROVE  /\ Begin(w, op, pc, s) => Becomes(w, op, pc, "", s, 0)
           /\ \A t \in 0..MaxToken :
                 job' = [job EXCEPT ![w] = [Idle EXCEPT !.op = op, !.pc = pc, !.t = t]]
                    => Becomes(w, op, pc, "", Idle.s, 0)
           /\ job' = [job EXCEPT ![w] = [Idle EXCEPT !.op = op, !.pc = pc, !.s = s]]
                    => Becomes(w, op, pc, "", s, 0)
           /\ job' = [job EXCEPT ![w] = [Idle EXCEPT !.op = op, !.pc = pc, !.s = s, !.complete = TRUE]]
                    => Becomes(w, op, pc, "", s, 0)
<1>0. LooksLike([Idle EXCEPT !.op = op, !.pc = pc, !.s = s, !.complete = TRUE], op, pc, "", s, 0)
  BY IdleJob DEF IsIdle, LooksLike, Jobs
<1>1. LooksLike([Idle EXCEPT !.op = op, !.pc = pc, !.s = s], op, pc, "", s, 0)
  BY IdleJob DEF IsIdle, LooksLike, Jobs
<1>2. \A t \in 0..MaxToken : LooksLike([Idle EXCEPT !.op = op, !.pc = pc, !.t = t], op, pc, "", Idle.s, 0)
  BY IdleJob DEF IsIdle, LooksLike, Jobs
<1> QED BY <1>0, <1>1, <1>2, Puts, Zenon DEF Begin

LEMMA Records ==
    ASSUME job \in [Worker -> Jobs], NEW w \in Worker, NEW pc \in PC, NEW a \in BOOLEAN, NEW b \in BOOLEAN
    PROVE  /\ job' = [job EXCEPT ![w].pc = pc, ![w].cut = a]
                => Becomes(w, job[w].op, pc, job[w].k, job[w].s, job[w].n)
           /\ job' = [job EXCEPT ![w].pc = pc, ![w].complete = a]
                => Becomes(w, job[w].op, pc, job[w].k, job[w].s, job[w].n)
           /\ job' = [job EXCEPT ![w].pc = pc, ![w].svcWas = a, ![w].own = b]
                => Becomes(w, job[w].op, pc, job[w].k, job[w].s, job[w].n)
<1>0. job[w] \in Jobs
  OBVIOUS
<1>1. LooksLike([job[w] EXCEPT !.pc = pc, !.cut = a], job[w].op, pc, job[w].k, job[w].s, job[w].n)
  BY <1>0 DEF LooksLike, Jobs
<1>2. LooksLike([job[w] EXCEPT !.pc = pc, !.complete = a], job[w].op, pc, job[w].k, job[w].s, job[w].n)
  BY <1>0 DEF LooksLike, Jobs
<1>3. LooksLike([job[w] EXCEPT !.pc = pc, !.svcWas = a, !.own = b],
                job[w].op, pc, job[w].k, job[w].s, job[w].n)
  BY <1>0 DEF LooksLike, Jobs
<1> QED BY <1>1, <1>2, <1>3, Puts, Zenon

(* Where each operation of the controller takes its worker. *)
LEMMA Places ==
    ASSUME at \in [Worker -> RT!Place], NEW w \in Worker
    PROVE  /\ \A m \in RT!Mode : RT!Request(w, m) \/ RT!RequestIfCurrent(w, m) => Stands(w, "armed")
           /\ RT!Capture(w) \/ RT!Rearm(w) => Stands(w, "armed")
           /\ RT!Drop(w) \/ RT!Refuse(w) \/ RT!Leave(w) \/ RT!CloseSignal(w) => Stands(w, "idle")
           /\ RT!Enter(w) => Stands(w, "inside")
           /\ RT!Lock(w) => Stands(w, "locked")
           /\ RT!Admit(w) => Stands(w, "admitted")
           /\ RT!CloseFlag(w) => Stands(w, "closing")
           /\ \A m \in RT!Mode : RT!SetDesired(w, m) \/ RT!Announce(m) => Stands(w, at[w])
           /\ UNCHANGED ctl => Stands(w, at[w])
<1> USE DEF Stands
<1>1. /\ \A m \in RT!Mode : RT!Request(w, m) \/ RT!RequestIfCurrent(w, m) => Stands(w, "armed")
      /\ RT!Capture(w) \/ RT!Rearm(w) => Stands(w, "armed")
  BY DEF RT!Request, RT!RequestIfCurrent, RT!Capture, RT!Rearm
<1>2. RT!Drop(w) \/ RT!Refuse(w) \/ RT!Leave(w) \/ RT!CloseSignal(w) => Stands(w, "idle")
  BY DEF RT!Drop, RT!Refuse, RT!GiveUp, RT!Leave, RT!CloseSignal
<1>3. /\ RT!Enter(w) => Stands(w, "inside")
      /\ RT!Lock(w) => Stands(w, "locked")
      /\ RT!Admit(w) => Stands(w, "admitted")
      /\ RT!CloseFlag(w) => Stands(w, "closing")
  BY DEF RT!Enter, RT!Lock, RT!Admit, RT!CloseFlag
<1>4. /\ \A m \in RT!Mode : RT!SetDesired(w, m) \/ RT!Announce(m) => Stands(w, at[w])
      /\ UNCHANGED ctl => Stands(w, at[w])
  BY DEF RT!SetDesired, RT!Announce, ctl
<1> QED BY <1>1, <1>2, <1>3, <1>4

(* One step of a job, seen in both the job and the controller. *)
Turns(w, op, pc, k, s, n, p) == Becomes(w, op, pc, k, s, n) /\ Stands(w, p)
Apt(op, pc, k, s, n, p) == Fits(op, pc, k, s, n) /\ p = PlaceOf(pc)

Guided(w) == Control' /\ (up' => Alone(w))

LEMMA Drives ==
    ASSUME Control, up, up', NEW w \in Worker, NEW op, NEW pc, NEW k, NEW s, NEW n, NEW p,
           Turns(w, op, pc, k, s, n, p), Apt(op, pc, k, s, n, p)
    PROVE  Guided(w)
BY DEF Guided, Control, Sound, Turns, Becomes, Stands, Alone, Apt

LEMMA Goners == Gone => Control'
<1>1. Sound(Idle) /\ Idle \in Jobs
  BY IdleJob DEF IsIdle, Sound, Fits, Does
<1> QED BY <1>1 DEF Gone, Control

LEMMA Modes == "manual" \in RT!Mode /\ "service" \in RT!Mode /\ "stopped" \in RT!Mode
BY DEF RT!Mode

(* Each step of a worker leads to a step of its operation, at the right place. *)
LEMMA WorkSteers ==
    ASSUME P!IInv, args \in Strategy \cup {None}, name \in Strategy \cup {None}, Control,
           NEW w \in Worker, Work(w)
    PROVE  Guided(w)
<1>0. Control /\ desired \in RT!Mode /\ args \in Strategy \cup {None} /\ name \in Strategy \cup {None}
        /\ job \in [Worker -> Jobs] /\ at \in [Worker -> RT!Place] /\ (up => Sound(job[w]))
  BY DEF Control, P!IInv, P!TypeOK, P!Place, RT!Place, P!Mode, RT!Mode
<1>1. CASE TakeToken(w)
  <2>1. up /\ up' /\ (job[w].pc = "token")
    BY <1>0, <1>1 DEF TakeToken, At, past
  <2>2. Turns(w, job[w].op, "enter", job[w].k, job[w].s, job[w].n, "armed")
    BY <1>0, <1>1, <2>1, Names, Goes, Ceases, Places DEF TakeToken, At, past, Turns
  <2>3. Apt(job[w].op, "enter", job[w].k, job[w].s, job[w].n, "armed")
    BY <1>0, <1>1, <2>1 DEF Control, Sound, Apt, Fits, Does, AfterCheck, PlaceOf, Outside, Entering, AtSearch,
            Finally, Quitting, QuitStep, First
  <2> QED BY <1>0, <2>1, <2>2, <2>3, Drives
<1>2. CASE StartTest(w)
  <2>1. up /\ up' /\ (job[w].pc = "test")
    BY <1>0, <1>2 DEF StartTest, At, past
  <2>2. \/ Turns(w, job[w].op, "raise", job[w].k, job[w].s, job[w].n, at[w])
        \/ Turns(w, job[w].op, "check", "claim", job[w].s, job[w].n, at[w])
    BY <1>0, <1>2, <2>1, Names, Goes, Ceases, Places, Modes DEF StartTest, At, past, Turns
  <2>3. /\ Apt(job[w].op, "raise", job[w].k, job[w].s, job[w].n, at[w])
        /\ Apt(job[w].op, "check", "claim", job[w].s, job[w].n, at[w])
    BY <1>0, <1>2, <2>1 DEF Control, Sound, Apt, Fits, Does, AfterCheck, PlaceOf, Outside, Entering, AtSearch,
            Finally, Quitting, QuitStep, First
  <2> QED BY <1>0, <2>1, <2>2, <2>3, Drives
<1>3. CASE Raise(w)
  <2>1. up /\ up' /\ (job[w].pc = "raise")
    BY <1>0, <1>3 DEF Raise, At, Errs, Reports, Vanishes
  <2>2. Turns(w, "none", "idle", "", Idle.s, 0, "idle")
    BY <1>0, <1>3, <2>1, Names, Goes, Ceases, Places DEF Raise, At, Errs, Reports, Vanishes, Turns
  <2>3. Apt("none", "idle", "", Idle.s, 0, "idle")
    BY <1>0, <1>3, <2>1 DEF Control, Sound, Apt, Fits, Does, AfterCheck, PlaceOf, Outside, Entering, AtSearch,
            Finally, Quitting, QuitStep, First
  <2> QED BY <1>0, <2>1, <2>2, <2>3, Drives
<1>4. CASE Claim(w)
  <2>1. up /\ up' /\ (job[w].pc = "claim")
    BY <1>0, <1>4 DEF Claim, At, past
  <2>2. Turns(w, job[w].op, "check", "spawn", job[w].s, job[w].n, at[w])
    BY <1>0, <1>4, <2>1, Names, Goes, Ceases, Places DEF Claim, At, past, Turns
  <2>3. Apt(job[w].op, "check", "spawn", job[w].s, job[w].n, at[w])
    BY <1>0, <1>4, <2>1 DEF Control, Sound, Apt, Fits, Does, AfterCheck, PlaceOf, Outside, Entering, AtSearch,
            Finally, Quitting, QuitStep, First
  <2> QED BY <1>0, <2>1, <2>2, <2>3, Drives
<1>5. CASE Spawn(w)
  <2>1. up /\ up' /\ (job[w].pc = "spawn")
    BY <1>0, <1>5 DEF Spawn, At, Ends, Errs, Reports, Vanishes, past
  <2>2. \/ Turns(w, "none", "idle", "", Idle.s, 0, "idle")
        \/ job[w].op = "start" /\ Turns(w, job[w].op, "persist", job[w].k, job[w].s, job[w].n, at[w])
        \/ job[w].op = "switch" /\ Turns(w, job[w].op, "check", "persist", job[w].s, job[w].n, at[w])
    BY <1>0, <1>5, <2>1, Names, Goes, Ceases, Places DEF Spawn, At, Ends, Errs, Reports, Vanishes, past, Turns
  <2>3. /\ Apt("none", "idle", "", Idle.s, 0, "idle")
        /\ (job[w].op = "start" => Apt(job[w].op, "persist", job[w].k, job[w].s, job[w].n, at[w]))
        /\ (job[w].op = "switch" => Apt(job[w].op, "check", "persist", job[w].s, job[w].n, at[w]))
    BY <1>0, <1>5, <2>1 DEF Control, Sound, Apt, Fits, Does, AfterCheck, PlaceOf, Outside, Entering, AtSearch,
            Finally, Quitting, QuitStep, First
  <2> QED BY <1>0, <2>1, <2>2, <2>3, Drives
<1>6. CASE Persist(w)
  <2>1. up /\ up' /\ (job[w].pc = "persist")
    BY <1>0, <1>6 DEF Persist, At, Ends, past
  <2>2. Turns(w, "none", "idle", "", Idle.s, 0, "idle")
    BY <1>0, <1>6, <2>1, Names, Goes, Ceases, Places DEF Persist, At, Ends, past, Turns
  <2>3. Apt("none", "idle", "", Idle.s, 0, "idle")
    BY <1>0, <1>6, <2>1 DEF Control, Sound, Apt, Fits, Does, AfterCheck, PlaceOf, Outside, Entering, AtSearch,
            Finally, Quitting, QuitStep, First
  <2> QED BY <1>0, <2>1, <2>2, <2>3, Drives
<1>7. CASE HaltLocal(w)
  <2>1. up /\ up' /\ (job[w].pc = "halt")
    BY <1>0, <1>7 DEF HaltLocal, At, Errs, Reports, Vanishes, past
  <2>2. \/ job[w].op = "install" /\ Turns(w, job[w].op, "check", "svcOff", job[w].s, job[w].n, at[w])
        \/ job[w].op # "install" /\ Turns(w, job[w].op, "check", "spawn", job[w].s, job[w].n, at[w])
        \/ Turns(w, "none", "idle", "", Idle.s, 0, "idle")
    BY <1>0, <1>7, <2>1, Names, Goes, Ceases, Places DEF HaltLocal, At, Errs, Reports, Vanishes, past, Turns
  <2>3. /\ (job[w].op = "install" => Apt(job[w].op, "check", "svcOff", job[w].s, job[w].n, at[w]))
        /\ (job[w].op # "install" => Apt(job[w].op, "check", "spawn", job[w].s, job[w].n, at[w]))
        /\ Apt("none", "idle", "", Idle.s, 0, "idle")
    BY <1>0, <1>7, <2>1 DEF Control, Sound, Apt, Fits, Does, AfterCheck, PlaceOf, Outside, Entering, AtSearch,
            Finally, Quitting, QuitStep, First
  <2> QED BY <1>0, <2>1, <2>2, <2>3, Drives
<1>8. CASE Decide(w)
  <2>1. up /\ up' /\ (job[w].pc = "decide")
    BY <1>0, <1>8 DEF Decide, At, Ends, past
  <2>2. \/ Turns(w, "none", "idle", "", Idle.s, 0, "idle")
        \/ Turns(w, job[w].op, "halt", job[w].k, job[w].s, job[w].n, at[w])
        \/ job[w].op = "restart" /\ Turns(w, job[w].op, "svcOff", job[w].k, job[w].s, job[w].n, at[w])
        \/ Turns(w, job[w].op, "check", "svcOff", job[w].s, job[w].n, at[w])
    BY <1>0, <1>8, <2>1, Names, Goes, Ceases, Places DEF Decide, At, Ends, past, Turns
  <2>3. /\ Apt("none", "idle", "", Idle.s, 0, "idle")
        /\ Apt(job[w].op, "halt", job[w].k, job[w].s, job[w].n, at[w])
        /\ (job[w].op = "restart" => Apt(job[w].op, "svcOff", job[w].k, job[w].s, job[w].n, at[w]))
        /\ Apt(job[w].op, "check", "svcOff", job[w].s, job[w].n, at[w])
    BY <1>0, <1>8, <2>1 DEF Control, Sound, Apt, Fits, Does, AfterCheck, PlaceOf, Outside, Entering, AtSearch,
            Finally, Quitting, QuitStep, First
  <2> QED BY <1>0, <2>1, <2>2, <2>3, Drives
<1>9. CASE SvcOff(w)
  <2>1. up /\ up' /\ (job[w].pc = "svcOff")
    BY <1>0, <1>9 DEF SvcOff, At, Errs, Reports, Vanishes, past
  <2>2. \/ job[w].op = "restart" /\ Turns(w, job[w].op, "check", "svcOn", job[w].s, job[w].n, at[w])
        \/ job[w].op # "restart" /\ Turns(w, job[w].op, "check", "config", job[w].s, job[w].n, at[w])
        \/ Turns(w, "none", "idle", "", Idle.s, 0, "idle")
    BY <1>0, <1>9, <2>1, Names, Goes, Ceases, Places DEF SvcOff, At, Errs, Reports, Vanishes, past, Turns
  <2>3. /\ (job[w].op = "restart" => Apt(job[w].op, "check", "svcOn", job[w].s, job[w].n, at[w]))
        /\ (job[w].op # "restart" => Apt(job[w].op, "check", "config", job[w].s, job[w].n, at[w]))
        /\ Apt("none", "idle", "", Idle.s, 0, "idle")
    BY <1>0, <1>9, <2>1 DEF Control, Sound, Apt, Fits, Does, AfterCheck, PlaceOf, Outside, Entering, AtSearch,
            Finally, Quitting, QuitStep, First
  <2> QED BY <1>0, <2>1, <2>2, <2>3, Drives
<1>10. CASE SvcConfig(w)
  <2>1. up /\ up' /\ (job[w].pc = "config")
    BY <1>0, <1>10 DEF SvcConfig, At, Errs, Reports, Vanishes, past
  <2>2. \/ Turns(w, job[w].op, "check", "svcOn", job[w].s, job[w].n, at[w])
        \/ Turns(w, "none", "idle", "", Idle.s, 0, "idle")
    BY <1>0, <1>10, <2>1, Names, Goes, Ceases, Places DEF SvcConfig, At, Errs, Reports, Vanishes, past, Turns
  <2>3. /\ Apt(job[w].op, "check", "svcOn", job[w].s, job[w].n, at[w])
        /\ Apt("none", "idle", "", Idle.s, 0, "idle")
    BY <1>0, <1>10, <2>1 DEF Control, Sound, Apt, Fits, Does, AfterCheck, PlaceOf, Outside, Entering, AtSearch,
            Finally, Quitting, QuitStep, First
  <2> QED BY <1>0, <2>1, <2>2, <2>3, Drives
<1>11. CASE SvcOn(w)
  <2>1. up /\ up' /\ (job[w].pc = "svcOn")
    BY <1>0, <1>11 DEF SvcOn, At, Ends, Errs, Reports, Vanishes, past
  <2>2. \/ Turns(w, "none", "idle", "", Idle.s, 0, "idle")
        \/ job[w].op = "install" /\ Turns(w, job[w].op, "check", "leave", job[w].s, job[w].n, at[w])
        \/ job[w].op = "restore" /\ Turns(w, job[w].op, "check", "unmark", job[w].s, job[w].n, at[w])
        \/ job[w].op = "switch" /\ Turns(w, job[w].op, "check", "persist", job[w].s, job[w].n, at[w])
    BY <1>0, <1>11, <2>1, Names, Goes, Ceases, Places DEF SvcOn, At, Ends, Errs, Reports, Vanishes, past, Turns
  <2>3. /\ Apt("none", "idle", "", Idle.s, 0, "idle")
        /\ (job[w].op = "install" => Apt(job[w].op, "check", "leave", job[w].s, job[w].n, at[w]))
        /\ (job[w].op = "restore" => Apt(job[w].op, "check", "unmark", job[w].s, job[w].n, at[w]))
        /\ (job[w].op = "switch" => Apt(job[w].op, "check", "persist", job[w].s, job[w].n, at[w]))
    BY <1>0, <1>11, <2>1 DEF Control, Sound, Apt, Fits, Does, AfterCheck, PlaceOf, Outside, Entering, AtSearch,
            Finally, Quitting, QuitStep, First
  <2> QED BY <1>0, <2>1, <2>2, <2>3, Drives
<1>12. CASE InstallLeave(w)
  <2>1. up /\ up' /\ (job[w].pc = "leave")
    BY <1>0, <1>12 DEF InstallLeave, At, past
  <2>2. Turns(w, job[w].op, "epilogue", job[w].k, job[w].s, job[w].n, "idle")
    BY <1>0, <1>12, <2>1, Names, Goes, Ceases, Places DEF InstallLeave, At, past, Turns
  <2>3. Apt(job[w].op, "epilogue", job[w].k, job[w].s, job[w].n, "idle")
    BY <1>0, <1>12, <2>1 DEF Control, Sound, Apt, Fits, Does, AfterCheck, PlaceOf, Outside, Entering, AtSearch,
            Finally, Quitting, QuitStep, First
  <2> QED BY <1>0, <2>1, <2>2, <2>3, Drives
<1>13. CASE InstallEpilogue(w)
  <2>1. up /\ up' /\ (job[w].pc = "epilogue")
    BY <1>0, <1>13 DEF InstallEpilogue, At, past
  <2>2. Turns(w, "none", "idle", "", Idle.s, 0, at[w])
    BY <1>0, <1>13, <2>1, Names, Goes, Ceases, Places DEF InstallEpilogue, At, past, Turns
  <2>3. Apt("none", "idle", "", Idle.s, 0, at[w])
    BY <1>0, <1>13, <2>1 DEF Control, Sound, Apt, Fits, Does, AfterCheck, PlaceOf, Outside, Entering, AtSearch,
            Finally, Quitting, QuitStep, First
  <2> QED BY <1>0, <2>1, <2>2, <2>3, Drives
<1>14. CASE RemoveService(w)
  <2>1. up /\ up' /\ (job[w].pc = "remove")
    BY <1>0, <1>14 DEF RemoveService, At, Ends, Errs, Reports, Vanishes, past
  <2>2. Turns(w, "none", "idle", "", Idle.s, 0, "idle")
    BY <1>0, <1>14, <2>1, Names, Goes, Ceases, Places DEF RemoveService, At, Ends, Errs, Reports, Vanishes, past, Turns
  <2>3. Apt("none", "idle", "", Idle.s, 0, "idle")
    BY <1>0, <1>14, <2>1 DEF Control, Sound, Apt, Fits, Does, AfterCheck, PlaceOf, Outside, Entering, AtSearch,
            Finally, Quitting, QuitStep, First
  <2> QED BY <1>0, <2>1, <2>2, <2>3, Drives
<1>15. CASE StopService(w)
  <2>1. up /\ up' /\ (job[w].pc = "stopSvc")
    BY <1>0, <1>15 DEF StopService, At, Errs, Reports, Vanishes, past
  <2>2. \/ Turns(w, job[w].op, "stopLocal", job[w].k, job[w].s, job[w].n, at[w])
        \/ Turns(w, job[w].op, "stopLocalErr", job[w].k, job[w].s, job[w].n, at[w])
        \/ Turns(w, "none", "idle", "", Idle.s, 0, "idle")
    BY <1>0, <1>15, <2>1, Names, Goes, Ceases, Places DEF StopService, At, Errs, Reports, Vanishes, past, Turns
  <2>3. /\ Apt(job[w].op, "stopLocal", job[w].k, job[w].s, job[w].n, at[w])
        /\ Apt(job[w].op, "stopLocalErr", job[w].k, job[w].s, job[w].n, at[w])
        /\ Apt("none", "idle", "", Idle.s, 0, "idle")
    BY <1>0, <1>15, <2>1 DEF Control, Sound, Apt, Fits, Does, AfterCheck, PlaceOf, Outside, Entering, AtSearch,
            Finally, Quitting, QuitStep, First
  <2> QED BY <1>0, <2>1, <2>2, <2>3, Drives
<1>16. CASE StopLocal(w)
  <2>1. up /\ up' /\ (job[w].pc \in {"stopLocal", "stopLocalErr"})
    BY <1>0, <1>16 DEF StopLocal, At, Ends, Errs, Reports, Vanishes, past
  <2>2. Turns(w, "none", "idle", "", Idle.s, 0, "idle")
    BY <1>0, <1>16, <2>1, Names, Goes, Ceases, Places DEF StopLocal, At, Ends, Errs, Reports, Vanishes, past, Turns
  <2>3. Apt("none", "idle", "", Idle.s, 0, "idle")
    BY <1>0, <1>16, <2>1 DEF Control, Sound, Apt, Fits, Does, AfterCheck, PlaceOf, Outside, Entering, AtSearch,
            Finally, Quitting, QuitStep, First
  <2> QED BY <1>0, <2>1, <2>2, <2>3, Drives
<1>17. CASE Unmark(w)
  <2>1. up /\ up' /\ (job[w].pc = "unmark")
    BY <1>0, <1>17 DEF Unmark, At, Ends, past
  <2>2. Turns(w, "none", "idle", "", Idle.s, 0, "idle")
    BY <1>0, <1>17, <2>1, Names, Goes, Ceases, Places DEF Unmark, At, Ends, past, Turns
  <2>3. Apt("none", "idle", "", Idle.s, 0, "idle")
    BY <1>0, <1>17, <2>1 DEF Control, Sound, Apt, Fits, Does, AfterCheck, PlaceOf, Outside, Entering, AtSearch,
            Finally, Quitting, QuitStep, First
  <2> QED BY <1>0, <2>1, <2>2, <2>3, Drives
<1>18. CASE SearchSvcOff(w)
  <2>1. up /\ up' /\ (job[w].pc = "s.svcOff")
    BY <1>0, <1>18 DEF SearchSvcOff, At, Fails, Reports, past
  <2>2. \/ Turns(w, job[w].op, "s.context", job[w].k, job[w].s, job[w].n, at[w])
        \/ Turns(w, job[w].op, "s.exit", job[w].k, job[w].s, job[w].n, at[w])
    BY <1>0, <1>18, <2>1, Names, Goes, Ceases, Places DEF SearchSvcOff, At, Fails, Reports, past, Turns
  <2>3. /\ Apt(job[w].op, "s.context", job[w].k, job[w].s, job[w].n, at[w])
        /\ Apt(job[w].op, "s.exit", job[w].k, job[w].s, job[w].n, at[w])
    BY <1>0, <1>18, <2>1 DEF Control, Sound, Apt, Fits, Does, AfterCheck, PlaceOf, Outside, Entering, AtSearch,
            Finally, Quitting, QuitStep, First
  <2> QED BY <1>0, <2>1, <2>2, <2>3, Drives
<1>19. CASE SearchHalt(w)
  <2>1. up /\ up' /\ (job[w].pc = "s.halt")
    BY <1>0, <1>19 DEF SearchHalt, At, Fails, Reports, past
  <2>2. \/ Turns(w, job[w].op, "s.trial", job[w].k, job[w].s, job[w].n, at[w])
        \/ Turns(w, job[w].op, "s.exit", job[w].k, job[w].s, job[w].n, at[w])
    BY <1>0, <1>19, <2>1, Names, Goes, Ceases, Places DEF SearchHalt, At, Fails, Reports, past, Turns
  <2>3. /\ Apt(job[w].op, "s.trial", job[w].k, job[w].s, job[w].n, at[w])
        /\ Apt(job[w].op, "s.exit", job[w].k, job[w].s, job[w].n, at[w])
    BY <1>0, <1>19, <2>1 DEF Control, Sound, Apt, Fits, Does, AfterCheck, PlaceOf, Outside, Entering, AtSearch,
            Finally, Quitting, QuitStep, First
  <2> QED BY <1>0, <2>1, <2>2, <2>3, Drives
<1>20. CASE SearchExit(w)
  <2>1. up /\ up' /\ (job[w].pc = "s.exit")
    BY <1>0, <1>20 DEF SearchExit, At, past
  <2>2. Turns(w, job[w].op, "s.lock", job[w].k, job[w].s, job[w].n, "idle")
    BY <1>0, <1>20, <2>1, Names, Goes, Ceases, Places DEF SearchExit, At, past, Turns
  <2>3. Apt(job[w].op, "s.lock", job[w].k, job[w].s, job[w].n, "idle")
    BY <1>0, <1>20, <2>1 DEF Control, Sound, Apt, Fits, Does, AfterCheck, PlaceOf, Outside, Entering, AtSearch,
            Finally, Quitting, QuitStep, First
  <2> QED BY <1>0, <2>1, <2>2, <2>3, Drives
<1>21. CASE SearchLock(w)
  <2>1. up /\ up' /\ (job[w].pc = "s.lock")
    BY <1>0, <1>21 DEF SearchLock, At, past
  <2>2. Turns(w, job[w].op, "s.fin", job[w].k, job[w].s, job[w].n, "locked")
    BY <1>0, <1>21, <2>1, Names, Goes, Ceases, Places DEF SearchLock, At, past, Turns
  <2>3. Apt(job[w].op, "s.fin", job[w].k, job[w].s, job[w].n, "locked")
    BY <1>0, <1>21, <2>1 DEF Control, Sound, Apt, Fits, Does, AfterCheck, PlaceOf, Outside, Entering, AtSearch,
            Finally, Quitting, QuitStep, First
  <2> QED BY <1>0, <2>1, <2>2, <2>3, Drives
<1>22. CASE SearchUnmark(w)
  <2>1. up /\ up' /\ (job[w].pc = "s.unmark")
    BY <1>0, <1>22 DEF SearchUnmark, At, past
  <2>2. Turns(w, job[w].op, "s.done", job[w].k, job[w].s, job[w].n, "idle")
    BY <1>0, <1>22, <2>1, Names, Goes, Ceases, Places DEF SearchUnmark, At, past, Turns
  <2>3. Apt(job[w].op, "s.done", job[w].k, job[w].s, job[w].n, "idle")
    BY <1>0, <1>22, <2>1 DEF Control, Sound, Apt, Fits, Does, AfterCheck, PlaceOf, Outside, Entering, AtSearch,
            Finally, Quitting, QuitStep, First
  <2> QED BY <1>0, <2>1, <2>2, <2>3, Drives
<1>23. CASE QuitJoin(w)
  <2>1. up /\ up' /\ (job[w].pc = "q.join")
    BY <1>0, <1>23 DEF QuitJoin, At, past
  <2>2. Turns(w, job[w].op, "q.reclose", job[w].k, job[w].s, job[w].n, at[w])
    BY <1>0, <1>23, <2>1, Names, Goes, Ceases, Places DEF QuitJoin, At, past, Turns
  <2>3. Apt(job[w].op, "q.reclose", job[w].k, job[w].s, job[w].n, at[w])
    BY <1>0, <1>23, <2>1 DEF Control, Sound, Apt, Fits, Does, AfterCheck, PlaceOf, Outside, Entering, AtSearch,
            Finally, Quitting, QuitStep, First
  <2> QED BY <1>0, <2>1, <2>2, <2>3, Drives
<1>24. CASE QuitLock(w)
  <2>1. up /\ up' /\ (job[w].pc = "q.lock")
    BY <1>0, <1>24 DEF QuitLock, At, past
  <2>2. Turns(w, job[w].op, "q.stop", job[w].k, job[w].s, job[w].n, "locked")
    BY <1>0, <1>24, <2>1, Names, Goes, Ceases, Places DEF QuitLock, At, past, Turns
  <2>3. Apt(job[w].op, "q.stop", job[w].k, job[w].s, job[w].n, "locked")
    BY <1>0, <1>24, <2>1 DEF Control, Sound, Apt, Fits, Does, AfterCheck, PlaceOf, Outside, Entering, AtSearch,
            Finally, Quitting, QuitStep, First
  <2> QED BY <1>0, <2>1, <2>2, <2>3, Drives
<1>25. CASE QuitStop(w)
  <2>1. up /\ up' /\ (job[w].pc = "q.stop")
    BY <1>0, <1>25 DEF QuitStop, At, Reports, past
  <2>2. Turns(w, job[w].op, "q.exit", job[w].k, job[w].s, job[w].n, "idle")
    BY <1>0, <1>25, <2>1, Names, Goes, Ceases, Places DEF QuitStop, At, Reports, past, Turns
  <2>3. Apt(job[w].op, "q.exit", job[w].k, job[w].s, job[w].n, "idle")
    BY <1>0, <1>25, <2>1 DEF Control, Sound, Apt, Fits, Does, AfterCheck, PlaceOf, Outside, Entering, AtSearch,
            Finally, Quitting, QuitStep, First
  <2> QED BY <1>0, <2>1, <2>2, <2>3, Drives
<1>26. CASE Enter(w)
  <2>1. up /\ up' /\ job[w].pc = "enter" /\ job[w].op \in Entering
    BY <1>0, <1>26 DEF Enter, At, past, Control, Sound, Fits, Does, QuitStep, AtSearch, Finally
  <2>2. First[job[w].op] \in PC /\ Apt(job[w].op, First[job[w].op], job[w].k, job[w].s, job[w].n, "inside")
    BY <1>0, <2>1, Names DEF First, Entering, Control, Sound, Apt, Fits, Does, AfterCheck, PlaceOf, Outside,
            AtSearch, Finally, Quitting, QuitStep
  <2>3. Turns(w, job[w].op, First[job[w].op], job[w].k, job[w].s, job[w].n, "inside")
    BY <1>0, <1>26, <2>2, Goes, Places DEF Enter, Turns
  <2> QED BY <1>0, <2>1, <2>2, <2>3, Drives
<1>27. CASE TurnAway(w)
  <2>1. up /\ up' /\ job[w].pc = "enter"
    BY <1>0, <1>27 DEF TurnAway, At, past
  <2>2. \/ job[w].op = "search" /\ Turns(w, job[w].op, "s.lock", job[w].k, job[w].s, job[w].n, "idle")
        \/ Turns(w, "none", "idle", "", Idle.s, 0, "idle")
    BY <1>0, <1>27, Names, Goes, Ceases, Places DEF TurnAway, Turns
  <2>3. /\ (job[w].op = "search" => Apt(job[w].op, "s.lock", job[w].k, job[w].s, job[w].n, "idle"))
        /\ Apt("none", "idle", "", Idle.s, 0, "idle")
    BY <1>0, <2>1 DEF Control, Sound, Apt, Fits, Does, AfterCheck, PlaceOf, Outside, Entering, AtSearch, Finally,
            Quitting, QuitStep
  <2> QED BY <1>0, <2>1, <2>2, <2>3, Drives
<1>28. CASE Check(w)
  <2>1. up /\ up' /\ job[w].pc = "check" /\ job[w].k \in AfterCheck
    BY <1>0, <1>28 DEF Check, At, Ends, past, Control, Sound, Fits
  <2>2. job[w].k \in PC
    BY <2>1, Names DEF AfterCheck
  <2>3. \/ Turns(w, job[w].op, job[w].k, job[w].k, job[w].s, job[w].n, at[w])
        \/ Turns(w, "none", "idle", "", Idle.s, 0, "idle")
    BY <1>0, <1>28, <2>2, Goes, Ceases, Places DEF Check, Ends, Turns
  <2>4. /\ Apt(job[w].op, job[w].k, job[w].k, job[w].s, job[w].n, at[w])
        /\ Apt("none", "idle", "", Idle.s, 0, "idle")
    BY <1>0, <2>1 DEF Control, Sound, Apt, Fits, Does, AfterCheck, PlaceOf, Outside, Entering, AtSearch, Finally,
            Quitting, QuitStep
  <2> QED BY <1>0, <2>1, <2>3, <2>4, Drives
<1>29. CASE ListsDone(w)
  <2>1. up /\ up' /\ job[w].pc = "download"
    BY <1>0, <1>29 DEF ListsDone, At, past
  <2>2. \/ Turns(w, "restart", "enter", job[w].k, job[w].s, job[w].n, "armed")
        \/ Turns(w, "none", "idle", "", Idle.s, 0, "idle")
    <3>2. CASE job' = [job EXCEPT ![w].op = "restart", ![w].pc = "enter"] /\ RT!RequestIfCurrent(w, desired)
      BY <1>0, <3>2, Restarts, Places, Zenon DEF Turns
    <3>3. CASE RT!Drop(w) /\ Finish(w)
      BY <1>0, <3>3, Ceases, Places DEF Turns
    <3> QED BY <1>29, <3>2, <3>3 DEF ListsDone
  <2>3. /\ Apt("restart", "enter", job[w].k, job[w].s, job[w].n, "armed")
        /\ Apt("none", "idle", "", Idle.s, 0, "idle")
    BY <1>0, <2>1 DEF Control, Sound, Apt, Fits, Does, AfterCheck, PlaceOf, Outside, Entering, AtSearch, Finally,
            Quitting, QuitStep
  <2> QED BY <1>0, <2>1, <2>2, <2>3, Drives
<1>30. CASE SearchBegin(w)
  <2>1. up /\ up' /\ job[w].pc = "begin"
    BY <1>0, <1>30 DEF SearchBegin, At, past
  <2>2. Turns(w, job[w].op, "enter", job[w].k, job[w].s, job[w].n, at[w])
    <3>1. LooksLike([job[w] EXCEPT !.pc = "enter", !.orig = args, !.oname = name],
                    job[w].op, "enter", job[w].k, job[w].s, job[w].n)
      BY <1>0, Names, ZenonT(60) DEF LooksLike, Jobs
    <3> QED BY <1>0, <1>30, <3>1, Puts, Places, Zenon DEF SearchBegin, Turns
  <2>3. Apt(job[w].op, "enter", job[w].k, job[w].s, job[w].n, at[w])
    BY <1>0, <2>1 DEF Control, Sound, Apt, Fits, Does, AfterCheck, PlaceOf, Outside, Entering, AtSearch, Finally,
            Quitting, QuitStep
  <2> QED BY <1>0, <2>1, <2>2, <2>3, Drives
<1>31. CASE SearchLook(w)
  <2>1. up /\ up' /\ job[w].pc = "s.look"
    BY <1>0, <1>31 DEF SearchLook, At, past, Fails, Reports
  <2>2. \/ Turns(w, job[w].op, "s.exit", job[w].k, job[w].s, job[w].n, at[w])
        \/ Turns(w, job[w].op, "s.svcOff", job[w].k, job[w].s, job[w].n, at[w])
        \/ Turns(w, job[w].op, "s.context", job[w].k, job[w].s, job[w].n, at[w])
    <3>1. SvcRunning \in BOOLEAN /\ ProcAlive \in BOOLEAN
      BY DEF SvcRunning, ProcAlive, Alive
    <3>2. CASE Goto(w, "s.exit") /\ UNCHANGED ctl
      BY <1>0, <3>2, Names, Goes, Places DEF Turns
    <3>3. ASSUME NEW pc \in PC, UNCHANGED ctl,
                 job' = [job EXCEPT ![w].pc = pc, ![w].svcWas = SvcRunning, ![w].own = ProcAlive]
          PROVE  Turns(w, job[w].op, pc, job[w].k, job[w].s, job[w].n, at[w])
      BY <1>0, <3>1, <3>3, Records, Places, Zenon DEF Turns
    <3>4. \/ Goto(w, "s.exit") /\ UNCHANGED ctl
          \/ \E pc \in {"s.svcOff", "s.context"} :
                UNCHANGED ctl /\ job' = [job EXCEPT ![w].pc = pc, ![w].svcWas = SvcRunning, ![w].own = ProcAlive]
      BY <1>31, Zenon DEF SearchLook, Fails
    <3> QED BY <3>2, <3>3, <3>4, Names
  <2>3. /\ Apt(job[w].op, "s.exit", job[w].k, job[w].s, job[w].n, at[w])
        /\ Apt(job[w].op, "s.svcOff", job[w].k, job[w].s, job[w].n, at[w])
        /\ Apt(job[w].op, "s.context", job[w].k, job[w].s, job[w].n, at[w])
    BY <1>0, <2>1 DEF Control, Sound, Apt, Fits, Does, AfterCheck, PlaceOf, Outside, Entering, AtSearch, Finally,
            Quitting, QuitStep
  <2> QED BY <1>0, <2>1, <2>2, <2>3, Drives
<1>32. CASE SearchContext(w)
  <2>1. up /\ up' /\ job[w].pc = "s.context"
    BY <1>0, <1>32 DEF SearchContext, At, past, Reports
  <2>2. \/ Turns(w, job[w].op, "s.halt", job[w].k, job[w].s, job[w].n, at[w])
        \/ Turns(w, job[w].op, "s.exit", job[w].k, job[w].s, job[w].n, at[w])
    <3>1. ASSUME NEW pc \in PC, UNCHANGED ctl, job' = [job EXCEPT ![w].pc = pc, ![w].cut = TRUE]
          PROVE  Turns(w, job[w].op, pc, job[w].k, job[w].s, job[w].n, at[w])
      BY <1>0, <3>1, Records, Places, Zenon DEF Turns
    <3>2. \E pc \in {"s.halt", "s.exit"} : UNCHANGED ctl /\ job' = [job EXCEPT ![w].pc = pc, ![w].cut = TRUE]
      BY <1>32, Zenon DEF SearchContext
    <3> QED BY <3>1, <3>2, Names
  <2>3. /\ Apt(job[w].op, "s.halt", job[w].k, job[w].s, job[w].n, at[w])
        /\ Apt(job[w].op, "s.exit", job[w].k, job[w].s, job[w].n, at[w])
    BY <1>0, <2>1 DEF Control, Sound, Apt, Fits, Does, AfterCheck, PlaceOf, Outside, Entering, AtSearch, Finally,
            Quitting, QuitStep
  <2> QED BY <1>0, <2>1, <2>2, <2>3, Drives
<1>33. CASE SearchNext(w)
  <2>1. up /\ up' /\ job[w].pc = "s.trial"
    BY <1>0, <1>33 DEF SearchNext, At, past
  <2>2. \/ Turns(w, job[w].op, "s.exit", job[w].k, job[w].s, job[w].n, at[w])
        \/ job[w].n < MaxTrials /\ Turns(w, job[w].op, "s.spawn", job[w].k, job[w].s, job[w].n, at[w])
    <3>1. CASE Goto(w, "s.exit") /\ UNCHANGED ctl
      BY <1>0, <3>1, Names, Goes, Places DEF Turns
    <3>2. CASE Goto(w, "s.spawn") /\ job[w].n < MaxTrials /\ UNCHANGED ctl
      BY <1>0, <3>2, Names, Goes, Places DEF Turns
    <3>3. CASE job' = [job EXCEPT ![w].pc = "s.exit", ![w].complete = TRUE] /\ UNCHANGED ctl
      BY <1>0, <3>3, Names, Records, Places, Zenon DEF Turns
    <3> QED BY <1>33, <3>1, <3>2, <3>3, Zenon DEF SearchNext
  <2>3. /\ Apt(job[w].op, "s.exit", job[w].k, job[w].s, job[w].n, at[w])
        /\ (job[w].n < MaxTrials => Apt(job[w].op, "s.spawn", job[w].k, job[w].s, job[w].n, at[w]))
    BY <1>0, <2>1 DEF Control, Sound, Apt, Fits, Does, AfterCheck, PlaceOf, Outside, Entering, AtSearch, Finally,
            Quitting, QuitStep
  <2> QED BY <1>0, <2>1, <2>2, <2>3, Drives
<1>34. CASE SearchSpawn(w) \/ SearchProbe(w)
  <2>1. up /\ up' /\ job[w].pc \in {"s.spawn", "s.probe"}
    BY <1>0, <1>34 DEF SearchSpawn, SearchProbe, At, past, Fails, Reports
  <2>2. \/ job[w].pc = "s.spawn" /\ Turns(w, job[w].op, "s.probe", job[w].k, job[w].s, job[w].n, at[w])
        \/ Turns(w, job[w].op, "s.exit", job[w].k, job[w].s, job[w].n, at[w])
        \/ Turns(w, job[w].op, "s.trial", job[w].k, job[w].s, job[w].n + 1, at[w])
    <3>1. job[w].n + 1 \in 0..MaxTrials
      <4>1. job[w] \in Jobs /\ Sound(job[w])
        BY <1>0, <2>1
      <4>2. job[w].n \in 0..MaxTrials /\ job[w].n < MaxTrials
        BY <2>1, <4>1 DEF Sound, Fits, Jobs
      <4> QED BY <4>2, OpsAssumption
    <3>2. LooksLike([job[w] EXCEPT !.pc = "s.trial", !.n = @ + 1],
                    job[w].op, "s.trial", job[w].k, job[w].s, job[w].n + 1)
      BY <1>0, <3>1, Names, ZenonT(60) DEF LooksLike, Jobs
    <3>3. CASE Tried(w) /\ UNCHANGED ctl
      BY <1>0, <3>2, <3>3, Puts, Places, Zenon DEF Tried, Turns
    <3>4. \/ Tried(w) /\ UNCHANGED ctl
          \/ job[w].pc = "s.spawn" /\ Goto(w, "s.probe") /\ UNCHANGED ctl
          \/ Goto(w, "s.exit") /\ UNCHANGED ctl
      BY <1>34, Zenon DEF SearchSpawn, SearchProbe, Fails, At
    <3> QED BY <1>0, <3>3, <3>4, Names, Goes, Places DEF Turns
  <2>3. /\ (job[w].pc = "s.spawn" => Apt(job[w].op, "s.probe", job[w].k, job[w].s, job[w].n, at[w]))
        /\ Apt(job[w].op, "s.exit", job[w].k, job[w].s, job[w].n, at[w])
        /\ Apt(job[w].op, "s.trial", job[w].k, job[w].s, job[w].n + 1, at[w])
    BY <1>0, <2>1 DEF Control, Sound, Apt, Fits, Does, AfterCheck, PlaceOf, Outside, Entering, AtSearch, Finally,
            Quitting, QuitStep
  <2> QED BY <1>0, <2>1, <2>2, <2>3, Drives
<1>35. CASE SearchFinally(w) \/ SearchRestore(w)
  <2>1. up /\ up' /\ job[w].pc \in {"s.fin", "s.restore"}
    BY <1>0, <1>35 DEF SearchFinally, SearchRestore, At, past, RestoreFails, Reports
  <2>2. \/ Turns(w, job[w].op, "s.restore", job[w].k, job[w].s, job[w].n, "admitted")
        \/ Turns(w, job[w].op, "s.done", job[w].k, job[w].s, job[w].n, "idle")
        \/ job[w].pc = "s.restore" /\ Turns(w, job[w].op, "s.unmark", job[w].k, job[w].s, job[w].n, at[w])
    <3>1. CASE RestoreFails(w)
      <4>1. job' = [job EXCEPT ![w].pc = "s.done", ![w].complete = FALSE] /\ RT!Leave(w)
        BY <3>1 DEF RestoreFails
      <4> QED BY <1>0, <4>1, Names, Records, Places, Zenon DEF Turns
    <3>2. \/ RestoreFails(w)
          \/ Goto(w, "s.restore") /\ RT!Admit(w)
          \/ Goto(w, "s.done") /\ RT!Leave(w)
          \/ Goto(w, "s.unmark") /\ job[w].pc = "s.restore" /\ UNCHANGED ctl
      BY <1>35, Zenon DEF SearchFinally, SearchRestore, At
    <3> QED BY <1>0, <3>1, <3>2, Names, Goes, Places DEF Turns
  <2>3. /\ Apt(job[w].op, "s.restore", job[w].k, job[w].s, job[w].n, "admitted")
        /\ Apt(job[w].op, "s.done", job[w].k, job[w].s, job[w].n, "idle")
        /\ (job[w].pc = "s.restore" => Apt(job[w].op, "s.unmark", job[w].k, job[w].s, job[w].n, at[w]))
    BY <1>0, <2>1 DEF Control, Sound, Apt, Fits, Does, AfterCheck, PlaceOf, Outside, Entering, AtSearch, Finally,
            Quitting, QuitStep
  <2> QED BY <1>0, <2>1, <2>2, <2>3, Drives
<1>36. CASE SearchDone(w)
  <2>1. up /\ up' /\ job[w].pc = "s.done"
    BY <1>0, <1>36 DEF SearchDone, At, past
  <2>2. PICK s \in Strategy \cup {None} :
           \/ s \in Strategy /\ Turns(w, "switch", "enter", "", s, 0, "armed")
           \/ Turns(w, "none", "idle", "", Idle.s, 0, at[w])
    <3>1. \/ \E s \in Strategy : /\ job' = [job EXCEPT ![w] = [Idle EXCEPT !.op = "switch", !.pc = "enter", !.s = s, !.complete = TRUE]]
                                 /\ RT!RequestIfCurrent(w, "manual") \/ RT!Rearm(w)
          \/ job' = [job EXCEPT ![w] = Idle] /\ UNCHANGED ctl
      BY <1>36, Zenon DEF SearchDone
    <3>2. CASE job' = [job EXCEPT ![w] = Idle] /\ UNCHANGED ctl
      BY <1>0, <3>2, Ceases, Places DEF Turns
    <3>3. ASSUME NEW s \in Strategy, RT!RequestIfCurrent(w, "manual") \/ RT!Rearm(w),
                 job' = [job EXCEPT ![w] = [Idle EXCEPT !.op = "switch", !.pc = "enter", !.s = s, !.complete = TRUE]]
          PROVE  Turns(w, "switch", "enter", "", s, 0, "armed")
      <4>1. s \in Strategy \cup {None}
        OBVIOUS
      <4>2. Becomes(w, "switch", "enter", "", s, 0)
        BY <1>0, <3>3, <4>1, Names, Begins, Zenon
      <4> QED BY <1>0, <3>3, <4>2, Modes, Places DEF Turns
    <3> QED BY <3>1, <3>2, <3>3
  <2>3. /\ (s \in Strategy => Apt("switch", "enter", "", s, 0, "armed"))
        /\ Apt("none", "idle", "", Idle.s, 0, at[w])
    BY <1>0, <2>1 DEF Control, Sound, Apt, Fits, Does, AfterCheck, PlaceOf, Outside, Entering, AtSearch, Finally,
            Quitting, QuitStep
  <2> QED BY <1>0, <2>1, <2>2, <2>3, Drives
<1>37. CASE QuitClose(w) \/ QuitSignal(w)
  <2>1. up /\ up' /\ job[w].pc \in {"q.close", "q.reclose", "q.signal", "q.resignal"}
    BY <1>0, <1>37 DEF QuitClose, QuitSignal, At, past
  <2>2. \/ Turns(w, job[w].op, "q.signal", job[w].k, job[w].s, job[w].n, "closing")
        \/ Turns(w, job[w].op, "q.resignal", job[w].k, job[w].s, job[w].n, "closing")
        \/ Turns(w, job[w].op, "q.lock", job[w].k, job[w].s, job[w].n, "idle")
        \/ Turns(w, job[w].op, "q.join", job[w].k, job[w].s, job[w].n, "idle")
    BY <1>0, <1>37, Names, Goes, Places DEF QuitClose, QuitSignal, Turns
  <2>3. /\ Apt(job[w].op, "q.signal", job[w].k, job[w].s, job[w].n, "closing")
        /\ Apt(job[w].op, "q.resignal", job[w].k, job[w].s, job[w].n, "closing")
        /\ Apt(job[w].op, "q.lock", job[w].k, job[w].s, job[w].n, "idle")
        /\ Apt(job[w].op, "q.join", job[w].k, job[w].s, job[w].n, "idle")
    BY <1>0, <2>1 DEF Control, Sound, Apt, Fits, Does, AfterCheck, PlaceOf, Outside, Entering, AtSearch, Finally,
            Quitting, QuitStep
  <2> QED BY <1>0, <2>1, <2>2, <2>3, Drives
<1>38. CASE Exit(w)
  BY <1>38, Goners DEF Exit, Gone, Guided
<1> QED BY <1>1, <1>2, <1>3, <1>4, <1>5, <1>6, <1>7, <1>8, <1>9, <1>10, <1>11, <1>12, <1>13, <1>14, <1>15, <1>16,
        <1>17, <1>18, <1>19, <1>20, <1>21, <1>22, <1>23, <1>24, <1>25, <1>26, <1>27, <1>28, <1>29, <1>30, <1>31,
        <1>32, <1>33, <1>34, <1>35, <1>36, <1>37, <1>38 DEF Work

(* Each handler begins its operation at the right place. *)
LEMMA HandlerSteers ==
    ASSUME P!IInv, Control, ui.resume \in Strategy \cup {None}, name \in Strategy \cup {None},
           NEW w \in Worker, Handler(w)
    PROVE  Guided(w)
<1>0. /\ Control /\ job \in [Worker -> Jobs] /\ at \in [Worker -> RT!Place] /\ desired \in RT!Mode
      /\ None \in Strategy \cup {None} /\ cur \in 0..MaxToken
      /\ (IF SvcRunning THEN "service" ELSE "manual") \in RT!Mode
  BY DEF Control, P!IInv, P!TypeOK, P!Place, RT!Place, P!Mode, RT!Mode
<1>a. ASSUME up, up', NEW op \in Operation, NEW pc \in PC, NEW s \in Strategy \cup {None}, NEW p,
             Begin(w, op, pc, s), Stands(w, p), Apt(op, pc, "", s, 0, p)
      PROVE  Guided(w)
  <2>1. Becomes(w, op, pc, "", s, 0)
    BY <1>0, <1>a, Begins
  <2> QED BY <1>0, <1>a, <2>1, Drives, ZenonT(60) DEF Turns
<1>1. ASSUME NEW s \in Strategy \cup {None}, s # None, StartWith(w, s), up PROVE Guided(w)
  <2>1. up' /\ Begin(w, "start", "enter", s) /\ RT!Request(w, "manual")
    BY <1>1 DEF StartWith, Asks
  <2>2. Apt("start", "enter", "", s, 0, "armed")
    BY <1>1 DEF Apt, Fits, Does, AfterCheck, PlaceOf, Outside, Entering, AtSearch, Finally, Quitting, QuitStep
  <2>3. Stands(w, "armed")
    BY <1>0, <2>1, Modes, Places
  <2> QED BY <1>1, <1>a, <2>1, <2>2, <2>3, Names
<1>2. ASSUME NEW s \in Strategy, Install(w, s) PROVE Guided(w)
  <2>1. up /\ up' /\ Begin(w, "install", "enter", s) /\ RT!Request(w, "service")
    BY <1>2 DEF Install, Asks, Click, UIFree
  <2>2. Apt("install", "enter", "", s, 0, "armed")
    BY <1>2 DEF Apt, Fits, Does, AfterCheck, PlaceOf, Outside, Entering, AtSearch, Finally, Quitting, QuitStep
  <2>3. Stands(w, "armed")
    BY <1>0, <2>1, Modes, Places
  <2> QED BY <1>2, <1>a, <2>1, <2>2, <2>3, Names
<1>3. ASSUME NEW s \in Strategy, RestoreLast(w, s) PROVE Guided(w)
  <2>1. /\ up /\ up' /\ Begin(w, "switch", "enter", s)
        /\ RT!Request(w, IF SvcRunning THEN "service" ELSE "manual")
    BY <1>3 DEF RestoreLast, Asks, Click, UIFree
  <2>2. Apt("switch", "enter", "", s, 0, "armed")
    BY <1>3 DEF Apt, Fits, Does, AfterCheck, PlaceOf, Outside, Entering, AtSearch, Finally, Quitting, QuitStep
  <2>3. Stands(w, "armed")
    BY <1>0, <2>1, Places
  <2> QED BY <1>3, <1>a, <2>1, <2>2, <2>3, Names
<1>4. ASSUME NEW op, Stop(w, op) PROVE Guided(w)
  <2>1. up /\ up' /\ op \in {"stop", "stopAll"} /\ Begin(w, op, "enter", None) /\ RT!Request(w, "stopped")
    BY <1>4 DEF Stop, Asks, Click, UIFree
  <2>2. Apt(op, "enter", "", None, 0, "armed") /\ op \in Operation
    BY <2>1, Names DEF Apt, Fits, Does, AfterCheck, PlaceOf, Outside, Entering, AtSearch, Finally, Quitting, QuitStep
  <2>3. Stands(w, "armed")
    BY <1>0, <2>1, Modes, Places
  <2> QED BY <1>0, <1>a, <2>1, <2>2, <2>3, Names
<1>5. CASE Remove(w)
  <2>1. up /\ up' /\ Begin(w, "remove", "enter", None) /\ RT!Request(w, "stopped")
    BY <1>5 DEF Remove, Asks, Click, UIFree
  <2>2. Apt("remove", "enter", "", None, 0, "armed")
    BY DEF Apt, Fits, Does, AfterCheck, PlaceOf, Outside, Entering, AtSearch, Finally, Quitting, QuitStep
  <2>3. Stands(w, "armed")
    BY <1>0, <2>1, Modes, Places
  <2> QED BY <1>0, <1>a, <2>1, <2>2, <2>3, Names
<1>6. CASE DiagRestart(w)
  <2>1. up /\ up' /\ Begin(w, "restart", "enter", None) /\ RT!Request(w, desired)
    BY <1>6 DEF DiagRestart, past, Click, UIFree
  <2>2. Apt("restart", "enter", "", None, 0, "armed")
    BY DEF Apt, Fits, Does, AfterCheck, PlaceOf, Outside, Entering, AtSearch, Finally, Quitting, QuitStep
  <2>3. Stands(w, "armed")
    BY <1>0, <2>1, Places
  <2> QED BY <1>0, <1>a, <2>1, <2>2, <2>3, Names
<1>7. CASE Toggle(w)
  <2>1. up /\ up' /\ Begin(w, "restart", "token", None) /\ UNCHANGED ctl /\ at[w] = "idle"
    BY <1>7 DEF Toggle, past, Click, UIFree, Begin, Free
  <2>2. Apt("restart", "token", "", None, 0, at[w])
    BY <2>1 DEF Apt, Fits, Does, AfterCheck, PlaceOf, Outside, Entering, AtSearch, Finally, Quitting, QuitStep
  <2>3. Stands(w, at[w])
    BY <1>0, <2>1, Places
  <2> QED BY <1>0, <1>a, <2>1, <2>2, <2>3, Names
<1>8. CASE Lists(w)
  <2>1. up /\ up' /\ Begin(w, "lists", "download", None) /\ RT!Capture(w)
    BY <1>8 DEF Lists, past, Click, UIFree
  <2>2. Apt("lists", "download", "", None, 0, "armed")
    BY DEF Apt, Fits, Does, AfterCheck, PlaceOf, Outside, Entering, AtSearch, Finally, Quitting, QuitStep
  <2>3. Stands(w, "armed")
    BY <1>0, <2>1, Places
  <2> QED BY <1>0, <1>a, <2>1, <2>2, <2>3, Names
<1>9. ASSUME up, NEW flags, BeginSearch(w, flags) PROVE Guided(w)
  <2>1. up' /\ Begin(w, "search", "begin", None) /\ RT!Request(w, desired)
    BY <1>9 DEF BeginSearch, past
  <2>2. Apt("search", "begin", "", None, 0, "armed")
    BY DEF Apt, Fits, Does, AfterCheck, PlaceOf, Outside, Entering, AtSearch, Finally, Quitting, QuitStep
  <2>3. Stands(w, "armed")
    BY <1>0, <2>1, Places
  <2> QED BY <1>0, <1>9, <1>a, <2>1, <2>2, <2>3, Names
<1>10. CASE SimpleFix(w)
  <2>1. CASE UNCHANGED <<job, ctl, past>>
    BY <2>1 DEF Guided, Alone, Control, ctl, past
  <2> QED BY <1>9, <1>10, <2>1 DEF SimpleFix, Click, UIFree
<1>11. ASSUME NEW b \in BOOLEAN, Quit(w, b) PROVE Guided(w)
  <2>1. /\ up /\ up' /\ at[w] = "idle"
        /\ UNCHANGED ctl \/ RT!Announce("stopped")
    BY <1>11 DEF Quit, Asks, past, Click, UIFree, Free
  <2>2. PICK op \in {"quit", "quitStop"}, pc \in {"q.join", "q.close"} :
           job' = [job EXCEPT ![w] = [Idle EXCEPT !.op = op, !.pc = pc, !.t = cur]]
    BY <1>11, Zenon DEF Quit
  <2>3. Becomes(w, op, pc, "", Idle.s, 0)
    <3>1. op \in Operation /\ pc \in PC
      BY <2>2, Names
    <3> QED BY <1>0, <2>2, <3>1, Begins, Zenon
  <2>4. Stands(w, at[w])
    BY <1>0, <2>1, Modes, Places
  <2>5. Apt(op, pc, "", Idle.s, 0, at[w])
    BY <2>1, <2>2 DEF Apt, Fits, Does, AfterCheck, PlaceOf, Outside, Entering, AtSearch, Finally, Quitting, QuitStep
  <2> QED BY <1>0, <2>1, <2>3, <2>4, <2>5, Drives DEF Turns
<1>12. CASE QuitForUpdate(w)
  <2> DEFINE s == IF ProcAlive THEN name ELSE None
  <2>1. up /\ up' /\ Begin(w, "update", "q.close", s) /\ UNCHANGED ctl /\ at[w] = "idle" /\ s \in Strategy \cup {None}
    BY <1>12 DEF QuitForUpdate, past, Click, UIFree, Begin, Free
  <2> HIDE DEF s
  <2>2. Apt("update", "q.close", "", s, 0, at[w])
    BY <2>1 DEF Apt, Fits, Does, AfterCheck, PlaceOf, Outside, Entering, AtSearch, Finally, Quitting, QuitStep
  <2>3. Stands(w, at[w])
    BY <1>0, <2>1, Places
  <2> QED BY <1>0, <1>a, <2>1, <2>2, <2>3, Names
<1>13. CASE StartupRestore(w)
  <2>1. up /\ up' /\ Begin(w, "restore", "enter", None) /\ RT!Request(w, "service")
    BY <1>13 DEF StartupRestore, past, UIFree
  <2>2. Apt("restore", "enter", "", None, 0, "armed")
    BY DEF Apt, Fits, Does, AfterCheck, PlaceOf, Outside, Entering, AtSearch, Finally, Quitting, QuitStep
  <2>3. Stands(w, "armed")
    BY <1>0, <2>1, Modes, Places
  <2> QED BY <1>0, <1>a, <2>1, <2>2, <2>3, Names
<1>14. CASE StartupResume(w)
  BY <1>1, <1>14 DEF StartupResume, UIFree
<1>15. ASSUME NEW s \in Strategy, Start(w, s) PROVE Guided(w)
  BY <1>1, <1>15, HostAssumption DEF Start, Click, UIFree
<1>16. CASE Search(w)
  BY <1>9, <1>16 DEF Search, Click, UIFree
<1> QED BY <1>2, <1>3, <1>4, <1>5, <1>6, <1>7, <1>8, <1>10, <1>11, <1>12, <1>13, <1>14, <1>15, <1>16
        DEF Handler

LEMMA NextSteers ==
    ASSUME P!IInv, Control, ui.resume \in Strategy \cup {None}, name \in Strategy \cup {None},
           args \in Strategy \cup {None}, [Next]_vars
    PROVE  Control'
<1>1. ASSUME NEW w \in Worker, Handler(w) PROVE Control'
  BY <1>1, HandlerSteers DEF Guided
<1>2. ASSUME NEW w \in Worker, Work(w) PROVE Control'
  BY <1>2, WorkSteers DEF Guided
<1>3. CASE SearchStop \/ Die \/ Foreign \/ UNCHANGED vars
  BY <1>3 DEF SearchStop, Die, Foreign, vars, Control, ctl, past
<1>4. CASE AdoptService
  BY <1>4 DEF AdoptService, RT!Announce, Control, past
<1>5. CASE Crash
  BY <1>5, Goners DEF Crash
<1>6. CASE Boot
  <2>1. ~up /\ up' /\ job' = job /\ at' = [w \in Worker |-> "idle"]
    BY <1>6 DEF Boot
  <2>2. \A w \in Worker : job[w].pc = "idle"
    BY <2>1, IdleJob DEF Control, IsIdle
  <2> QED BY <2>1, <2>2 DEF Control, PlaceOf, Outside
<1> QED BY <1>1, <1>2, <1>3, <1>4, <1>5, <1>6 DEF Next

-----------------------------------------------------------------------------
(* The types of the data. *)
UITypes == [auto : BOOLEAN, cancel : BOOLEAN, apply : BOOLEAN, start : BOOLEAN, stop : BOOLEAN,
            closing : BOOLEAN, nostart : BOOLEAN, restore : BOOLEAN, resume : Strategy \cup {None}]
DataTypes == /\ HostTypeOK
             /\ args \in Strategy \cup {None} /\ name \in Strategy \cup {None}
             /\ cfg \in Strategy /\ marker \in BOOLEAN /\ resume \in Strategy \cup {None}
             /\ up \in BOOLEAN /\ boots \in 0..MaxBoots
             /\ asked \in Strategy \cup {None, "stop"} /\ failed \in BOOLEAN /\ silent \in BOOLEAN

(* A process gets a PID that nobody holds. *)
LEMMA NewPidIsFresh == Fresh # {} => NewPid \in Pid /\ win[NewPid] = None /\ NewPid # proc /\ NewPid # trial
<1>1. Fresh # {} => NewPid \in Fresh
  BY DEF NewPid
<1> QED BY <1>1 DEF Fresh

LEMMA SpawnedTypes ==
    ASSUME DataTypes, NEW s \in Strategy \cup {None}, NEW n \in Strategy \cup {None}, Spawned(s, n)
    PROVE  HostTypeOK' /\ args' \in Strategy \cup {None} /\ name' \in Strategy \cup {None}
BY NewPidIsFresh DEF DataTypes, HostTypeOK, Spawned

LEMMA EndedTypes == ASSUME HostTypeOK, NEW p \in Pid \cup {None} PROVE Ended(p) \in [Pid -> Strategy \cup {None}]
BY DEF Ended, HostTypeOK

LEMMA SameData == ASSUME DataTypes, UNCHANGED <<host, args, name, files, past>> PROVE DataTypes'
BY DEF DataTypes, HostTypeOK, host, files, past

LEMMA ErredTypes == ASSUME DataTypes, NEW w \in Worker, Errs(w)
                    PROVE  UNCHANGED <<up, boots, asked>> /\ failed' \in BOOLEAN /\ silent' \in BOOLEAN
<1>1. silent \in BOOLEAN /\ failed \in BOOLEAN /\ (silent \/ RT!Valid(tok[w])) \in BOOLEAN
  BY DEF DataTypes
<1>2. CASE Vanishes(w)
  BY <1>1, <1>2, Zenon DEF Vanishes
<1>3. CASE Reports
  BY <1>1, <1>3, Zenon DEF Reports
<1> QED BY <1>2, <1>3, Zenon DEF Errs

(* What most steps leave of the data: at most a process of ours ends, the service is
   stopped, and what was told to the user changes. *)
Told  == UNCHANGED <<up, boots, asked>> /\ failed' \in BOOLEAN /\ silent' \in BOOLEAN
Halts == /\ Told
         /\ \/ win' = Ended(trial) /\ trial' = None /\ UNCHANGED proc
            \/ win' = Ended(proc) /\ proc' = None /\ UNCHANGED trial
            \/ UNCHANGED <<win, proc, trial>>
         /\ SvcStops \/ UNCHANGED svc
         /\ UNCHANGED <<svcRuns, foreign, cfg, resume>> /\ marker' \in BOOLEAN
         /\ args' \in {args, None} /\ name' \in {name, None}

LEMMA HaltTypes == ASSUME DataTypes, Halts PROVE DataTypes'
<1>1. HostTypeOK /\ UNCHANGED <<svcRuns, foreign>>
  BY DEF DataTypes, Halts
<1>2. win' \in [Pid -> Strategy \cup {None}]
  BY <1>1, EndedTypes DEF Halts, HostTypeOK
<1>3. proc' \in Pid \cup {None} /\ trial' \in Pid \cup {None}
  BY <1>1 DEF Halts, HostTypeOK
<1>4. svc' \in {"absent", "stopped", "running"}
  BY <1>1 DEF Halts, HostTypeOK, SvcStops
<1>5. HostTypeOK'
  BY <1>1, <1>2, <1>3, <1>4 DEF HostTypeOK
<1>6. /\ args' \in Strategy \cup {None} /\ name' \in Strategy \cup {None} /\ cfg' \in Strategy
      /\ marker' \in BOOLEAN /\ resume' \in Strategy \cup {None}
  BY DEF DataTypes, Halts
<1>7. up' \in BOOLEAN /\ boots' \in 0..MaxBoots /\ asked' \in Strategy \cup {None, "stop"}
  BY DEF DataTypes, Halts, Told
<1> QED BY <1>5, <1>6, <1>7 DEF DataTypes, Halts, Told

LEMMA StillTypes == ASSUME DataTypes, Told, UNCHANGED <<host, args, name, cfg, resume>>, marker' \in BOOLEAN
                    PROVE  DataTypes'
BY HaltTypes DEF Halts, host

LEMMA ToldAlways ==
    ASSUME DataTypes, NEW w \in Worker,
           Errs(w) \/ Ends(w) \/ Fails(w) \/ RestoreFails(w) \/ Reports \/ UNCHANGED past
    PROVE  Told
<1>1. silent \in BOOLEAN /\ failed \in BOOLEAN
  BY DEF DataTypes
<1>2. Reports => Told
  BY <1>1, Zenon DEF Reports, Told
<1>3. UNCHANGED past => Told
  BY <1>1, Zenon DEF past, Told
<1>4. Errs(w) => Told
  BY ErredTypes, Zenon DEF Told
<1> QED BY <1>2, <1>3, <1>4, Zenon DEF Ends, Fails, RestoreFails

(* A step of a worker keeps the types; Control provides the strategies it applies. *)
LEMMA WorkData ==
    ASSUME DataTypes, Control, NEW w \in Worker, Work(w) PROVE DataTypes'
<1>0. /\ DataTypes /\ HostTypeOK /\ job[w] \in Jobs /\ Sound(job[w])
      /\ args \in Strategy \cup {None} /\ name \in Strategy \cup {None}
  BY DEF Control, DataTypes
<1>1. job[w].s \in Strategy \cup {None} /\ job[w].orig \in Strategy \cup {None} /\ job[w].oname \in Strategy \cup {None}
  BY <1>0 DEF Jobs
<1>2. /\ Ended(proc) \in [Pid -> Strategy \cup {None}] /\ Ended(trial) \in [Pid -> Strategy \cup {None}]
      /\ [p \in Pid |-> None] \in [Pid -> Strategy \cup {None}]
  BY <1>0, EndedTypes DEF HostTypeOK
<1>17. SvcStops => svc' \in {"absent", "stopped", "running"}
  BY <1>0 DEF HostTypeOK, SvcStops
<1>18. Errs(w) => UNCHANGED <<up, boots, asked>> /\ failed' \in BOOLEAN /\ silent' \in BOOLEAN
  BY ErredTypes
<1>19. marker \in BOOLEAN /\ (Told => UNCHANGED <<up, boots, asked>> /\ failed' \in BOOLEAN /\ silent' \in BOOLEAN)
  BY <1>0 DEF DataTypes, Told
<1>20. Errs(w) \/ Ends(w) \/ Fails(w) \/ RestoreFails(w) \/ Reports \/ UNCHANGED past => Told
  BY <1>0, ToldAlways
<1> USE DEF files, app
<1>3. CASE \/ TakeToken(w) \/ Enter(w) \/ TurnAway(w) \/ Check(w) \/ StartTest(w) \/ Raise(w)
           \/ Decide(w) \/ InstallLeave(w) \/ ListsDone(w) \/ Unmark(w) \/ SearchBegin(w)
  <2>1. CASE TakeToken(w) \/ Enter(w) \/ TurnAway(w) \/ Check(w)
    <3>1. Told /\ UNCHANGED <<host, args, name, cfg, resume>> /\ marker' \in BOOLEAN
      BY <1>19, <1>20, <2>1, Zenon DEF TakeToken, Enter, TurnAway, Check
    <3> QED BY <1>0, <3>1, StillTypes
  <2>2. CASE StartTest(w) \/ Decide(w) \/ InstallLeave(w) \/ ListsDone(w)
    <3>1. Told /\ UNCHANGED <<host, args, name, cfg, resume>> /\ marker' \in BOOLEAN
      BY <1>19, <1>20, <2>2, Zenon DEF StartTest, Decide, InstallLeave, ListsDone
    <3> QED BY <1>0, <3>1, StillTypes
  <2>3. CASE Raise(w) \/ Unmark(w) \/ SearchBegin(w)
    <3>1. Told /\ UNCHANGED <<host, args, name, cfg, resume>> /\ marker' \in BOOLEAN
      BY <1>19, <1>20, <2>3, Zenon DEF Raise, Unmark, SearchBegin
    <3> QED BY <1>0, <3>1, StillTypes
  <2> QED BY <1>3, <2>1, <2>2, <2>3
<1>4. CASE \/ SearchLook(w) \/ SearchContext(w) \/ SearchNext(w) \/ SearchExit(w) \/ SearchLock(w)
           \/ SearchUnmark(w) \/ SearchDone(w) \/ QuitJoin(w) \/ QuitClose(w) \/ QuitSignal(w) \/ QuitLock(w)
  <2>1. CASE SearchLook(w) \/ SearchContext(w) \/ SearchNext(w) \/ SearchExit(w)
    <3>1. Told /\ UNCHANGED <<host, args, name, cfg, resume>> /\ marker' \in BOOLEAN
      BY <1>19, <1>20, <2>1, Zenon DEF SearchLook, SearchContext, SearchNext, SearchExit, SvcRunning
    <3> QED BY <1>0, <3>1, StillTypes
  <2>2. CASE SearchLock(w) \/ SearchUnmark(w) \/ SearchDone(w)
    <3>1. Told /\ UNCHANGED <<host, args, name, cfg, resume>> /\ marker' \in BOOLEAN
      BY <1>19, <1>20, <2>2, Zenon DEF SearchLock, SearchUnmark, SearchDone
    <3> QED BY <1>0, <3>1, StillTypes
  <2>3. CASE QuitJoin(w) \/ QuitClose(w) \/ QuitSignal(w) \/ QuitLock(w)
    <3>1. Told /\ UNCHANGED <<host, args, name, cfg, resume>> /\ marker' \in BOOLEAN
      BY <1>19, <1>20, <2>3, Zenon DEF QuitJoin, QuitClose, QuitSignal, QuitLock
    <3> QED BY <1>0, <3>1, StillTypes
  <2> QED BY <1>4, <2>1, <2>2, <2>3
<1>7. CASE HaltLocal(w)
  <2>1. Halts
    BY <1>19, <1>20, <1>7, Zenon DEF HaltLocal, Halts, host
  <2> QED BY <1>0, <2>1, HaltTypes
<1>9. CASE StopService(w)
  <2>1. Halts
    BY <1>19, <1>20, <1>9, Zenon DEF StopService, Halts, host
  <2> QED BY <1>0, <2>1, HaltTypes
<1>11. CASE SearchSvcOff(w) \/ SearchHalt(w) \/ SearchProbe(w)
  <2>1. CASE SearchSvcOff(w)
    <3>1. Halts
      BY <1>19, <1>20, <2>1, Zenon DEF SearchSvcOff, Halts, host
    <3> QED BY <1>0, <3>1, HaltTypes
  <2>2. CASE SearchHalt(w)
    <3>1. Halts
      BY <1>19, <1>20, <2>2, Zenon DEF SearchHalt, Halts, host
    <3> QED BY <1>0, <3>1, HaltTypes
  <2>3. CASE SearchProbe(w)
    <3>1. Halts
      BY <1>19, <1>20, <2>3, Zenon DEF SearchProbe, Halts, host
    <3> QED BY <1>0, <3>1, HaltTypes
  <2> QED BY <1>11, <2>1, <2>2, <2>3
<1>13. CASE SearchFinally(w)
  <2>1. Halts
    BY <1>19, <1>20, <1>13, Zenon DEF SearchFinally, Halts, host
  <2> QED BY <1>0, <2>1, HaltTypes
<1> USE DEF At, Ends, Reports, Fails, RestoreFails, past, host
<1>5. CASE Claim(w) \/ Persist(w) \/ InstallEpilogue(w)
  <2>1. job[w].pc \in {"persist", "epilogue"} => job[w].s \in Strategy
    BY <1>0 DEF Sound, Fits, Does, AtSearch, Finally, QuitStep
  <2> QED BY <1>0, <1>1, <1>5, <2>1 DEF Claim, Persist, InstallEpilogue, DataTypes, HostTypeOK
<1>6. CASE Spawn(w)
  BY <1>0, <1>1, <1>18, <1>6, SpawnedTypes DEF Spawn, DataTypes, HostTypeOK
<1>8. CASE SvcOff(w) \/ SvcConfig(w) \/ SvcOn(w) \/ RemoveService(w)
  <2>1. CASE SvcOff(w)
    <3>1. Halts
      BY <1>19, <1>20, <2>1, Zenon DEF SvcOff, Halts, host
    <3> QED BY <1>0, <3>1, HaltTypes
  <2>2. CASE SvcConfig(w)
    BY <1>0, <1>1, <1>18, <2>2, ZenonT(60) DEF SvcConfig, DataTypes, HostTypeOK
  <2>3. CASE SvcOn(w)
    BY <1>0, <1>1, <1>18, <2>3, ZenonT(60) DEF SvcOn, SvcStarts, DataTypes, HostTypeOK
  <2>4. CASE RemoveService(w)
    BY <1>0, <1>2, <1>17, <1>18, <2>4, ZenonT(60) DEF RemoveService, DataTypes, HostTypeOK
  <2> QED BY <1>8, <2>1, <2>2, <2>3, <2>4
<1>10. CASE StopLocal(w)
  BY <1>0, <1>2, <1>18, <1>10 DEF StopLocal, DataTypes, HostTypeOK
<1>12. CASE SearchSpawn(w)
  BY <1>0, <1>18, <1>12, NewPidIsFresh DEF SearchSpawn, DataTypes, HostTypeOK
<1>14. CASE SearchRestore(w)
  BY <1>0, <1>1, <1>14, SpawnedTypes, ZenonT(60) DEF SearchRestore, SvcStarts, DataTypes, HostTypeOK
<1>15. CASE QuitStop(w)
  <2> DEFINE Fine(f) == f \in [Pid -> Strategy \cup {None}]
             update == job[w].op = "update"
             stopped == IF update THEN win ELSE Ended(trial)
  <2>1. /\ Fine(stopped) /\ (proc # None => Fine([stopped EXCEPT ![proc] = None]))
        /\ proc' \in {proc, None} /\ trial' \in {trial, None} /\ args' \in {args, None} /\ name' \in {name, None}
        /\ resume' \in {resume, job[w].s} /\ failed' \in {failed, TRUE}
        /\ UNCHANGED <<svc, svcRuns, foreign, cfg, marker, up, boots, asked, silent>>
    BY <1>0, <1>2, <1>15 DEF QuitStop, HostTypeOK
  <2>2. win' = win \/ win' = stopped \/ (proc # None /\ win' = [stopped EXCEPT ![proc] = None])
    BY <1>15, Zenon DEF QuitStop
  <2>3. Fine(win') /\ UNCHANGED <<svc, svcRuns, foreign, cfg, marker, up, boots, asked, silent>>
    BY <1>0, <2>1, <2>2 DEF HostTypeOK
  <2>4. proc' \in Pid \cup {None} /\ trial' \in Pid \cup {None} /\ args' \in Strategy \cup {None}
          /\ name' \in Strategy \cup {None}
    BY <1>0, <2>1 DEF HostTypeOK
  <2>5. resume' \in Strategy \cup {None} /\ failed' \in BOOLEAN
    BY <1>0, <1>1, <2>1 DEF DataTypes
  <2> QED BY <1>0, <2>3, <2>4, <2>5 DEF DataTypes, HostTypeOK
<1>16. CASE Exit(w)
  BY <1>0, <1>2, <1>16 DEF Exit, Gone, DataTypes, HostTypeOK
<1> QED BY <1>3, <1>4, <1>5, <1>6, <1>7, <1>8, <1>9, <1>10, <1>11, <1>12, <1>13, <1>14, <1>15, <1>16 DEF Work

LEMMA NextData ==
    ASSUME DataTypes, Control, ui.resume \in Strategy \cup {None}, [Next]_vars PROVE DataTypes'
<1>0. DataTypes /\ HostTypeOK
  BY DEF DataTypes
<1>1. ASSUME NEW w \in Worker, Handler(w) PROVE DataTypes'
  <2> USE DEF Asks, past, files, app, host
  <2>1. ASSUME NEW s \in Strategy \cup {None}, StartWith(w, s) PROVE DataTypes'
    BY <1>0, <2>1, ZenonT(60) DEF StartWith, DataTypes, HostTypeOK
  <2>2. ASSUME NEW s \in Strategy, Start(w, s) \/ Install(w, s) \/ RestoreLast(w, s) PROVE DataTypes'
    BY <1>0, <2>1, <2>2 DEF Start, Install, RestoreLast, DataTypes, HostTypeOK
  <2>3. ASSUME NEW op, Stop(w, op) PROVE DataTypes'
    BY <1>0, <2>3, ZenonT(60) DEF Stop, DataTypes, HostTypeOK
  <2>4. CASE Remove(w) \/ DiagRestart(w) \/ Toggle(w) \/ Lists(w)
    <3>1. CASE Remove(w) \/ DiagRestart(w)
      BY <1>0, <3>1, Zenon DEF Remove, DiagRestart, DataTypes, HostTypeOK
    <3>2. CASE Toggle(w)
      BY <1>0, <3>2 DEF Toggle, DataTypes, HostTypeOK
    <3>3. CASE Lists(w)
      BY <3>3, SameData, Zenon DEF Lists
    <3> QED BY <2>4, <3>1, <3>2, <3>3
  <2>5. CASE Search(w) \/ SimpleFix(w)
    <3>1. CASE Search(w)
      BY <3>1, SameData, Zenon DEF Search, BeginSearch
    <3>2. CASE SimpleFix(w)
      BY <3>2, SameData, Zenon DEF SimpleFix, BeginSearch
    <3> QED BY <2>5, <3>1, <3>2
  <2>6. ASSUME NEW b, Quit(w, b) PROVE DataTypes'
    <3>1. /\ (asked' = "stop" /\ failed' = FALSE /\ silent' = FALSE) \/ UNCHANGED <<asked, failed, silent>>
          /\ UNCHANGED <<host, args, name, files, up, boots>>
      BY <2>6, Zenon DEF Quit
    <3>2. asked' \in Strategy \cup {None, "stop"} /\ failed' \in BOOLEAN /\ silent' \in BOOLEAN
      BY <1>0, <3>1 DEF DataTypes
    <3> QED BY <1>0, <3>1, <3>2 DEF DataTypes, HostTypeOK
  <2>7. CASE QuitForUpdate(w) \/ StartupRestore(w)
    BY <1>0, <2>7, ZenonT(60) DEF QuitForUpdate, StartupRestore, DataTypes, HostTypeOK
  <2>8. CASE StartupResume(w)
    BY <2>1, <2>8 DEF StartupResume
  <2> QED BY <1>1, <2>2, <2>3, <2>4, <2>5, <2>6, <2>7, <2>8 DEF Handler
<1>2. ASSUME NEW w \in Worker, Work(w) PROVE DataTypes'
  BY <1>2, WorkData
<1>3. CASE SearchStop \/ AdoptService \/ UNCHANGED vars
  BY <1>0, <1>3, ZenonT(60) DEF SearchStop, AdoptService, vars, past, files, app, host, DataTypes, HostTypeOK
<1>4. CASE Crash
  BY <1>0, <1>4 DEF Crash, Gone, files, app, past, DataTypes, HostTypeOK
<1>5. CASE Boot
  <2>1. /\ boots < MaxBoots /\ boots' = boots + 1 /\ boots \in 0..MaxBoots
        /\ UNCHANGED <<host, cfg, marker>> /\ args' = None /\ name' = None /\ resume' = None /\ asked' = None
    BY <1>0, <1>5, Zenon DEF Boot, DataTypes
  <2>2. up' \in BOOLEAN /\ failed' \in BOOLEAN /\ silent' \in BOOLEAN
    BY <1>5, Zenon DEF Boot
  <2>3. boots' \in 0..MaxBoots
    BY <2>1, OpsAssumption
  <2> QED BY <1>0, <2>1, <2>2, <2>3 DEF host, DataTypes, HostTypeOK
<1>6. CASE Die \/ Foreign
  BY <1>0, <1>6, ZenonT(60) DEF Die, Foreign, files, app, past, DataTypes, HostTypeOK
<1> QED BY <1>1, <1>2, <1>3, <1>4, <1>5, <1>6 DEF Next

-----------------------------------------------------------------------------
(* The flags of the application object: those that matter here, whatever else is assigned. *)
FlagsAre(u, stop, nostart, closing) ==
    u \in UITypes /\ (u.stop <=> stop) /\ (u.nostart <=> nostart) /\ (u.closing <=> closing)

LEMMA Flagged ==
    ASSUME NEW u \in UITypes, NEW a \in BOOLEAN, NEW b \in BOOLEAN, NEW c \in BOOLEAN, NEW d \in BOOLEAN
    PROVE  /\ FlagsAre([u EXCEPT !.start = a], u.stop, u.nostart, u.closing)
           /\ FlagsAre([u EXCEPT !.apply = a], u.stop, u.nostart, u.closing)
           /\ FlagsAre([u EXCEPT !.cancel = a], u.stop, u.nostart, u.closing)
           /\ FlagsAre([u EXCEPT !.restore = a], u.stop, u.nostart, u.closing)
           /\ FlagsAre([u EXCEPT !.auto = a, !.cancel = b], u.stop, u.nostart, u.closing)
           /\ FlagsAre([u EXCEPT !.resume = None, !.start = a], u.stop, u.nostart, u.closing)
           /\ FlagsAre([u EXCEPT !.start = a, !.stop = b], b, u.nostart, u.closing)
           /\ FlagsAre([u EXCEPT !.cancel = a, !.closing = b], u.stop, u.nostart, b)
           /\ FlagsAre([u EXCEPT !.auto = a, !.apply = b, !.cancel = c], u.stop, u.nostart, u.closing)
           /\ FlagsAre([u EXCEPT !.cancel = a, !.apply = b, !.stop = c, !.nostart = d], c, d, u.closing)
<1> USE DEF UITypes, FlagsAre
<1>1. /\ FlagsAre([u EXCEPT !.start = a], u.stop, u.nostart, u.closing)
      /\ FlagsAre([u EXCEPT !.apply = a], u.stop, u.nostart, u.closing)
      /\ FlagsAre([u EXCEPT !.cancel = a], u.stop, u.nostart, u.closing)
      /\ FlagsAre([u EXCEPT !.restore = a], u.stop, u.nostart, u.closing)
  OBVIOUS
<1>2. /\ FlagsAre([u EXCEPT !.auto = a, !.cancel = b], u.stop, u.nostart, u.closing)
      /\ FlagsAre([u EXCEPT !.resume = None, !.start = a], u.stop, u.nostart, u.closing)
      /\ FlagsAre([u EXCEPT !.start = a, !.stop = b], b, u.nostart, u.closing)
      /\ FlagsAre([u EXCEPT !.cancel = a, !.closing = b], u.stop, u.nostart, b)
  OBVIOUS
<1>3. FlagsAre([u EXCEPT !.auto = a, !.apply = b, !.cancel = c], u.stop, u.nostart, u.closing)
  OBVIOUS
<1>4. FlagsAre([u EXCEPT !.cancel = a, !.apply = b, !.stop = c, !.nostart = d], c, d, u.closing)
  BY ZenonT(60)
<1> QED BY <1>1, <1>2, <1>3, <1>4

(* A worker changes the flags only when it ends: a stop then lowers its own. *)
Stopping(j) == j.op \in {"stop", "stopAll"}
FlagsKept == FlagsAre(ui', ui.stop, ui.nostart, ui.closing)
FlagsOver(w) == /\ FlagsAre(ui', ui.stop /\ ~Stopping(job[w]), ui.nostart, ui.closing)
                /\ job' = [job EXCEPT ![w] = Idle]

LEMMA FlagsStay == ui \in UITypes /\ UNCHANGED ui => FlagsKept
BY DEF FlagsKept, FlagsAre

LEMMA FinishFlags == ASSUME ui \in UITypes, NEW w, Finish(w) PROVE FlagsOver(w)
<1> DEFINE a == ui.start /\ job[w].op # "start"
           b == ui.stop /\ job[w].op \notin {"stop", "stopAll"}
<1>1. a \in BOOLEAN /\ b \in BOOLEAN
  OBVIOUS
<1>2. ui' = [ui EXCEPT !.start = a, !.stop = b] /\ job' = [job EXCEPT ![w] = Idle]
  BY DEF Finish
<1>3. FlagsAre(ui', b, ui.nostart, ui.closing)
  <2> HIDE DEF a, b
  <2> QED BY <1>1, <1>2, Flagged
<1> QED BY <1>2, <1>3, Zenon DEF FlagsOver, Stopping

LEMMA CancelFlags == ui \in UITypes /\ ui' = [ui EXCEPT !.cancel = TRUE] => FlagsKept
BY Flagged, Zenon DEF FlagsKept

LEMMA WorkFlagMoves ==
    ASSUME NEW w \in Worker, Work(w)
    PROVE  UNCHANGED ui \/ Finish(w) \/ ui' = [ui EXCEPT !.cancel = TRUE] \/ SearchDone(w)
<1> USE DEF At, Ends, Errs, Reports, Vanishes, Fails, RestoreFails, app
<1>1. CASE \/ TakeToken(w) \/ Enter(w) \/ TurnAway(w) \/ Check(w) \/ StartTest(w) \/ Raise(w) \/ Claim(w)
           \/ Spawn(w) \/ Persist(w) \/ HaltLocal(w)
  BY <1>1, Zenon DEF TakeToken, Enter, TurnAway, Check, StartTest, Raise, Claim, Spawn, Persist, HaltLocal
<1>2. CASE \/ Decide(w) \/ SvcOff(w) \/ SvcConfig(w) \/ SvcOn(w) \/ InstallLeave(w)
           \/ InstallEpilogue(w) \/ RemoveService(w) \/ StopService(w)
  BY <1>2, Zenon DEF Decide, SvcOff, SvcConfig, SvcOn, InstallLeave, InstallEpilogue, RemoveService, StopService
<1>3. CASE StopLocal(w) \/ ListsDone(w) \/ Unmark(w) \/ SearchBegin(w) \/ SearchLook(w) \/ SearchSvcOff(w)
  BY <1>3, Zenon DEF StopLocal, ListsDone, Unmark, SearchBegin, SearchLook, SearchSvcOff
<1>4. CASE \/ SearchContext(w) \/ SearchHalt(w) \/ SearchNext(w) \/ SearchSpawn(w) \/ SearchProbe(w)
           \/ SearchExit(w) \/ SearchLock(w) \/ SearchFinally(w)
  BY <1>4, Zenon DEF SearchContext, SearchHalt, SearchNext, SearchSpawn, SearchProbe, SearchExit, SearchLock,
     SearchFinally
<1>5. CASE \/ SearchRestore(w) \/ SearchUnmark(w) \/ QuitJoin(w) \/ QuitClose(w) \/ QuitSignal(w) \/ QuitLock(w)
           \/ QuitStop(w) \/ Exit(w)
  BY <1>5, Zenon DEF SearchRestore, SearchUnmark, QuitJoin, QuitClose, QuitSignal, QuitLock, QuitStop, Exit, Gone
<1> QED BY <1>1, <1>2, <1>3, <1>4, <1>5 DEF Work

LEMMA WorkFlags ==
    ASSUME ui \in UITypes, NEW w \in Worker, Work(w) PROVE FlagsKept \/ FlagsOver(w)
<1>1. CASE UNCHANGED ui \/ Finish(w) \/ ui' = [ui EXCEPT !.cancel = TRUE]
  BY <1>1, FlagsStay, FinishFlags, CancelFlags, Zenon
<1>2. CASE SearchDone(w)
  <2> DEFINE b == IF ui.closing THEN ui.apply ELSE FALSE
             c == ui.cancel \/ ~RT!Valid(tok[w]) \/ ~job[w].complete
  <2>1. ui' = [ui EXCEPT !.auto = FALSE, !.apply = b, !.cancel = c]
    BY <1>2, Zenon DEF SearchDone
  <2>2. b \in BOOLEAN /\ c \in BOOLEAN
    BY DEF UITypes
  <2> HIDE DEF b, c
  <2> QED BY <2>1, <2>2, Flagged, Zenon DEF FlagsKept
<1> QED BY <1>1, <1>2, WorkFlagMoves

LEMMA FlagsTyped == ASSUME FlagsKept \/ (\E w \in Worker : FlagsOver(w)) PROVE ui' \in UITypes
BY DEF FlagsKept, FlagsOver, FlagsAre

(* Only a stop raises the flag of a stop, only an exit that of an exit. *)
LEMMA HandlerFlags ==
    ASSUME ui \in UITypes, NEW w \in Worker, Handler(w)
    PROVE  \/ FlagsKept
           \/ (\E op \in {"stop", "stopAll"} : Stop(w, op)) /\ FlagsAre(ui', TRUE, TRUE, ui.closing)
           \/ (QuitForUpdate(w) \/ \E b \in BOOLEAN : Quit(w, b)) /\ FlagsAre(ui', ui.stop, ui.nostart, TRUE)
<1> DEFINE Kinds == \/ UNCHANGED ui \/ ui' = [ui EXCEPT !.start = TRUE] \/ ui' = [ui EXCEPT !.restore = FALSE]
                    \/ ui' = [ui EXCEPT !.resume = None, !.start = TRUE]
                    \/ ui' = [ui EXCEPT !.auto = TRUE, !.cancel = FALSE]
                    \/ ui' = [[ui EXCEPT !.apply = TRUE] EXCEPT !.auto = TRUE, !.cancel = FALSE]
                    \/ ui' = [ui EXCEPT !.apply = TRUE]
<1>1. ASSUME Kinds PROVE FlagsKept
  <2>1. CASE ui' = [[ui EXCEPT !.apply = TRUE] EXCEPT !.auto = TRUE, !.cancel = FALSE]
    <3> DEFINE u == [ui EXCEPT !.apply = TRUE]
    <3>1. FlagsAre(u, ui.stop, ui.nostart, ui.closing)
      BY Flagged, Zenon
    <3>2. u \in UITypes
      BY <3>1, Zenon DEF FlagsAre
    <3>3. ui' = [u EXCEPT !.auto = TRUE, !.cancel = FALSE]
      BY <2>1
    <3> HIDE DEF u
    <3>4. FlagsAre(ui', u.stop, u.nostart, u.closing)
      BY <3>2, <3>3, Flagged, Zenon
    <3> QED BY <3>1, <3>4 DEF FlagsAre, FlagsKept
  <2> QED BY <1>1, <2>1, FlagsStay, Flagged, Zenon DEF FlagsKept
<1>2. ASSUME NEW op \in {"stop", "stopAll"}, Stop(w, op) PROVE FlagsAre(ui', TRUE, TRUE, ui.closing)
  BY <1>2, Flagged, Zenon DEF Stop
<1>3. CASE QuitForUpdate(w) \/ \E b \in BOOLEAN : Quit(w, b)
  <2>1. ui' = [ui EXCEPT !.cancel = TRUE, !.closing = TRUE]
    BY <1>3, Zenon DEF QuitForUpdate, Quit
  <2>2. FlagsAre(ui', ui.stop, ui.nostart, TRUE)
    BY <2>1, Flagged, Zenon
  <2> QED BY <1>3, <2>2
<1>4. ASSUME NEW s \in Strategy, Start(w, s) \/ Install(w, s) \/ RestoreLast(w, s) PROVE Kinds
  BY <1>4, Zenon DEF Start, Install, RestoreLast, app
<1>5. CASE Remove(w) \/ DiagRestart(w) \/ Toggle(w) \/ Lists(w) \/ Search(w) \/ SimpleFix(w)
  <2>1. Kinds
    BY <1>5, Zenon DEF Remove, DiagRestart, Toggle, Lists, Search, SimpleFix, BeginSearch, app
  <2> QED BY <1>1, <2>1
<1>6. CASE StartupRestore(w) \/ StartupResume(w)
  <2>1. Kinds
    BY <1>6, Zenon DEF StartupRestore, StartupResume
  <2> QED BY <1>1, <2>1
<1> HIDE DEF Kinds
<1> QED BY <1>1, <1>2, <1>3, <1>4, <1>5, <1>6 DEF Handler

(* What is common to all the arguments: types, flags and control. *)
BaseInv == P!IInv /\ DataTypes /\ ui \in UITypes /\ Control

(* The flags of a new program. *)
LEMMA FreshFlags ==
    ASSUME NEW b \in BOOLEAN, NEW r \in Strategy \cup {None}
    PROVE  FlagsAre([Flags EXCEPT !.restore = b, !.resume = r], FALSE, FALSE, FALSE) /\ Flags \in UITypes
<1> DEFINE All(a, c, d, e, f, g, h, i) ==
      [auto |-> a, cancel |-> c, apply |-> d, start |-> e, stop |-> f, closing |-> g, nostart |-> h,
       restore |-> i, resume |-> None]
<1>1. \A a, c, d, e, f, g, h, i \in BOOLEAN :
         FlagsAre(All(a, c, d, e, f, g, h, i), f, h, g)
  BY DEF UITypes, FlagsAre
<1>2. Flags = All(FALSE, FALSE, FALSE, FALSE, FALSE, FALSE, FALSE, FALSE)
  BY Zenon DEF Flags
<1> HIDE DEF All
<1>3. FlagsAre(Flags, FALSE, FALSE, FALSE)
  BY <1>1, <1>2, Zenon
<1> QED BY <1>3 DEF FlagsAre, UITypes

LEMMA InitBase == Init => BaseInv
<1> SUFFICES ASSUME Init PROVE BaseInv
  OBVIOUS
<1>1. DataTypes
  <2>1. /\ win = [p \in Pid |-> None] /\ proc = None /\ trial = None
        /\ svc \in {"absent", "stopped", "running"}
        /\ svcRuns = IF svc = "absent" THEN None ELSE CHOOSE s \in Strategy : TRUE
        /\ args = None /\ name = None /\ cfg \in Strategy /\ resume = None /\ boots = 0 /\ asked = None
    BY Zenon DEF Init
  <2>2. up \in BOOLEAN /\ failed \in BOOLEAN /\ silent \in BOOLEAN /\ marker \in BOOLEAN /\ foreign \in BOOLEAN
    BY Zenon DEF Init
  <2>3. (CHOOSE s \in Strategy : TRUE) \in Strategy
    BY <2>1
  <2>4. svcRuns \in Strategy \cup {None}
    BY <2>1, <2>3
  <2>5. 0 \in 0..MaxBoots
    BY OpsAssumption
  <2> HIDE DEF Init
  <2> QED BY <2>1, <2>2, <2>4, <2>5 DEF DataTypes, HostTypeOK
<1>2. ui \in UITypes
  BY FreshFlags, Zenon DEF Init
<1>3. Control
  <2>1. at = [w \in Worker |-> "idle"] /\ job = [w \in Worker |-> Idle] /\ up
    BY Zenon DEF Init, CtlInit, RT!Init
  <2> QED BY <2>1, IdleJob DEF IsIdle, Control, Sound, Fits, Does, PlaceOf, Outside
<1>4. P!IInv
  BY InitialController DEF Init
<1> QED BY <1>1, <1>2, <1>3, <1>4 DEF BaseInv

LEMMA NextFlags ==
    ASSUME ui \in UITypes, marker \in BOOLEAN, resume \in Strategy \cup {None}, [Next]_vars PROVE ui' \in UITypes
<1>1. ASSUME NEW w \in Worker, Handler(w) PROVE ui' \in UITypes
  BY <1>1, HandlerFlags, FlagsTyped DEF FlagsAre
<1>2. ASSUME NEW w \in Worker, Work(w) PROVE ui' \in UITypes
  BY <1>2, WorkFlags, FlagsTyped
<1>3. CASE SearchStop
  BY <1>3, CancelFlags, FlagsTyped DEF SearchStop
<1>4. CASE AdoptService \/ Crash \/ Die \/ Foreign \/ UNCHANGED vars
  BY <1>4, Zenon DEF AdoptService, Crash, Gone, Die, Foreign, vars, app
<1>5. CASE Boot
  <2>1. ui' = [Flags EXCEPT !.restore = marker, !.resume = resume]
    BY <1>5, Zenon DEF Boot
  <2> QED BY <2>1, FreshFlags DEF FlagsAre
<1> QED BY <1>1, <1>2, <1>3, <1>4, <1>5 DEF Next

LEMMA BaseStep == BaseInv /\ [Next]_vars => BaseInv'
<1> SUFFICES ASSUME BaseInv, [Next]_vars PROVE BaseInv'
  OBVIOUS
<1>1. /\ P!IInv /\ DataTypes /\ Control /\ ui \in UITypes /\ ui.resume \in Strategy \cup {None}
      /\ name \in Strategy \cup {None} /\ args \in Strategy \cup {None}
      /\ marker \in BOOLEAN /\ resume \in Strategy \cup {None}
  BY DEF BaseInv, DataTypes, UITypes
<1>2. DataTypes' /\ Control' /\ ui' \in UITypes
  BY <1>1, NextData, NextSteers, NextFlags
<1>3. P!IInv'
  BY <1>1, ControllerStep
<1> QED BY <1>2, <1>3 DEF BaseInv

LEMMA BaseHolds == Spec => []BaseInv
BY InitBase, BaseStep, PTL DEF Spec

(* Whatever the faults and whatever the user does, every variable keeps its type:
   the steps a worker takes are always steps of its operation. *)
THEOREM TypesHold == Spec => []TypeOK
<1>1. BaseInv => TypeOK
  BY DEF BaseInv, DataTypes, Control, TypeOK, RT!TypeOK, P!IInv, P!TypeOK, P!Place, RT!Place, P!Mode, RT!Mode
<1> QED BY <1>1, BaseHolds, PTL

(* Assigning to the other fields of a job keeps its operation. *)
LEMMA OpStays ==
    ASSUME job \in [Worker -> Jobs], NEW w \in Worker
    PROVE  /\ \A x : Goto(w, x) => job'[w].op = job[w].op /\ Alone(w)
           /\ \A x : CheckThen(w, x) => job'[w].op = job[w].op /\ Alone(w)
           /\ Finish(w) => job'[w].op = "none" /\ Alone(w)
<1>1. job[w] \in Jobs
  OBVIOUS
<1>2. ASSUME NEW x, Goto(w, x) PROVE job'[w].op = job[w].op /\ Alone(w)
  BY <1>1, <1>2 DEF Goto, Alone, Jobs
<1>3. ASSUME NEW x, CheckThen(w, x) PROVE job'[w].op = job[w].op /\ Alone(w)
  BY <1>1, <1>3 DEF CheckThen, Alone, Jobs
<1> QED BY <1>2, <1>3, Ceases DEF Becomes

HasOp(j, op) == j.op = op
LEMMA OpPuts ==
    ASSUME job \in [Worker -> Jobs], NEW w \in Worker, NEW op, NEW j, HasOp(j, op), job' = [job EXCEPT ![w] = j]
    PROVE  job'[w].op = op /\ Alone(w)
BY DEF HasOp, Alone

(* A worker keeps its operation, but that a download ends in a restart and a
   search may end in a switch; it commands nothing and forgets no error. *)
LEMMA WorkKeepsOp ==
    ASSUME job \in [Worker -> Jobs], NEW w \in Worker, Work(w)
    PROVE  /\ up /\ asked' = asked
           /\ up' => /\ Alone(w) /\ job'[w].op \in {job[w].op, "none", "restart", "switch"}
                     /\ job[w].pc \in {"download", "s.done"} \/ job'[w].op \in {job[w].op, "none"}
<1>0. job[w] \in Jobs
  OBVIOUS
<1>1. /\ \A x : Goto(w, x) => job'[w].op = job[w].op /\ Alone(w)
      /\ \A x : CheckThen(w, x) => job'[w].op = job[w].op /\ Alone(w)
      /\ Finish(w) => job'[w].op = "none" /\ Alone(w)
  BY OpStays
<1> DEFINE Moves == Finish(w) \/ (\E x : Goto(w, x)) \/ (\E x : CheckThen(w, x))
           Kept == /\ up /\ asked' = asked /\ Alone(w) /\ job'[w].op \in {job[w].op, "none", "restart", "switch"}
                   /\ job[w].pc \in {"download", "s.done"} \/ job'[w].op \in {job[w].op, "none"}
<1>2. ASSUME up, asked' = asked, Moves PROVE Kept
  BY <1>1, <1>2
<1> USE DEF At, Ends, Errs, Reports, Vanishes, past, Fails
<1>3. ASSUME \/ TakeToken(w) \/ Enter(w) \/ TurnAway(w) \/ Check(w) \/ StartTest(w) \/ Raise(w) \/ Claim(w)
             \/ Spawn(w) \/ Persist(w) \/ HaltLocal(w)
      PROVE Kept
  <2>1. up /\ asked' = asked /\ Moves
    BY <1>3, Zenon DEF TakeToken, Enter, TurnAway, Check, StartTest, Raise, Claim, Spawn, Persist, HaltLocal
  <2> QED BY <1>2, <2>1
<1>4. ASSUME \/ Decide(w) \/ SvcOff(w) \/ SvcConfig(w) \/ SvcOn(w) \/ InstallLeave(w)
             \/ InstallEpilogue(w) \/ RemoveService(w) \/ StopService(w) \/ StopLocal(w) \/ Unmark(w)
      PROVE Kept
  <2>1. up /\ asked' = asked /\ Moves
    BY <1>4, Zenon DEF Decide, SvcOff, SvcConfig, SvcOn, InstallLeave, InstallEpilogue, RemoveService, StopService,
       StopLocal, Unmark
  <2> QED BY <1>2, <2>1
<1>5. ASSUME \/ SearchSvcOff(w) \/ SearchHalt(w) \/ SearchExit(w) \/ SearchLock(w) \/ SearchUnmark(w)
             \/ QuitJoin(w) \/ QuitClose(w) \/ QuitSignal(w) \/ QuitLock(w) \/ QuitStop(w)
      PROVE Kept
  <2>1. up /\ asked' = asked /\ Moves
    BY <1>5, Zenon DEF SearchSvcOff, SearchHalt, SearchExit, SearchLock, SearchUnmark, QuitJoin, QuitClose, QuitSignal,
       QuitLock, QuitStop
  <2> QED BY <1>2, <2>1
<1>6. ASSUME ListsDone(w) PROVE Kept
  <2>1. /\ up /\ asked' = asked /\ job[w].pc = "download"
        /\ Moves \/ job' = [job EXCEPT ![w].op = "restart", ![w].pc = "enter"]
    BY <1>6, Zenon DEF ListsDone
  <2>2. CASE job' = [job EXCEPT ![w].op = "restart", ![w].pc = "enter"]
    <3>1. job'[w].op = "restart" /\ Alone(w)
      BY <2>2, Restarts, Zenon DEF Becomes
    <3> QED BY <2>1, <3>1
  <2> QED BY <1>2, <2>1, <2>2
<1>7. ASSUME SearchBegin(w) \/ SearchNext(w) \/ SearchSpawn(w) \/ SearchProbe(w) PROVE Kept
  <2>1. /\ up /\ asked' = asked
        /\ \/ Moves \/ Tried(w)
           \/ job' = [job EXCEPT ![w].pc = "s.exit", ![w].complete = TRUE]
           \/ job' = [job EXCEPT ![w].pc = "enter", ![w].orig = args, ![w].oname = name]
    BY <1>7, Zenon DEF SearchBegin, SearchNext, SearchSpawn, SearchProbe
  <2>2. CASE job' = [job EXCEPT ![w].pc = "s.exit", ![w].complete = TRUE]
    <3>0. HasOp([job[w] EXCEPT !.pc = "s.exit", !.complete = TRUE], job[w].op)
      BY <1>0 DEF Jobs, HasOp
    <3>1. job'[w].op = job[w].op /\ Alone(w)
      BY <3>0, <2>2, OpPuts, ZenonT(60)
    <3> QED BY <2>1, <3>1
  <2>3. CASE job' = [job EXCEPT ![w].pc = "enter", ![w].orig = args, ![w].oname = name]
    <3>0. HasOp([job[w] EXCEPT !.pc = "enter", !.orig = args, !.oname = name], job[w].op)
      BY <1>0 DEF Jobs, HasOp
    <3>1. job'[w].op = job[w].op /\ Alone(w)
      BY <3>0, <2>3, OpPuts, ZenonT(60)
    <3> QED BY <2>1, <3>1
  <2>4. CASE Tried(w)
    <3>0. HasOp([job[w] EXCEPT !.pc = "s.trial", !.n = @ + 1], job[w].op)
      BY <1>0 DEF Jobs, HasOp
    <3>1. job'[w].op = job[w].op /\ Alone(w)
      BY <3>0, <2>4, OpPuts, ZenonT(60) DEF Tried
    <3> QED BY <2>1, <3>1
  <2> QED BY <1>2, <2>1, <2>2, <2>3, <2>4
<1>8. ASSUME SearchLook(w) \/ SearchContext(w) PROVE Kept
  <2>1. up /\ asked' = asked
    BY <1>8, Zenon DEF SearchLook, SearchContext
  <2>2. ASSUME NEW x, NEW a, NEW b, job' = [job EXCEPT ![w].pc = x, ![w].svcWas = a, ![w].own = b] PROVE Kept
    <3>0. HasOp([job[w] EXCEPT !.pc = x, !.svcWas = a, !.own = b], job[w].op)
      BY <1>0 DEF Jobs, HasOp
    <3>1. job'[w].op = job[w].op /\ Alone(w)
      BY <3>0, <2>2, OpPuts, ZenonT(60)
    <3> QED BY <2>1, <3>1
  <2>3. ASSUME NEW x, NEW a, job' = [job EXCEPT ![w].pc = x, ![w].cut = a] PROVE Kept
    <3>0. HasOp([job[w] EXCEPT !.pc = x, !.cut = a], job[w].op)
      BY <1>0 DEF Jobs, HasOp
    <3>1. job'[w].op = job[w].op /\ Alone(w)
      BY <3>0, <2>3, OpPuts, ZenonT(60)
    <3> QED BY <2>1, <3>1
  <2>4. ASSUME SearchContext(w) PROVE Kept
    BY <2>3, <2>4, Zenon DEF SearchContext
  <2>5. ASSUME SearchLook(w) PROVE Kept
    <3>1. \/ Goto(w, "s.exit")
          \/ \E x \in {"s.svcOff", "s.context"} :
                job' = [job EXCEPT ![w].pc = x, ![w].svcWas = SvcRunning, ![w].own = ProcAlive]
      BY <2>5, Zenon DEF SearchLook
    <3> QED BY <1>2, <2>1, <2>2, <3>1, Zenon
  <2> QED BY <1>8, <2>4, <2>5
<1>9. ASSUME SearchFinally(w) \/ SearchRestore(w) PROVE Kept
  <2>1. up /\ asked' = asked /\ (Moves \/ \E a : job' = [job EXCEPT ![w].pc = "s.done", ![w].complete = a])
    BY <1>9, Zenon DEF SearchFinally, SearchRestore, RestoreFails
  <2>2. ASSUME NEW a, job' = [job EXCEPT ![w].pc = "s.done", ![w].complete = a] PROVE Kept
    <3>0. HasOp([job[w] EXCEPT !.pc = "s.done", !.complete = a], job[w].op)
      BY <1>0 DEF Jobs, HasOp
    <3>1. job'[w].op = job[w].op /\ Alone(w)
      BY <3>0, <2>2, OpPuts, ZenonT(60)
    <3> QED BY <2>1, <3>1
  <2> QED BY <1>2, <2>1, <2>2
<1>10. ASSUME SearchDone(w) PROVE Kept
  <2>1. /\ up /\ asked' = asked /\ job[w].pc = "s.done"
        /\ \/ job' = [job EXCEPT ![w] = Idle]
           \/ \E s \in Strategy : job' = [job EXCEPT ![w] = [Idle EXCEPT !.op = "switch", !.pc = "enter", !.s = s, !.complete = TRUE]]
    BY <1>10, Zenon DEF SearchDone
  <2>2. CASE job' = [job EXCEPT ![w] = Idle]
    BY <2>1, <2>2, Ceases DEF Becomes
  <2>3. ASSUME NEW s \in Strategy, job' = [job EXCEPT ![w] = [Idle EXCEPT !.op = "switch", !.pc = "enter", !.s = s, !.complete = TRUE]]
        PROVE Kept
    <3>1. s \in Strategy \cup {None}
      OBVIOUS
    <3>2. Becomes(w, "switch", "enter", "", s, 0)
      BY <2>3, <3>1, Names, Begins, Zenon
    <3> QED BY <2>1, <3>2 DEF Becomes
  <2> QED BY <2>1, <2>2, <2>3
<1>11. ASSUME Exit(w) PROVE up /\ asked' = asked /\ ~up'
  BY <1>11, Zenon DEF Exit, Gone
<1> HIDE DEF Kept
<1>12. Kept \/ (up /\ asked' = asked /\ ~up')
  BY <1>3, <1>4, <1>5, <1>6, <1>7, <1>8, <1>9, <1>10, <1>11 DEF Work
<1> QED BY <1>12 DEF Kept

(* The program ends when an exit does, or by a crash. *)
LEMMA OnlyExitEnds == ASSUME NEW w \in Worker, Work(w), ~up' PROVE Exit(w)
<1>1. up
  BY Zenon DEF Work, At, TakeToken, Enter, TurnAway, Check, StartTest, Raise, Claim, Spawn, Persist, HaltLocal,
     Decide, SvcOff, SvcConfig, SvcOn, InstallLeave, InstallEpilogue, RemoveService, StopService, StopLocal,
     ListsDone, Unmark, SearchBegin, SearchLook, SearchSvcOff, SearchContext, SearchHalt, SearchNext, SearchSpawn,
     SearchProbe, SearchExit, SearchLock, SearchFinally, SearchRestore, SearchUnmark, SearchDone, QuitJoin,
     QuitClose, QuitSignal, QuitLock, QuitStop, Exit
<1>2. up' = up \/ Exit(w)
  BY Zenon DEF Work, past, Ends, Errs, Reports, Vanishes, Fails, RestoreFails, TakeToken, Enter, TurnAway, Check, StartTest, Raise,
     Claim, Spawn, Persist, HaltLocal,
     Decide, SvcOff, SvcConfig, SvcOn, InstallLeave, InstallEpilogue, RemoveService, StopService, StopLocal,
     ListsDone, Unmark, SearchBegin, SearchLook, SearchSvcOff, SearchContext, SearchHalt, SearchNext, SearchSpawn,
     SearchProbe, SearchExit, SearchLock, SearchFinally, SearchRestore, SearchUnmark, SearchDone, QuitJoin,
     QuitClose, QuitSignal, QuitLock, QuitStop
<1> QED BY <1>1, <1>2

-----------------------------------------------------------------------------
(* Only one worker at a time is where processes and the service are changed. *)
Holding == {"inside", "locked", "admitted"}

LEMMA OneHolds ==
    ASSUME BaseInv, up, NEW v \in Worker, NEW w \in Worker,
           PlaceOf(job[v].pc) \in Holding, PlaceOf(job[w].pc) \in Holding
    PROVE  v = w
<1>1. at[v] \in Holding /\ at[w] \in Holding
  BY DEF BaseInv, Control
<1>2. owner = v /\ owner = w
  BY <1>1 DEF BaseInv, P!IInv, P!LockInv, P!Held, Holding
<1> QED BY <1>2

(* Without a search nothing is ever tried, and a worker that is about to spawn has
   made sure that our process is not alive. *)
Resting(j) == Going(j) \notin {"claim", "spawn"}
Guarded == /\ \A p \in Pid : Alive(p) => p = proc
           /\ trial = None
           /\ \A w \in Worker : job[w].op # "search" /\ (Resting(job[w]) \/ ~ProcAlive)

(* What a click begins: its operation and the first step of it. *)
Plain == Operation \ {"search", "stop", "stopAll", "lists"}
Opening == {"enter", "token", "download", "begin", "q.join", "q.close"}
Opens(w, op, pc) == /\ job'[w].op = op /\ job'[w].pc = pc /\ pc \in Opening
                    /\ \A v \in Worker \ {w} : job'[v] = job[v]

(* A handler begins at most one job, on an idle worker, and leaves the processes alone. *)
LEMMA HandlerOpens ==
    ASSUME BaseInv, NEW w \in Worker, Handler(w)
    PROVE  /\ up /\ up' /\ UNCHANGED host
           /\ \/ UNCHANGED job
              \/ /\ job[w].pc = "idle"
                 /\ \E pc \in Opening :
                       \/ \E op \in Plain : Opens(w, op, pc)
                       \/ \E op \in {"stop", "stopAll"} : Opens(w, op, pc) /\ Stop(w, op)
                       \/ Opens(w, "lists", pc) /\ "lists" \in Ops
                       \/ Opens(w, "search", pc) /\ Ops \cap {"search", "fix"} # {}
<1> USE DEF Click, UIFree, past, Asks
<1>0. /\ job \in [Worker -> Jobs] /\ cur \in 0..MaxToken
      /\ name \in Strategy \cup {None} /\ None \in Strategy \cup {None} /\ ui.resume \in Strategy \cup {None}
  BY DEF BaseInv, Control, DataTypes, P!IInv, P!TypeOK, UITypes
<1>1. ASSUME NEW op \in Operation, NEW pc \in Opening, NEW s \in Strategy \cup {None}, Begin(w, op, pc, s)
      PROVE  Opens(w, op, pc) /\ job[w].pc = "idle"
  <2>1. pc \in PC
    BY Names DEF Opening
  <2>2. Becomes(w, op, pc, "", s, 0)
    BY <1>0, <1>1, <2>1, Begins
  <2> QED BY <1>1, <2>2 DEF Becomes, Alone, Opens, Begin, Free
<1>2. /\ \A pc \in {"enter", "token", "download", "begin", "q.join", "q.close"} : pc \in Opening
      /\ \A op \in {"start", "install", "switch", "remove", "restart", "quit", "quitStop", "update", "restore"} :
            op \in Plain
      /\ Plain \subseteq Operation
  BY Names DEF Opening, Plain
<1>3. ASSUME NEW s \in Strategy \cup {None}, StartWith(w, s), up
      PROVE  up' /\ Begin(w, "start", "enter", s) /\ UNCHANGED host
  BY <1>3 DEF StartWith
<1>4. ASSUME NEW s \in Strategy, Start(w, s) \/ Install(w, s) \/ RestoreLast(w, s)
      PROVE  /\ up /\ up' /\ UNCHANGED host
             /\ \E op \in {"start", "install", "switch"} : Begin(w, op, "enter", s)
  BY <1>3, <1>4 DEF Start, Install, RestoreLast
<1>5. ASSUME NEW op, Stop(w, op)
      PROVE  up /\ up' /\ UNCHANGED host /\ op \in {"stop", "stopAll"} /\ Begin(w, op, "enter", None)
  BY <1>5 DEF Stop
<1>6. ASSUME Remove(w) \/ DiagRestart(w) \/ Toggle(w)
      PROVE  /\ up /\ up' /\ UNCHANGED host
             /\ \E op \in {"remove", "restart"}, pc \in {"enter", "token"} : Begin(w, op, pc, None)
  BY <1>6 DEF Remove, DiagRestart, Toggle
<1>7. ASSUME Search(w) \/ SimpleFix(w)
      PROVE  /\ up /\ up' /\ UNCHANGED host /\ Ops \cap {"search", "fix"} # {}
             /\ Begin(w, "search", "begin", None) \/ UNCHANGED job
  <2>1. up /\ up' /\ UNCHANGED host /\ (Begin(w, "search", "begin", None) \/ UNCHANGED job)
    BY <1>7, Zenon DEF Search, SimpleFix, BeginSearch
  <2>2. "search" \in Ops \/ "fix" \in Ops
    BY <1>7 DEF Search, SimpleFix
  <2> QED BY <2>1, <2>2
<1>8. ASSUME NEW b \in BOOLEAN, Quit(w, b)
      PROVE  /\ up /\ up' /\ UNCHANGED host /\ job[w].pc = "idle"
             /\ \E op \in {"quit", "quitStop"}, pc \in {"q.join", "q.close"} : Opens(w, op, pc)
  <2>1. up /\ up' /\ UNCHANGED host /\ job[w].pc = "idle"
    BY <1>8, Zenon DEF Quit, Free
  <2>2. PICK op \in {"quit", "quitStop"}, pc \in {"q.join", "q.close"} :
           job' = [job EXCEPT ![w] = [Idle EXCEPT !.op = op, !.pc = pc, !.t = cur]]
    BY <1>8, Zenon DEF Quit
  <2>3. op \in Operation /\ pc \in PC
    BY <2>2, Names
  <2>4. Becomes(w, op, pc, "", Idle.s, 0)
    BY <1>0, <2>2, <2>3, Begins, Zenon
  <2> QED BY <1>2, <2>1, <2>4 DEF Becomes, Alone, Opens
<1>9. ASSUME QuitForUpdate(w)
      PROVE  up /\ up' /\ UNCHANGED host /\ \E s \in Strategy \cup {None} : Begin(w, "update", "q.close", s)
  <2>1. up /\ up' /\ UNCHANGED host
    BY <1>9, Zenon DEF QuitForUpdate
  <2>2. Begin(w, "update", "q.close", IF ProcAlive THEN name ELSE None)
    BY <1>9, Zenon DEF QuitForUpdate
  <2>3. (IF ProcAlive THEN name ELSE None) \in Strategy \cup {None}
    BY <1>0
  <2> QED BY <2>1, <2>2, <2>3, Zenon
<1>10. ASSUME StartupRestore(w) \/ StartupResume(w)
       PROVE  /\ up /\ up' /\ UNCHANGED host
              /\ \E op \in {"restore", "start"}, s \in Strategy \cup {None} : Begin(w, op, "enter", s)
  <2>1. CASE StartupRestore(w)
    <3>1. up /\ up' /\ UNCHANGED host /\ Begin(w, "restore", "enter", None)
      BY <2>1, Zenon DEF StartupRestore
    <3> QED BY <1>0, <3>1, Zenon
  <2>2. CASE StartupResume(w)
    <3>1. up /\ StartWith(w, ui.resume)
      BY <2>2, Zenon DEF StartupResume
    <3> QED BY <1>0, <1>3, <3>1, Zenon
  <2> QED BY <1>10, <2>1, <2>2
<1> DEFINE Opened == /\ up /\ up' /\ UNCHANGED host
                     /\ \/ UNCHANGED job
                        \/ /\ job[w].pc = "idle"
                           /\ \E pc \in Opening :
                                 \/ \E op \in Plain : Opens(w, op, pc)
                                 \/ \E op \in {"stop", "stopAll"} : Opens(w, op, pc) /\ Stop(w, op)
                                 \/ Opens(w, "lists", pc) /\ "lists" \in Ops
                                 \/ Opens(w, "search", pc) /\ Ops \cap {"search", "fix"} # {}
<1>11. ASSUME up, up', UNCHANGED host, NEW op \in Plain, NEW pc \in Opening,
              NEW s \in Strategy \cup {None}, Begin(w, op, pc, s)
       PROVE  Opened
  BY <1>11, <1>1, <1>2
<1>12. (\E s \in Strategy : Start(w, s) \/ Install(w, s) \/ RestoreLast(w, s)) => Opened
  BY <1>2, <1>4, <1>11
<1>13. (\E op \in {"stop", "stopAll"} : Stop(w, op)) => Opened
  BY <1>0, <1>1, <1>2, <1>5, Names
<1>14. Remove(w) \/ DiagRestart(w) \/ Toggle(w) => Opened
  BY <1>0, <1>2, <1>6, <1>11
<1>20. ASSUME Lists(w) PROVE Opened
  <2>1. up /\ up' /\ UNCHANGED host /\ Begin(w, "lists", "download", None) /\ "lists" \in Ops
    BY <1>20 DEF Lists
  <2> QED BY <1>0, <1>1, <1>2, <2>1, Names
<1>15. Search(w) \/ SimpleFix(w) => Opened
  BY <1>0, <1>1, <1>2, <1>7, Names
<1>16. (\E b \in BOOLEAN : Quit(w, b)) => Opened
  BY <1>2, <1>8
<1>17. QuitForUpdate(w) => Opened
  BY <1>2, <1>9, <1>11
<1>18. StartupRestore(w) \/ StartupResume(w) => Opened
  BY <1>2, <1>10, <1>11
<1> HIDE DEF Opened
<1>19. Opened
  BY <1>12, <1>13, <1>14, <1>15, <1>16, <1>17, <1>18, <1>20 DEF Handler
<1> QED BY <1>19 DEF Opened

(* What a worker leaves of the processes, and where it goes. *)
Ours == \A p \in Pid : win'[p] # None => p = proc'
Secure(w) == job'[w].pc # "token" /\ (Resting(job'[w]) \/ ~ProcAlive')
Mine(w) == /\ Secure(w)
           /\ \/ UNCHANGED <<win, proc, trial>>
              \/ PlaceOf(job[w].pc) \in Holding /\ trial' = None /\ Ours

(* Nobody but the worker that holds the lock touches a process, and it has stopped
   the old one before it spawns the next. *)
LEMMA WorkMine ==
    ASSUME BaseInv, NEW w \in Worker, Work(w), up', job[w].op # "search", Resting(job[w]) \/ ~ProcAlive,
           PlaceOf(job[w].pc) \in Holding => trial = None /\ \A p \in Pid : Alive(p) => p = proc
    PROVE  Mine(w)
<1>0. /\ job \in [Worker -> Jobs] /\ job[w] \in Jobs /\ Sound(job[w]) /\ HostTypeOK /\ DataTypes
      /\ proc \in Pid \cup {None} /\ None \notin Pid /\ job[w].op # "search"
  BY HostAssumption DEF BaseInv, Control, DataTypes, HostTypeOK
<1>1. up
  BY <1>0, WorkKeepsOp
<1> DEFINE Quietly == UNCHANGED <<win, proc, trial>> /\ up' /\ Secure(w)
           Deeply == PlaceOf(job[w].pc) \in Holding /\ up' /\ Secure(w) /\ trial' = None /\ Ours
<1>2. ASSUME Quietly PROVE Mine(w)
  BY <1>2 DEF Mine
<1>3. ASSUME Deeply PROVE Mine(w)
  BY <1>3 DEF Mine
<1>4. ASSUME NEW pc \in PC, pc \notin {"claim", "spawn", "check", "token"}, Goto(w, pc) \/ CheckThen(w, pc) PROVE Secure(w)
  BY <1>0, <1>4, Goes DEF Becomes, Resting, Going, Secure
<1>5. Finish(w) => Secure(w)
  BY <1>0, Ceases DEF Becomes, Resting, Going, Secure
<1>6. /\ PlaceOf("claim") = "inside" /\ PlaceOf("spawn") = "inside" /\ PlaceOf("halt") = "inside"
      /\ PlaceOf("stopSvc") = "inside" /\ PlaceOf("stopLocal") = "inside" /\ PlaceOf("stopLocalErr") = "inside"
      /\ PlaceOf("q.stop") = "locked"
  BY DEF PlaceOf, Outside
<1>7. ASSUME PlaceOf(job[w].pc) \in Holding
      PROVE  trial = None /\ Ended(trial) = win /\ (\A p \in Pid : p # proc => win[p] = None)
  BY <1>0, <1>7 DEF Ended, Alive
<1>8. ASSUME PlaceOf(job[w].pc) \in Holding, win' = Ended(proc), proc' \in {proc, None} PROVE Ours /\ ~ProcAlive'
  BY <1>0, <1>7, <1>8 DEF Ended, HostTypeOK, Alive, ProcAlive, Ours
<1> USE DEF At, Ends, Errs, Reports, Vanishes, past, host
<1>9. CASE \/ TakeToken(w) \/ Enter(w) \/ TurnAway(w) \/ Raise(w) \/ Persist(w) \/ InstallLeave(w) \/ InstallEpilogue(w)
           \/ RemoveService(w) \/ Unmark(w)
  <2>1. (First[job[w].op] \in PC /\ First[job[w].op] \notin {"claim", "spawn", "check", "token"}) \/ ~Enter(w)
    <3>1. ASSUME Enter(w)
          PROVE  job[w].op \in {"start", "stop", "stopAll", "install", "remove", "restart", "switch", "restore"}
      <4>1. job[w].pc = "enter"
        BY <3>1 DEF Enter
      <4> QED BY <1>0, <4>1 DEF Sound, Fits, Does, Entering, AtSearch, Finally, Quitting, QuitStep
    <3>2. /\ First["start"] = "test" /\ First["stop"] = "stopSvc" /\ First["stopAll"] = "stopSvc"
          /\ First["install"] = "halt" /\ First["remove"] = "remove" /\ First["restart"] = "decide"
          /\ First["switch"] = "decide" /\ First["restore"] = "svcOn"
      BY DEF First
    <3> QED BY <3>1, <3>2, Names
  <2>2. /\ UNCHANGED <<win, proc, trial>> /\ up'
        /\ \/ Finish(w) \/ (Enter(w) /\ Goto(w, First[job[w].op])) \/ Goto(w, "enter") \/ Goto(w, "epilogue")
    BY <1>0, <1>1, <1>9 DEF TakeToken, Enter, TurnAway, Raise, Persist, InstallLeave, InstallEpilogue, RemoveService,
       Unmark
  <2>3. Secure(w)
    BY <1>4, <1>5, <2>1, <2>2, Names
  <2> QED BY <1>2, <2>2, <2>3
<1>10. CASE Decide(w) \/ SvcOff(w) \/ SvcConfig(w) \/ SvcOn(w)
  <2>1. /\ UNCHANGED <<win, proc, trial>> /\ up'
        /\ \/ Finish(w)
           \/ \E pc \in {"halt", "svcOff", "svcOn", "config", "leave", "unmark", "persist"} :
                 Goto(w, pc) \/ CheckThen(w, pc)
    BY <1>1, <1>10 DEF Decide, SvcOff, SvcConfig, SvcOn
  <2>2. Secure(w)
    BY <1>4, <1>5, <2>1, Names
  <2> QED BY <1>2, <2>1, <2>2
<1>11. CASE Check(w)
  <2>1. UNCHANGED <<win, proc, trial>> /\ up' /\ job[w].pc = "check" /\ (Finish(w) \/ Goto(w, job[w].k))
    BY <1>1, <1>11 DEF Check
  <2>2. job[w].k \in PC /\ job[w].k \notin {"check", "token"}
    BY <1>0, <2>1, Names DEF Sound, Fits, AfterCheck
  <2>3. ASSUME Goto(w, job[w].k) PROVE Secure(w)
    <3>1. job'[w].op = job[w].op /\ job'[w].pc = job[w].k
      BY <1>0, <2>2, <2>3, Goes DEF Becomes
    <3>2. Going(job'[w]) = Going(job[w])
      BY <2>1, <2>2, <3>1 DEF Going
    <3>3. Resting(job'[w]) \/ ~ProcAlive
      BY <3>2 DEF Resting
    <3> QED BY <1>0, <2>1, <2>2, <3>1, <3>3 DEF ProcAlive, Alive, Secure
  <2> QED BY <1>2, <1>5, <2>1, <2>3
<1>12. CASE StartTest(w)
  <2>1. UNCHANGED <<win, proc, trial>> /\ up' /\ (Goto(w, "raise") \/ (~WinwsRunning /\ CheckThen(w, "claim")))
    BY <1>1, <1>12 DEF StartTest
  <2>2. ASSUME ~WinwsRunning, CheckThen(w, "claim") PROVE Secure(w)
    <3>1. ~ProcAlive'
      BY <1>0, <2>1, <2>2 DEF WinwsRunning, ProcAlive, Alive
    <3>2. job'[w].pc = "check"
      BY <1>0, <2>2, Names, Goes DEF Becomes
    <3> QED BY <3>1, <3>2 DEF Secure
  <2>3. Secure(w)
    BY <1>4, <2>1, <2>2, Names
  <2> QED BY <1>2, <2>1, <2>3
<1>13. CASE Claim(w)
  <2>1. UNCHANGED <<win, proc, trial>> /\ up' /\ job[w].pc = "claim" /\ CheckThen(w, "spawn")
    BY <1>1, <1>13 DEF Claim
  <2>2. ~ProcAlive'
    BY <2>1 DEF Resting, Going, ProcAlive, Alive
  <2>3. job'[w].pc = "check"
    BY <1>0, <2>1, Names, Goes DEF Becomes
  <2> QED BY <1>2, <2>1, <2>2, <2>3 DEF Secure
<1>14. CASE Spawn(w)
  <2>1. /\ up' /\ job[w].pc = "spawn" /\ ~ProcAlive
        /\ Finish(w) \/ Goto(w, "persist") \/ CheckThen(w, "persist")
        /\ UNCHANGED <<win, proc, trial>> \/ \E s, n : Spawned(s, n)
    BY <1>1, <1>14 DEF Spawn, Resting, Going
  <2>2. Secure(w)
    BY <1>4, <1>5, <2>1, Names
  <2>3. ASSUME NEW s, NEW n, Spawned(s, n) PROVE trial' = None /\ Ours
    <3>1. /\ trial' = trial /\ NewPid \in Pid /\ proc' = NewPid /\ win' = [win EXCEPT ![NewPid] = s]
      BY <2>3, NewPidIsFresh DEF Spawned
    <3>2. trial = None /\ \A p \in Pid : win[p] = None
      BY <1>0, <1>6, <1>7, <2>1 DEF ProcAlive, Alive, Holding
    <3> QED BY <1>0, <3>1, <3>2 DEF HostTypeOK, Ours
  <2> QED BY <1>2, <1>3, <1>6, <2>1, <2>2, <2>3 DEF Holding
<1>15. CASE HaltLocal(w)
  <2>1. /\ up' /\ job[w].pc = "halt"
        /\ \/ Finish(w) /\ UNCHANGED <<win, proc, trial>>
           \/ /\ win' = Ended(proc) /\ proc' = None /\ UNCHANGED trial
              /\ CheckThen(w, "svcOff") \/ CheckThen(w, "spawn")
    BY <1>1, <1>15 DEF HaltLocal
  <2>2. ASSUME win' = Ended(proc), proc' = None, UNCHANGED trial, CheckThen(w, "svcOff") \/ CheckThen(w, "spawn")
        PROVE  Deeply
    <3>1. PlaceOf(job[w].pc) \in Holding
      BY <1>6, <2>1 DEF Holding
    <3>2. Ours /\ ~ProcAlive' /\ trial = None
      BY <1>7, <1>8, <2>2, <3>1
    <3>3. job'[w].pc = "check"
      BY <1>0, <2>2, Names, Goes DEF Becomes
    <3> QED BY <2>1, <2>2, <3>1, <3>2, <3>3 DEF Secure
  <2> QED BY <1>2, <1>3, <1>5, <2>1, <2>2
<1>16. CASE StopService(w)
  <2>0. PlaceOf(job[w].pc) \in Holding
    BY <1>6, <1>16 DEF StopService, Holding
  <2>1. /\ up'
        /\ Finish(w) \/ Goto(w, "stopLocal") \/ Goto(w, "stopLocalErr")
        /\ UNCHANGED <<win, proc, trial>>
    BY <1>0, <1>1, <1>7, <1>16, <2>0 DEF StopService
  <2>2. Secure(w)
    BY <1>4, <1>5, <2>1, Names
  <2> QED BY <1>2, <2>1, <2>2
<1>17. CASE StopLocal(w)
  <2>1. up' /\ job[w].pc \in {"stopLocal", "stopLocalErr"} /\ Finish(w) /\ UNCHANGED trial
    BY <1>1, <1>17 DEF StopLocal
  <2>2. \/ UNCHANGED <<win, proc>>
        \/ proc' = None /\ win' = Ended(proc)
        \/ proc' = None /\ win' = [p \in Pid |-> None]
    BY <1>17, Zenon DEF StopLocal
  <2>5. PlaceOf(job[w].pc) \in Holding
    BY <1>6, <2>1 DEF Holding
  <2>3. Ours
    <3>1. CASE UNCHANGED <<win, proc>>
      BY <1>7, <2>5, <3>1 DEF Ours
    <3>2. CASE proc' = None /\ win' = [p \in Pid |-> None]
      BY <3>2 DEF Ours
    <3> QED BY <1>8, <2>2, <2>5, <3>1, <3>2
  <2>4. Deeply
    BY <1>1, <1>5, <1>7, <2>1, <2>3, <2>5
  <2> QED BY <1>3, <2>4
<1>18. CASE ListsDone(w)
  <2>1. /\ UNCHANGED <<win, proc, trial>> /\ up'
        /\ Finish(w) \/ job' = [job EXCEPT ![w].op = "restart", ![w].pc = "enter"]
    BY <1>1, <1>18 DEF ListsDone
  <2>2. ASSUME job' = [job EXCEPT ![w].op = "restart", ![w].pc = "enter"] PROVE Secure(w)
    <3>1. Becomes(w, "restart", "enter", job[w].k, job[w].s, job[w].n)
      BY <1>0, <2>2, Restarts, Zenon
    <3> QED BY <3>1 DEF Becomes, Resting, Going, Secure
  <2>3. Secure(w)
    BY <1>5, <2>1, <2>2
  <2> QED BY <1>2, <2>1, <2>3
<1>19. CASE QuitJoin(w) \/ QuitClose(w) \/ QuitSignal(w) \/ QuitLock(w)
  <2>1. /\ UNCHANGED <<win, proc, trial>> /\ up'
        /\ \E pc \in {"q.reclose", "q.signal", "q.resignal", "q.join", "q.lock", "q.stop"} : Goto(w, pc)
    BY <1>1, <1>19 DEF QuitJoin, QuitClose, QuitSignal, QuitLock
  <2>2. Secure(w)
    BY <1>4, <2>1, Names
  <2> QED BY <1>2, <2>1, <2>2
<1>20. CASE QuitStop(w)
  <2>1. up' /\ job[w].pc = "q.stop" /\ Goto(w, "q.exit") /\ trial' \in {trial, None}
    BY <1>1, <1>20 DEF QuitStop
  <2>5. PlaceOf(job[w].pc) \in Holding
    BY <1>6, <2>1 DEF Holding
  <2>2. \/ UNCHANGED <<win, proc>>
        \/ proc' = None /\ proc # None /\ win' = [win EXCEPT ![proc] = None]
    BY <1>7, <1>20, <2>5 DEF QuitStop
  <2>3. Ours
    BY <1>0, <1>7, <2>2, <2>5 DEF HostTypeOK, Ours
  <2>4. Deeply
    BY <1>4, <1>7, <2>1, <2>3, <2>5, Names
  <2> QED BY <1>3, <2>4
<1>21. ~Exit(w)
  BY Zenon DEF Exit, Gone
<1>22. CASE \/ SearchBegin(w) \/ SearchLook(w) \/ SearchSvcOff(w) \/ SearchContext(w) \/ SearchHalt(w) \/ SearchNext(w)
            \/ SearchSpawn(w) \/ SearchProbe(w) \/ SearchExit(w) \/ SearchLock(w) \/ SearchFinally(w)
            \/ SearchRestore(w) \/ SearchUnmark(w) \/ SearchDone(w)
  <2>1. job[w].pc \in {"begin"} \cup AtSearch \cup Finally
    BY <1>22 DEF AtSearch, Finally, SearchBegin, SearchLook, SearchSvcOff, SearchContext, SearchHalt, SearchNext,
       SearchSpawn, SearchProbe, SearchExit, SearchLock, SearchFinally, SearchRestore, SearchUnmark, SearchDone
  <2> QED BY <1>0, <2>1 DEF Sound, Fits, Does, AtSearch, Finally, QuitStep
<1> QED BY <1>9, <1>10, <1>11, <1>12, <1>13, <1>14, <1>15, <1>16, <1>17, <1>18, <1>19, <1>20, <1>21, <1>22 DEF Work

LEMMA WorkGuarded ==
    ASSUME BaseInv, Guarded, NEW w \in Worker, Work(w) PROVE Guarded'
<1>0. up /\ Guided(w) /\ job[w].op # "search" /\ job \in [Worker -> Jobs] /\ trial = None
  BY WorkKeepsOp, WorkSteers DEF BaseInv, DataTypes, Control, Guarded
<1>1. CASE ~up'
  BY <1>1, IdleJob, OnlyExitEnds DEF Exit, Gone, Guarded, Alive, IsIdle, Resting, Going
<1>2. CASE up'
  <2>1. Mine(w) /\ (up' => Alone(w))
    BY <1>0, <1>2, WorkMine DEF Guarded, Guided
  <2>2. job'[w].op # "search"
    BY <1>0, <1>2, WorkKeepsOp
  <2>3. CASE UNCHANGED <<win, proc, trial>>
    BY <1>0, <1>2, <2>1, <2>2, <2>3 DEF Guarded, Alone, Alive, ProcAlive, Mine, Secure
  <2>4. CASE PlaceOf(job[w].pc) \in Holding /\ trial' = None /\ Ours
    <3>1. ASSUME NEW v \in Worker \ {w} PROVE job'[v].op # "search" /\ Resting(job'[v])
      <4>1. job'[v] = job[v] /\ job[v].op # "search"
        BY <1>2, <2>1 DEF Alone, Guarded
      <4>2. PlaceOf(job[v].pc) \notin Holding
        BY <1>0, <2>4, OneHolds
      <4>3. Resting(job[v])
        BY <4>2 DEF Resting, Going, PlaceOf, Outside, Holding
      <4> QED BY <4>1, <4>3
    <3>2. \A p \in Pid : Alive(p)' => p = proc'
      BY <2>4 DEF Alive, Ours
    <3> QED BY <2>1, <2>2, <2>4, <3>1, <3>2 DEF Guarded, Mine, Secure
  <2> QED BY <2>1, <2>3, <2>4 DEF Mine
<1> QED BY <1>1, <1>2

LEMMA NextGuarded ==
    ASSUME Ops \cap {"search", "fix"} = {}, BaseInv, Guarded, [Next]_vars PROVE Guarded'
<1>1. ASSUME NEW w \in Worker, Handler(w) PROVE Guarded'
  <2>1. /\ UNCHANGED host
        /\ \/ UNCHANGED job
           \/ \E pc \in Opening : \E op \in Operation \ {"search"} : Opens(w, op, pc)
    BY <1>1, HandlerOpens, Names DEF Plain
  <2>2. \A p \in Pid : Alive(p)' = Alive(p)
    BY <2>1 DEF Alive, host
  <2>3. ASSUME NEW pc \in Opening, NEW op \in Operation \ {"search"}, Opens(w, op, pc)
        PROVE  \A v \in Worker : job'[v].op # "search" /\ (Resting(job'[v]) \/ ~ProcAlive)
    BY <2>3 DEF Guarded, Opens, Opening, Resting, Going
  <2> QED BY <2>1, <2>2, <2>3 DEF Guarded, host, ProcAlive, Alive
<1>2. ASSUME NEW w \in Worker, Work(w) PROVE Guarded'
  BY <1>2, WorkGuarded
<1>3. CASE SearchStop \/ AdoptService \/ Boot \/ Foreign \/ UNCHANGED vars
  BY <1>3 DEF SearchStop, AdoptService, Boot, Foreign, vars, host, Guarded, Alive, ProcAlive
<1>4. CASE Crash
  BY <1>4, IdleJob DEF Crash, Gone, Guarded, Alive, IsIdle, Resting, Going
<1>5. CASE Die
  BY <1>5 DEF Die, Guarded, Alive, ProcAlive, BaseInv, DataTypes, HostTypeOK
<1> QED BY <1>1, <1>2, <1>3, <1>4, <1>5 DEF Next

LEMMA InitGuarded == Init => Guarded
<1> SUFFICES ASSUME Init PROVE Guarded
  OBVIOUS
<1>1. win = [p \in Pid |-> None] /\ trial = None /\ job = [w \in Worker |-> Idle]
  BY Zenon DEF Init
<1> HIDE DEF Init
<1> QED BY <1>1, IdleJob DEF IsIdle, Guarded, Alive, Resting, Going

(* As long as no search is made, whatever fails, dies, crashes or is clicked in
   between, a winws of the program is always one that it can stop. *)
THEOREM NothingIsOrphaned == Ops \cap {"search", "fix"} = {} => (Spec => []NoOrphan)
<1> SUFFICES ASSUME Ops \cap {"search", "fix"} = {} PROVE Spec => []NoOrphan
  OBVIOUS
<1>1. BaseInv /\ Guarded /\ [Next]_vars => Guarded'
  BY NextGuarded
<1>2. Guarded => NoOrphan
  BY DEF Guarded, NoOrphan
<1> QED BY <1>1, <1>2, InitGuarded, BaseHolds, PTL DEF Spec

-----------------------------------------------------------------------------
(* A search that is about to stop the service has noted it; a worker that is about
   to erase the note has the service running. *)
Remembering == \A w \in Worker : /\ job[w].pc = "s.svcOff" => marker
                                 /\ Going(job[w]) \in {"unmark", "s.unmark"} => SvcRunning

(* There is one stop at a time, and it is the last thing the user asked for. *)
OneStop  == /\ \A w \in Worker : Stopping(job[w]) => ui.stop
            /\ \A v, w \in Worker : Stopping(job[v]) /\ Stopping(job[w]) => v = w
Stoppers == OneStop /\ \A w \in Worker : Stopping(job[w]) => asked = "stop"

LEMMA WorkStops ==
    ASSUME BaseInv, OneStop, NEW w \in Worker, Work(w)
    PROVE  /\ OneStop' /\ asked' = asked
           /\ \A v \in Worker : Stopping(job'[v]) => Stopping(job[v])
<1>0. job \in [Worker -> Jobs] /\ ui \in UITypes
  BY DEF BaseInv, Control
<1>1. /\ asked' = asked
      /\ up' => Alone(w) /\ job'[w].op \in {job[w].op, "none", "restart", "switch"}
  BY <1>0, WorkKeepsOp
<1>2. CASE ~up'
  <2>1. \A v \in Worker : job'[v].op = "none"
    BY <1>2, BaseStep, IdleJob DEF BaseInv, Control, IsIdle, Next
  <2> QED BY <1>1, <2>1 DEF OneStop, Stopping
<1>3. CASE up' /\ FlagsKept
  <2>1. \A v \in Worker : Stopping(job'[v]) => Stopping(job[v])
    BY <1>1, <1>3 DEF Alone, Stopping
  <2> QED BY <1>1, <1>3, <2>1 DEF OneStop, FlagsKept, FlagsAre
<1>4. CASE up' /\ FlagsOver(w)
  <2>1. \A v \in Worker : Stopping(job'[v]) => v # w /\ Stopping(job[v])
    <3>1. job'[w] = Idle
      BY <1>0, <1>4 DEF FlagsOver
    <3> QED BY <1>1, <1>4, <3>1, IdleJob DEF Alone, Stopping, IsIdle
  <2>2. ui'.stop <=> ui.stop /\ ~Stopping(job[w])
    BY <1>4 DEF FlagsOver, FlagsAre
  <2> QED BY <1>1, <2>1, <2>2 DEF OneStop
<1> QED BY <1>0, <1>2, <1>3, <1>4, WorkFlags

LEMMA HandlerStops ==
    ASSUME BaseInv, OneStop, NEW w \in Worker, Handler(w)
    PROVE  /\ OneStop' /\ (ui.stop => ui'.stop)
           /\ \/ \E op \in {"stop", "stopAll"} : Stop(w, op) /\ asked' = "stop"
              \/ \A v \in Worker : Stopping(job'[v]) => Stopping(job[v])
<1>1. ASSUME NEW op \in {"stop", "stopAll"}, Stop(w, op) PROVE asked' = "stop" /\ ~ui.stop
  BY <1>1, Zenon DEF Stop, Asks
<1>2. ui \in UITypes
  BY DEF BaseInv
<1>3. ui.stop => ui'.stop
  BY <1>2, HandlerFlags DEF FlagsKept, FlagsAre
<1>4. ASSUME NEW op \in {"stop", "stopAll"}, Stop(w, op) PROVE ui'.stop
  <2>1. ui' = [ui EXCEPT !.cancel = TRUE, !.apply = FALSE, !.stop = TRUE, !.nostart = TRUE]
    BY <1>4, Zenon DEF Stop
  <2>2. FlagsAre(ui', TRUE, TRUE, ui.closing)
    BY <1>2, <2>1, Flagged, Zenon
  <2> QED BY <2>2 DEF FlagsAre
<1>5. ASSUME \A v \in Worker : Stopping(job'[v]) => Stopping(job[v]) PROVE OneStop'
  BY <1>3, <1>5 DEF OneStop
<1>6. ASSUME NEW op \in {"stop", "stopAll"}, Stop(w, op), \A v \in Worker \ {w} : job'[v] = job[v] PROVE OneStop'
  BY <1>1, <1>4, <1>6 DEF OneStop
<1>7. ASSUME NEW op \in Plain \cup {"search", "lists"}, NEW pc, Opens(w, op, pc)
      PROVE  \A v \in Worker : Stopping(job'[v]) => Stopping(job[v])
  BY <1>7 DEF Opens, Plain, Stopping
<1>8. UNCHANGED job => \A v \in Worker : Stopping(job'[v]) => Stopping(job[v])
  OBVIOUS
<1> QED BY <1>1, <1>3, <1>5, <1>6, <1>7, <1>8, HandlerOpens DEF Opens

(* The steps of neither a handler nor a worker leave the flag of a stop alone. *)
LEMMA OtherStops ==
    ASSUME BaseInv, OneStop, SearchStop \/ AdoptService \/ Crash \/ Boot \/ Die \/ Foreign \/ UNCHANGED vars
    PROVE  /\ OneStop'
           /\ (\A v \in Worker : ~Stopping(job'[v])) \/ UNCHANGED <<job, asked>>
<1>1. CASE SearchStop
  <2>1. ui' = [ui EXCEPT !.cancel = TRUE] /\ UNCHANGED <<job, asked>>
    BY <1>1, Zenon DEF SearchStop, past
  <2> QED BY <2>1, CancelFlags DEF BaseInv, FlagsKept, FlagsAre, OneStop, Stopping
<1>2. CASE AdoptService \/ Die \/ Foreign \/ UNCHANGED vars
  <2>1. UNCHANGED <<job, asked, ui>>
    BY <1>2, Zenon DEF AdoptService, Die, Foreign, vars, app, past
  <2> QED BY <2>1 DEF OneStop, Stopping
<1>3. CASE Crash \/ Boot
  <2>1. ~up' \/ (~up /\ UNCHANGED job)
    BY <1>3, Zenon DEF Crash, Gone, Boot
  <2>2. [Next]_vars
    BY <1>3 DEF Next
  <2>3. \A v \in Worker : job'[v].op = "none"
    BY <2>1, <2>2, BaseStep, IdleJob DEF BaseInv, Control, IsIdle
  <2> QED BY <2>3 DEF OneStop, Stopping
<1> QED BY <1>1, <1>2, <1>3

LEMMA NextOneStop == ASSUME BaseInv, OneStop, [Next]_vars PROVE OneStop'
BY WorkStops, HandlerStops, OtherStops DEF Next

(* Unless the last strategy is restored, nothing but a stop or an exit commands
   while a stop is under way. *)
LEMMA HandlerAsks ==
    ASSUME "restoreLast" \notin Ops, NEW w \in Worker, Handler(w)
    PROVE  asked' = asked \/ asked' = "stop" \/ ~ui.stop
<1> USE DEF Asks, past, Click
<1>1. ASSUME NEW s, Start(w, s) \/ Install(w, s) \/ RestoreLast(w, s)
      PROVE  asked' = asked \/ asked' = "stop" \/ ~ui.stop
  BY <1>1, Zenon DEF Start, StartWith, StartGuard, Install, RestoreLast
<1>2. ASSUME \/ Remove(w) \/ DiagRestart(w) \/ Toggle(w) \/ Lists(w) \/ Search(w) \/ SimpleFix(w)
             \/ QuitForUpdate(w) \/ StartupRestore(w) \/ StartupResume(w)
      PROVE  asked' = asked \/ asked' = "stop" \/ ~ui.stop
  BY <1>2, Zenon DEF Remove, DiagRestart, Toggle, Lists, Search, SimpleFix, BeginSearch, QuitForUpdate, StartupRestore,
     StartupResume, StartWith, StartGuard
<1>3. ASSUME NEW op, Stop(w, op) \/ Quit(w, op) PROVE asked' = asked \/ asked' = "stop" \/ ~ui.stop
  BY <1>3, Zenon DEF Stop, Quit
<1> QED BY <1>1, <1>2, <1>3 DEF Handler

LEMMA NextStoppers ==
    ASSUME "restoreLast" \notin Ops, BaseInv, Stoppers, [Next]_vars PROVE Stoppers'
<1>1. ASSUME NEW w \in Worker, Handler(w) PROVE Stoppers'
  <2>1. asked' = asked \/ asked' = "stop" \/ ~ui.stop
    BY <1>1, HandlerAsks
  <2> QED BY <1>1, <2>1, HandlerStops DEF Stoppers, OneStop
<1>2. ASSUME NEW w \in Worker, Work(w) PROVE Stoppers'
  BY <1>2, WorkStops DEF Stoppers
<1>3. CASE SearchStop \/ AdoptService \/ Crash \/ Boot \/ Die \/ Foreign \/ UNCHANGED vars
  BY <1>3, OtherStops DEF Stoppers
<1> QED BY <1>1, <1>2, <1>3 DEF Next

(* What ServiceIsRemembered says of one step. *)
StopNoted == SvcRunning /\ svc' = "stopped" /\ (\E w \in Worker : at[w] = "inside" /\ job[w].op = "search")
                => marker
NoteErased == marker /\ ~marker' => svc' = "running" \/ asked = "stop"

(* A job that is at none of the steps that stop the service or erase the note. *)
Unwary(j) == j.pc # "s.svcOff" /\ Going(j) \notin {"unmark", "s.unmark"}

(* A worker stops the service only with the note saved, and erases the note only
   after the service was started or for a stop. *)
LEMMA WorkRemembers ==
    ASSUME BaseInv, Remembering, Stoppers, NEW w \in Worker, Work(w)
    PROVE  Remembering' /\ StopNoted /\ NoteErased
<1>0. /\ job \in [Worker -> Jobs] /\ job[w] \in Jobs /\ Sound(job[w]) /\ marker \in BOOLEAN
      /\ up /\ Guided(w)
  BY WorkKeepsOp, WorkSteers DEF BaseInv, Control, DataTypes
<1> DEFINE Lands == Unwary(job'[w])
           Result == Remembering' /\ StopNoted /\ NoteErased
           OfMine == /\ job'[w].pc = "s.svcOff" => marker'
                     /\ Going(job'[w]) \in {"unmark", "s.unmark"} => svc' = "running"
<1>1. ASSUME UNCHANGED <<svc, marker>>, up', OfMine PROVE Result
  BY <1>0, <1>1 DEF Remembering, Guided, Alone, StopNoted, NoteErased, SvcRunning
<1>2. ASSUME PlaceOf(job[w].pc) \in Holding, up', OfMine PROVE Remembering'
  <2>1. ASSUME NEW v \in Worker \ {w} PROVE Unwary(job'[v])
    <3>1. job'[v] = job[v]
      BY <1>0, <1>2 DEF Guided, Alone
    <3>2. PlaceOf(job[v].pc) \notin Holding
      BY <1>0, <1>2, OneHolds
    <3> QED BY <3>1, <3>2 DEF Unwary, Going, PlaceOf, Outside, Holding
  <2> QED BY <1>2, <2>1 DEF Remembering, Unwary, SvcRunning
<1>3. ASSUME NEW pc \in PC, pc \notin {"s.svcOff", "unmark", "s.unmark", "check"}, Goto(w, pc) \/ CheckThen(w, pc)
      PROVE  Lands
  BY <1>0, <1>3, Goes DEF Becomes, Unwary, Going
<1>4. Finish(w) => Lands
  BY <1>0, Ceases DEF Becomes, Unwary, Going
<1>5. Lands => OfMine
  BY DEF Unwary
<1>6. ASSUME PlaceOf(job[w].pc) = "inside", job[w].op # "search" PROVE StopNoted
  <2>1. at[w] = "inside"
    BY <1>0, <1>6 DEF BaseInv, Control
  <2>2. \A v \in Worker : at[v] = "inside" => v = w
    BY <2>1 DEF BaseInv, P!IInv, P!LockInv, P!Held
  <2> QED BY <1>6, <2>2 DEF StopNoted
<1>7. /\ PlaceOf("svcOff") = "inside" /\ PlaceOf("config") = "inside" /\ PlaceOf("svcOn") = "inside"
      /\ PlaceOf("remove") = "inside" /\ PlaceOf("stopSvc") = "inside" /\ PlaceOf("stopLocal") = "inside"
      /\ PlaceOf("stopLocalErr") = "inside" /\ PlaceOf("unmark") = "inside" /\ PlaceOf("s.svcOff") = "inside"
      /\ PlaceOf("s.restore") = "admitted" /\ PlaceOf("s.unmark") = "admitted"
      /\ "inside" \in Holding /\ "admitted" \in Holding
  BY DEF PlaceOf, Outside, Holding
<1> USE DEF At, Ends, Errs, Reports, Vanishes, past, files, host, Fails
<1>8. CASE \/ TakeToken(w) \/ Enter(w) \/ TurnAway(w) \/ Raise(w) \/ Persist(w) \/ InstallLeave(w) \/ InstallEpilogue(w)
  <2>1. (First[job[w].op] \in PC /\ First[job[w].op] \notin {"s.svcOff", "unmark", "s.unmark", "check"}) \/ ~Enter(w)
    <3>1. Enter(w) => job[w].op \in Entering
      BY <1>0 DEF Enter, Sound, Fits, Does, AtSearch, Finally, QuitStep
    <3> QED BY <3>1, Names DEF First, Entering
  <2>2. /\ UNCHANGED <<svc, marker>> /\ up'
        /\ \/ Finish(w) \/ (Enter(w) /\ Goto(w, First[job[w].op])) \/ Goto(w, "enter") \/ Goto(w, "epilogue")
           \/ Goto(w, "s.lock")
    BY <1>0, <1>8 DEF TakeToken, Enter, TurnAway, Raise, Persist, InstallLeave, InstallEpilogue
  <2>3. Lands
    BY <1>3, <1>4, <2>1, <2>2, Names
  <2> QED BY <1>1, <1>5, <2>2, <2>3
<1>9. CASE Decide(w) \/ StartTest(w) \/ Claim(w) \/ Spawn(w) \/ HaltLocal(w)
  <2>1. /\ UNCHANGED <<svc, marker>> /\ up'
        /\ \/ Finish(w)
           \/ \E pc \in {"halt", "svcOff", "raise", "claim", "spawn", "persist"} : Goto(w, pc) \/ CheckThen(w, pc)
    BY <1>0, <1>9 DEF Decide, StartTest, Claim, Spawn, Spawned, HaltLocal
  <2>2. Lands
    BY <1>3, <1>4, <2>1, Names
  <2> QED BY <1>1, <1>5, <2>1, <2>2
<1>10. CASE Check(w)
  <2>1. UNCHANGED <<svc, marker>> /\ up' /\ job[w].pc = "check" /\ (Finish(w) \/ Goto(w, job[w].k))
    BY <1>0, <1>10 DEF Check
  <2>2. job[w].k \in PC /\ job[w].k \in AfterCheck
    BY <1>0, <2>1, Names DEF Sound, Fits, AfterCheck
  <2>3. ASSUME Goto(w, job[w].k) PROVE OfMine
    <3>1. job'[w].pc = job[w].k
      BY <1>0, <2>2, <2>3, Goes DEF Becomes
    <3>2. Going(job'[w]) = Going(job[w]) /\ job'[w].pc # "s.svcOff"
      BY <2>1, <2>2, <3>1 DEF Going, AfterCheck
    <3> QED BY <2>1, <3>2 DEF Remembering, SvcRunning
  <2> QED BY <1>1, <1>4, <1>5, <2>1, <2>3
<1>11. CASE SvcOff(w) \/ SvcConfig(w) \/ RemoveService(w) \/ StopService(w)
  <2>1. /\ UNCHANGED marker /\ up' /\ job[w].pc \in {"svcOff", "config", "remove", "stopSvc"}
        /\ \/ Finish(w)
           \/ \E pc \in {"svcOn", "config", "stopLocal", "stopLocalErr"} : Goto(w, pc) \/ CheckThen(w, pc)
    BY <1>0, <1>11 DEF SvcOff, SvcConfig, RemoveService, StopService
  <2>2. Lands
    BY <1>3, <1>4, <2>1, Names
  <2>3. job[w].op # "search"
    BY <1>0, <2>1 DEF Sound, Fits, Does, Entering, AtSearch, Finally, Quitting, QuitStep
  <2> QED BY <1>2, <1>5, <1>6, <1>7, <2>1, <2>2, <2>3 DEF NoteErased
<1>12. CASE SvcOn(w)
  <2>1. /\ UNCHANGED marker /\ up' /\ job[w].pc = "svcOn" /\ svc' \in {svc, "running"}
        /\ \/ Finish(w) \/ CheckThen(w, "leave") \/ CheckThen(w, "persist")
           \/ CheckThen(w, "unmark") /\ svc' = "running"
    BY <1>0, <1>12 DEF SvcOn, SvcStarts
  <2>2. OfMine
    <3>1. CheckThen(w, "unmark") => job'[w].pc # "s.svcOff"
      BY <1>0, Names, Goes DEF Becomes
    <3> QED BY <1>3, <1>4, <1>5, <2>1, <3>1, Names
  <2>3. StopNoted
    BY <2>1 DEF StopNoted, SvcRunning
  <2> QED BY <1>2, <1>7, <2>1, <2>2, <2>3 DEF NoteErased
<1>13. CASE StopLocal(w)
  <2>1. /\ UNCHANGED svc /\ up' /\ job[w].pc \in {"stopLocal", "stopLocalErr"} /\ Finish(w)
        /\ job[w].op \in {"stop", "stopAll"}
    BY <1>0, <1>13 DEF StopLocal, Sound, Fits, Does, Entering, AtSearch, Finally, Quitting, QuitStep
  <2>2. asked = "stop"
    BY <2>1 DEF Stoppers, OneStop, Stopping
  <2> QED BY <1>2, <1>4, <1>5, <1>7, <2>1, <2>2 DEF NoteErased, StopNoted, SvcRunning
<1>14. CASE Unmark(w) \/ SearchUnmark(w)
  <2>1. /\ UNCHANGED svc /\ up' /\ job[w].pc \in {"unmark", "s.unmark"} /\ (Finish(w) \/ Goto(w, "s.done"))
    BY <1>0, <1>14 DEF Unmark, SearchUnmark
  <2>2. svc = "running"
    BY <2>1 DEF Remembering, Going, SvcRunning
  <2>3. Lands
    BY <1>3, <1>4, <2>1, Names
  <2> QED BY <1>2, <1>5, <1>7, <2>1, <2>2, <2>3 DEF NoteErased, StopNoted, SvcRunning
<1>15. CASE ListsDone(w)
  <2>1. /\ UNCHANGED <<svc, marker>> /\ up'
        /\ Finish(w) \/ job' = [job EXCEPT ![w].op = "restart", ![w].pc = "enter"]
    BY <1>0, <1>15 DEF ListsDone
  <2>3. ASSUME job' = [job EXCEPT ![w].op = "restart", ![w].pc = "enter"] PROVE Lands
    <3>1. Becomes(w, "restart", "enter", job[w].k, job[w].s, job[w].n)
      BY <1>0, <2>3, Restarts, Zenon
    <3> QED BY <3>1 DEF Becomes, Unwary, Going
  <2> QED BY <1>1, <1>4, <1>5, <2>1, <2>3
<1>16. CASE SearchBegin(w)
  <2>1. UNCHANGED <<svc, marker>> /\ up'
    BY <1>0, <1>16 DEF SearchBegin
  <2>2. LooksLike([job[w] EXCEPT !.pc = "enter", !.orig = args, !.oname = name],
                  job[w].op, "enter", job[w].k, job[w].s, job[w].n)
    BY <1>0, Names DEF LooksLike, Jobs, BaseInv, DataTypes
  <2>3. Becomes(w, job[w].op, "enter", job[w].k, job[w].s, job[w].n)
    BY <1>0, <1>16, <2>2, Puts, Zenon DEF SearchBegin
  <2> QED BY <1>1, <1>5, <2>1, <2>3 DEF Becomes, Unwary, Going
<1>17. CASE SearchLook(w)
  <2>1. UNCHANGED svc /\ up' /\ (marker => marker') /\ job[w].pc = "s.look"
    BY <1>0, <1>17, Zenon DEF SearchLook
  <2>2. OfMine
    <3>1. CASE Goto(w, "s.exit")
      BY <1>3, <1>5, <3>1, Names
    <3>2. ASSUME NEW x \in {"s.svcOff", "s.context"}, x = "s.svcOff" => marker',
                 job' = [job EXCEPT ![w].pc = x, ![w].svcWas = SvcRunning, ![w].own = ProcAlive]
          PROVE  OfMine
      <4>1. SvcRunning \in BOOLEAN /\ ProcAlive \in BOOLEAN /\ x \in PC
        BY <3>2, Names DEF SvcRunning, ProcAlive, Alive
      <4>2. Becomes(w, job[w].op, x, job[w].k, job[w].s, job[w].n)
        BY <1>0, <3>2, <4>1, Records, Zenon
      <4> QED BY <3>2, <4>2 DEF Becomes, Going
    <3>3. \/ Goto(w, "s.exit")
          \/ \E x \in {"s.svcOff", "s.context"} :
                /\ x = "s.svcOff" => marker'
                /\ job' = [job EXCEPT ![w].pc = x, ![w].svcWas = SvcRunning, ![w].own = ProcAlive]
      <4>1. CASE SvcRunning
        BY <1>17, <4>1, Zenon DEF SearchLook
      <4>2. CASE ~SvcRunning
        <5>1. "s.context" # "s.svcOff"
          OBVIOUS
        <5> QED BY <1>17, <4>2, <5>1, Zenon DEF SearchLook
      <4> QED BY <4>1, <4>2
    <3> QED BY <3>1, <3>2, <3>3
  <2>3. PlaceOf(job[w].pc) \in Holding
    BY <2>1 DEF PlaceOf, Outside, Holding
  <2> QED BY <1>2, <2>1, <2>2, <2>3 DEF NoteErased, StopNoted, SvcRunning
<1>18. CASE SearchSvcOff(w)
  <2>1. UNCHANGED marker /\ up' /\ job[w].pc = "s.svcOff" /\ (Goto(w, "s.context") \/ Goto(w, "s.exit"))
    BY <1>0, <1>18 DEF SearchSvcOff
  <2>2. Lands
    BY <1>3, <2>1, Names
  <2> QED BY <1>2, <1>5, <1>7, <2>1, <2>2 DEF NoteErased, StopNoted, Remembering
<1>19. CASE SearchContext(w)
  <2>1. UNCHANGED <<svc, marker>> /\ up'
    BY <1>0, <1>19, Zenon DEF SearchContext
  <2>2. \E pc \in {"s.halt", "s.exit"} : job' = [job EXCEPT ![w].pc = pc, ![w].cut = TRUE]
    BY <1>19, Zenon DEF SearchContext
  <2>3. \E pc \in {"s.halt", "s.exit"} : Becomes(w, job[w].op, pc, job[w].k, job[w].s, job[w].n)
    BY <1>0, <2>2, Names, Records, Zenon
  <2> QED BY <1>1, <1>5, <2>1, <2>3 DEF Becomes, Unwary, Going
<1>20. CASE SearchHalt(w) \/ SearchExit(w) \/ SearchLock(w) \/ QuitJoin(w) \/ QuitClose(w) \/ QuitSignal(w) \/ QuitLock(w)
            \/ QuitStop(w)
  <2>1. /\ UNCHANGED <<svc, marker>> /\ up'
        /\ \E pc \in {"s.trial", "s.exit", "s.lock", "s.fin", "q.reclose", "q.signal", "q.resignal", "q.join",
                      "q.lock", "q.stop", "q.exit"} : Goto(w, pc)
    BY <1>0, <1>20 DEF SearchHalt, SearchExit, SearchLock, QuitJoin, QuitClose, QuitSignal, QuitLock, QuitStop
  <2>2. Lands
    BY <1>3, <2>1, Names
  <2> QED BY <1>1, <1>5, <2>1, <2>2
<1>21. CASE SearchNext(w) \/ SearchSpawn(w) \/ SearchProbe(w)
  <2>1. /\ UNCHANGED <<svc, marker>> /\ up'
        /\ \/ \E pc \in {"s.exit", "s.spawn", "s.probe"} : Goto(w, pc)
           \/ Tried(w)
           \/ job' = [job EXCEPT ![w].pc = "s.exit", ![w].complete = TRUE]
    BY <1>0, <1>21, Zenon DEF SearchNext, SearchSpawn, SearchProbe
  <2>2. (\E pc \in {"s.exit", "s.spawn", "s.probe"} : Goto(w, pc)) => Lands
    BY <1>3, Names
  <2>3. ASSUME Tried(w) PROVE Lands
    <3>1. job'[w].pc = "s.trial"
      BY <1>0, <2>3 DEF Tried, Jobs
    <3> QED BY <3>1 DEF Unwary, Going
  <2>4. ASSUME job' = [job EXCEPT ![w].pc = "s.exit", ![w].complete = TRUE] PROVE Lands
    <3>1. Becomes(w, job[w].op, "s.exit", job[w].k, job[w].s, job[w].n)
      BY <1>0, <2>4, Names, Records, Zenon
    <3> QED BY <3>1 DEF Becomes, Unwary, Going
  <2> QED BY <1>1, <1>5, <2>1, <2>2, <2>3, <2>4
<1>22. ASSUME RestoreFails(w) PROVE Lands
  <2>1. job' = [job EXCEPT ![w].pc = "s.done", ![w].complete = FALSE]
    BY <1>22 DEF RestoreFails
  <2>2. Becomes(w, job[w].op, "s.done", job[w].k, job[w].s, job[w].n)
    BY <1>0, <2>1, Names, Records, Zenon
  <2> QED BY <2>2 DEF Becomes, Unwary, Going
<1>23. CASE SearchFinally(w)
  <2>1. /\ UNCHANGED <<svc, marker>> /\ up'
        /\ RestoreFails(w) \/ Goto(w, "s.restore") \/ Goto(w, "s.done")
    <3>1. RestoreFails(w) => up'
      BY <1>0 DEF RestoreFails
    <3> QED BY <1>0, <1>23, <3>1, Zenon DEF SearchFinally
  <2>2. Lands
    BY <1>3, <1>22, <2>1, Names
  <2> QED BY <1>1, <1>5, <2>1, <2>2
<1>24. CASE SearchRestore(w)
  <2>1. /\ UNCHANGED marker /\ up' /\ job[w].pc = "s.restore" /\ svc' \in {svc, "running"}
        /\ \/ RestoreFails(w) \/ Goto(w, "s.done")
           \/ Goto(w, "s.unmark") /\ svc' = "running"
    BY <1>0, <1>24 DEF SearchRestore, SvcStarts, Spawned, RestoreFails
  <2>2. OfMine
    <3>1. Goto(w, "s.unmark") => job'[w].pc # "s.svcOff"
      BY <1>0, Names, Goes DEF Becomes
    <3> QED BY <1>3, <1>5, <1>22, <2>1, <3>1, Names
  <2> QED BY <1>2, <1>7, <2>1, <2>2 DEF NoteErased, StopNoted, SvcRunning
<1>25. CASE SearchDone(w)
  <2>1. /\ UNCHANGED <<svc, marker>> /\ up'
        /\ \/ job' = [job EXCEPT ![w] = Idle]
           \/ \E s \in Strategy : job' = [job EXCEPT ![w] = [Idle EXCEPT !.op = "switch", !.pc = "enter", !.s = s, !.complete = TRUE]]
    BY <1>0, <1>25, Zenon DEF SearchDone
  <2>2. ASSUME job' = [job EXCEPT ![w] = Idle] PROVE Lands
    BY <1>0, <2>2, Ceases DEF Becomes, Unwary, Going
  <2>3. ASSUME NEW s \in Strategy, job' = [job EXCEPT ![w] = [Idle EXCEPT !.op = "switch", !.pc = "enter", !.s = s, !.complete = TRUE]]
        PROVE  Lands
    <3>1. s \in Strategy \cup {None}
      OBVIOUS
    <3>2. Becomes(w, "switch", "enter", "", s, 0)
      BY <1>0, <2>3, <3>1, Names, Begins, Zenon
    <3> QED BY <3>2 DEF Becomes, Unwary, Going
  <2> QED BY <1>1, <1>5, <2>1, <2>2, <2>3
<1>26. CASE Exit(w)
  <2>1. UNCHANGED <<svc, marker>> /\ job' = [v \in Worker |-> Idle]
    BY <1>26 DEF Exit, Gone
  <2> QED BY <2>1, IdleJob DEF IsIdle, Remembering, Going, NoteErased, StopNoted, SvcRunning
<1> HIDE DEF Result
<1>27. Result
  BY <1>8, <1>9, <1>10, <1>11, <1>12, <1>13, <1>14, <1>15, <1>16, <1>17, <1>18, <1>19, <1>20, <1>21, <1>23, <1>24,
     <1>25, <1>26 DEF Work, Result
<1> QED BY <1>27 DEF Result

LEMMA NextRemembers ==
    ASSUME BaseInv, Remembering, Stoppers, [Next]_vars
    PROVE  Remembering' /\ StopNoted /\ NoteErased
<1> USE DEF StopNoted, NoteErased, SvcRunning
<1>1. ASSUME NEW w \in Worker, Handler(w) PROVE Remembering' /\ UNCHANGED <<svc, marker>>
  <2>1. UNCHANGED <<svc, marker>>
    <3>1. UNCHANGED host
      BY <1>1, HandlerOpens
    <3>2. UNCHANGED marker
      BY <1>1, Zenon DEF Handler, Start, StartWith, Install, RestoreLast, Stop, Remove, DiagRestart, Toggle, Lists, Search,
         SimpleFix, BeginSearch, Quit, QuitForUpdate, StartupRestore, StartupResume, files
    <3> QED BY <3>1, <3>2 DEF host
  <2>2. ASSUME NEW op, NEW pc \in Opening, Opens(w, op, pc) PROVE Remembering'
    BY <2>1, <2>2 DEF Opens, Opening, Remembering, Going
  <2>3. CASE UNCHANGED job
    BY <2>1, <2>3 DEF Remembering, Going
  <2> QED BY <1>1, <2>1, <2>2, <2>3, HandlerOpens
<1>2. ASSUME NEW w \in Worker, Work(w) PROVE Remembering' /\ StopNoted /\ NoteErased
  BY <1>2, WorkRemembers
<1>3. CASE SearchStop \/ AdoptService \/ Boot \/ Die \/ Foreign \/ UNCHANGED vars
  <2>1. UNCHANGED <<svc, marker, job>>
    BY <1>3, Zenon DEF SearchStop, AdoptService, Boot, Die, Foreign, vars, host, files
  <2> QED BY <2>1 DEF Remembering, Going
<1>4. CASE Crash
  <2>1. UNCHANGED <<svc, marker>> /\ job' = [w \in Worker |-> Idle]
    BY <1>4 DEF Crash, Gone, files
  <2> QED BY <2>1, IdleJob DEF IsIdle, Remembering, Going
<1> QED BY <1>1, <1>2, <1>3, <1>4 DEF Next

LEMMA InitMarked == Init => Remembering /\ Stoppers
<1> SUFFICES ASSUME Init PROVE Remembering /\ Stoppers
  OBVIOUS
<1>1. job = [w \in Worker |-> Idle]
  BY Zenon DEF Init
<1> QED BY <1>1, IdleJob DEF IsIdle, Remembering, Stoppers, OneStop, Stopping, Going

(* With any faults, crashes and restarts: a search notes that it stops the service
   before it does, and the note is erased only when the service runs again or the
   user wants no bypass.  (The strategy last used may be restored while a stop is
   under way; the stop that then erases the note is not the last command.) *)
THEOREM NoteIsKept == "restoreLast" \notin Ops => (Spec => ServiceIsRemembered)
<1> SUFFICES ASSUME "restoreLast" \notin Ops PROVE Spec => ServiceIsRemembered
  OBVIOUS
<1> DEFINE Noting == Remembering /\ Stoppers
           Noted == /\ SvcRunning /\ svc' = "stopped" /\ (\E w \in Worker : at[w] = "inside" /\ job[w].op = "search")
                         => marker
                    /\ marker /\ ~marker' => svc' = "running" \/ asked = "stop"
<1>1. BaseInv /\ Noting /\ [Next]_vars => Noting'
  BY NextRemembers, NextStoppers
<1>2. BaseInv /\ Noting /\ [Next]_vars => Noted
  BY NextRemembers DEF StopNoted, NoteErased
<1>3. Init => Noting
  BY InitMarked
<1> HIDE DEF Noting
<1> QED BY <1>1, <1>2, <1>3, BaseHolds, PTL DEF Spec, ServiceIsRemembered

-----------------------------------------------------------------------------
(* Which steps a worker may take where it is. *)
LEMMA StepsOf ==
    ASSUME NEW w \in Worker, Work(w)
    PROVE  /\ job[w].pc # "idle"
           /\ job[w].pc = "token" => TakeToken(w)
           /\ job[w].pc = "enter" => Enter(w) \/ TurnAway(w)
           /\ job[w].pc = "epilogue" => InstallEpilogue(w)
           /\ job[w].pc = "decide" => Decide(w)
           /\ job[w].pc = "stopSvc" => StopService(w)
           /\ job[w].pc \in {"stopLocal", "stopLocalErr"} => StopLocal(w)
           /\ job[w].pc \in QuitStep => QuitJoin(w) \/ QuitClose(w) \/ QuitSignal(w) \/ QuitLock(w) \/ QuitStop(w)
                                         \/ Exit(w)
<1> USE DEF At
<1>1. \/ TakeToken(w) \/ Enter(w) \/ TurnAway(w) \/ InstallEpilogue(w) \/ Decide(w) \/ StopService(w) \/ StopLocal(w)
      \/ QuitJoin(w) \/ QuitClose(w) \/ QuitSignal(w) \/ QuitLock(w) \/ QuitStop(w) \/ Exit(w)
      \/ job[w].pc \notin {"idle", "token", "enter", "epilogue", "decide", "stopSvc", "stopLocal",
              "stopLocalErr"} \cup QuitStep
  <2>1. CASE Check(w) \/ StartTest(w) \/ Raise(w) \/ Claim(w) \/ Spawn(w) \/ Persist(w) \/ HaltLocal(w) \/ SvcOff(w)
    BY <2>1 DEF Check, StartTest, Raise, Claim, Spawn, Persist, HaltLocal, SvcOff, QuitStep
  <2>2. CASE SvcConfig(w) \/ SvcOn(w) \/ InstallLeave(w) \/ RemoveService(w) \/ ListsDone(w) \/ Unmark(w)
    BY <2>2 DEF SvcConfig, SvcOn, InstallLeave, RemoveService, ListsDone, Unmark, QuitStep
  <2>3. CASE \/ SearchBegin(w) \/ SearchLook(w) \/ SearchSvcOff(w) \/ SearchContext(w) \/ SearchHalt(w)
             \/ SearchNext(w) \/ SearchSpawn(w)
    BY <2>3 DEF SearchBegin, SearchLook, SearchSvcOff, SearchContext, SearchHalt, SearchNext, SearchSpawn, QuitStep
  <2>4. CASE \/ SearchProbe(w) \/ SearchExit(w) \/ SearchLock(w) \/ SearchFinally(w) \/ SearchRestore(w)
             \/ SearchUnmark(w) \/ SearchDone(w)
    BY <2>4 DEF SearchProbe, SearchExit, SearchLock, SearchFinally, SearchRestore, SearchUnmark, SearchDone, QuitStep
  <2> QED BY <2>1, <2>2, <2>3, <2>4 DEF Work
<1>2. /\ (TakeToken(w) => job[w].pc = "token") /\ (Enter(w) \/ TurnAway(w) => job[w].pc = "enter")
      /\ (InstallEpilogue(w) => job[w].pc = "epilogue") /\ (Decide(w) => job[w].pc = "decide")
      /\ (StopService(w) => job[w].pc = "stopSvc") /\ (StopLocal(w) => job[w].pc \in {"stopLocal", "stopLocalErr"})
      /\ (QuitJoin(w) \/ QuitClose(w) \/ QuitSignal(w) \/ QuitLock(w) \/ QuitStop(w) \/ Exit(w)
            => job[w].pc \in QuitStep)
  BY Zenon DEF TakeToken, Enter, TurnAway, InstallEpilogue, Decide, StopService, StopLocal, QuitJoin, QuitClose,
     QuitSignal, QuitLock, QuitStop, Exit, QuitStep
<1>3. QuitStep \cap {"idle", "token", "enter", "epilogue", "decide", "stopSvc", "stopLocal", "stopLocalErr"} = {}
  BY DEF QuitStep
<1> QED BY <1>1, <1>2, <1>3

(* An exit, once begun, goes on until the program has ended. *)
Leaving == \E w \in Worker : job[w].op \in Quitting

LEMMA QuitterStays ==
    ASSUME BaseInv, NEW w \in Worker, Work(w), up', job[w].op \in Quitting
    PROVE  job'[w].op = job[w].op
<1>0. job \in [Worker -> Jobs] /\ Sound(job[w])
  BY WorkKeepsOp DEF BaseInv, Control
<1>1. job[w].pc \in QuitStep
  BY <1>0 DEF Sound, Fits, Does, Quitting, Entering, AfterCheck, QuitStep
<1>2. \E x : Goto(w, x)
  <2>1. ~Exit(w)
    BY Zenon DEF Exit, Gone
  <2>2. QuitJoin(w) \/ QuitClose(w) \/ QuitSignal(w) \/ QuitLock(w) \/ QuitStop(w) => \E x : Goto(w, x)
    BY Zenon DEF QuitJoin, QuitClose, QuitSignal, QuitLock, QuitStop
  <2> QED BY <1>1, <2>1, <2>2, StepsOf
<1> QED BY <1>0, <1>2, OpStays

LEMMA LeavingStays == ASSUME BaseInv, Leaving, [Next]_vars, up', up PROVE Leaving'
<1>0. job \in [Worker -> Jobs]
  BY DEF BaseInv, Control
<1>1. PICK v \in Worker : job[v].op \in Quitting
  BY DEF Leaving
<1>2. ASSUME NEW w \in Worker, Handler(w) PROVE Leaving'
  <2>1. job[w].pc = "idle" => job[w].op = "none"
    BY DEF BaseInv, Control, Sound, Fits, Does, AtSearch, Finally, QuitStep
  <2>2. job'[v] = job[v]
    BY <1>1, <1>2, <2>1, HandlerOpens DEF Opens, Quitting
  <2> QED BY <1>1, <2>2 DEF Leaving
<1>3. ASSUME NEW w \in Worker, Work(w) PROVE Leaving'
  <2>1. CASE v = w
    BY <1>1, <1>3, <2>1, QuitterStays DEF Leaving
  <2>2. CASE v # w
    BY <1>0, <1>1, <1>3, <2>2, WorkKeepsOp DEF Leaving, Alone
  <2> QED BY <2>1, <2>2
<1>4. CASE SearchStop \/ AdoptService \/ Die \/ Foreign \/ UNCHANGED vars
  <2>1. UNCHANGED job
    BY <1>4, Zenon DEF SearchStop, AdoptService, Die, Foreign, vars
  <2> QED BY <2>1 DEF Leaving
<1>5. ~Crash /\ ~Boot
  BY Zenon DEF Crash, Gone, Boot
<1> QED BY <1>2, <1>3, <1>4, <1>5 DEF Next

(* The current token is signalled only by close(), and only an exit closes. *)
Signals == /\ signalled \subseteq 0..cur /\ (cur \in signalled => closed)
           /\ \A w \in Worker : at[w] = "closing" => closed
Parting == closed /\ up => Leaving

LEMMA CtlSignals ==
    ASSUME P!IInv, Signals, CtlStep
    PROVE  Signals' /\ (closed' => closed \/ \E w \in Worker : at'[w] = "closing")
<1>0. cur \in 0..MaxToken /\ at \in [Worker -> P!Place] /\ MaxToken \in Nat /\ P!Place = RT!Place
  BY ControllerAssumption DEF P!IInv, P!TypeOK, P!Place, RT!Place
<1> DEFINE Result == Signals' /\ (closed' => closed \/ \E w \in Worker : at'[w] = "closing")
<1>1. ASSUME NEW d, RT!Supersede(d), UNCHANGED closed, \A w \in Worker : at'[w] = "closing" => at[w] = "closing"
      PROVE  Result
  <2>1. signalled' \subseteq 0..cur /\ cur' = cur + 1 /\ cur \in Nat
    BY <1>0, <1>1 DEF Signals, RT!Supersede
  <2>2. signalled' \subseteq 0..cur' /\ cur' \notin signalled'
    BY <2>1
  <2> QED BY <1>1, <2>2 DEF Signals
<1>2. ASSUME NEW w \in Worker, NEW d, RT!Request(w, d) \/ RT!RequestIfCurrent(w, d) PROVE Result
  BY <1>0, <1>1, <1>2 DEF RT!Request, RT!RequestIfCurrent
<1>3. ASSUME NEW d, RT!Announce(d) PROVE Result
  BY <1>1, <1>3 DEF RT!Announce
<1>4. ASSUME UNCHANGED <<cur, signalled, closed>>, \A w \in Worker : at'[w] = "closing" => at[w] = "closing" PROVE Result
  BY <1>4 DEF Signals
<1>5. ASSUME NEW w \in Worker,
             \/ RT!Capture(w) \/ RT!Rearm(w) \/ RT!Drop(w) \/ RT!Enter(w) \/ RT!Refuse(w) \/ RT!GiveUp(w)
             \/ RT!Lock(w) \/ RT!Admit(w) \/ RT!Leave(w) \/ \E d \in RT!Mode : RT!SetDesired(w, d)
      PROVE  Result
  BY <1>0, <1>4, <1>5 DEF RT!Capture, RT!Rearm, RT!Drop, RT!Enter, RT!Refuse, RT!GiveUp, RT!Lock, RT!Admit, RT!Leave,
     RT!SetDesired
<1>6. ASSUME NEW w \in Worker, RT!CloseFlag(w) PROVE Result
  BY <1>0, <1>6 DEF RT!CloseFlag, Signals
<1>7. ASSUME NEW w \in Worker, RT!CloseSignal(w) PROVE Result
  BY <1>0, <1>7 DEF RT!CloseSignal, Signals
<1>8. ASSUME UNCHANGED ctl PROVE Result
  BY <1>8 DEF ctl, Signals
<1> HIDE DEF Result
<1>9. ASSUME NEW w \in Worker, RT!Step(w) PROVE Result
  <2>1. CASE \E d \in RT!Mode : RT!SetDesired(w, d)
    BY <1>5, <2>1
  <2>2. CASE \E d \in RT!Mode : RT!Request(w, d) \/ RT!RequestIfCurrent(w, d)
    BY <1>2, <2>2
  <2> QED BY <1>5, <1>6, <1>7, <1>9, <2>1, <2>2, Zenon DEF RT!Step
<1>10. Result
  BY <1>3, <1>8, <1>9 DEF CtlStep, RT!Next
<1> QED BY <1>10 DEF Result

LEMMA Reboots == ASSUME BaseInv, ~up, up', [Next]_vars PROVE Boot
<1>1. \A w \in Worker : ~Handler(w) /\ ~Work(w)
  BY HandlerOpens, WorkKeepsOp DEF BaseInv, Control
<1>2. ~(SearchStop \/ AdoptService \/ Crash \/ Die \/ Foreign \/ UNCHANGED vars)
  BY Zenon DEF SearchStop, AdoptService, Crash, Gone, Die, Foreign, vars, past
<1> QED BY <1>1, <1>2 DEF Next

LEMMA NextSignals ==
    ASSUME BaseInv, Signals, Parting, [Next]_vars PROVE Signals' /\ Parting'
<1>0. desired \in RT!Mode /\ P!IInv
  BY DEF BaseInv, P!IInv, P!TypeOK, P!Mode, RT!Mode
<1>1. CASE Boot
  <2>1. cur' = 0 /\ signalled' = {} /\ ~closed' /\ at' = [w \in Worker |-> "idle"]
    BY <1>1, Zenon DEF Boot
  <2> QED BY <2>1 DEF Signals, Parting
<1>2. CASE ~Boot
  <2>1. CtlStep
    BY <1>0, <1>2, NextProtocol DEF CtlStep, vars, ctl
  <2>2. Signals' /\ (closed' => closed \/ \E w \in Worker : at'[w] = "closing")
    BY <1>0, <2>1, CtlSignals
  <2>3. ASSUME up', NEW w \in Worker, at'[w] = "closing" PROVE Leaving'
    <3>1. Control'
      BY BaseStep DEF BaseInv
    <3>2. PlaceOf(job'[w].pc) = "closing" /\ Sound(job'[w])
      BY <2>3, <3>1 DEF Control
    <3>3. job'[w].pc \in {"q.signal", "q.resignal"}
      BY <3>2 DEF PlaceOf, Outside
    <3>4. job'[w].op \in Quitting
      BY <3>2, <3>3 DEF Sound, Fits, Does, AtSearch, Finally, Entering, AfterCheck
    <3> QED BY <3>4 DEF Leaving
  <2>4. up' => up
    BY <1>2, Reboots
  <2> QED BY <2>2, <2>3, <2>4, LeavingStays DEF Parting
<1> QED BY <1>1, <1>2

(* Processes and the service are touched only by the worker that holds the lock. *)
LEMMA HostHeld ==
    ASSUME NEW w \in Worker, Work(w), PlaceOf(job[w].pc) \notin Holding, up'
    PROVE  UNCHANGED host
<1> USE DEF At
<1>1. CASE \/ TakeToken(w) \/ Enter(w) \/ TurnAway(w) \/ Check(w) \/ StartTest(w) \/ Raise(w) \/ Claim(w)
           \/ Persist(w) \/ Decide(w) \/ InstallLeave(w) \/ InstallEpilogue(w) \/ ListsDone(w) \/ Unmark(w)
           \/ SearchBegin(w) \/ SearchLook(w)
  BY <1>1, Zenon DEF TakeToken, Enter, TurnAway, Check, StartTest, Raise, Claim, Persist, Decide, InstallLeave,
     InstallEpilogue, ListsDone, Unmark, SearchBegin, SearchLook
<1>2. CASE \/ SearchContext(w) \/ SearchNext(w) \/ SearchExit(w) \/ SearchLock(w) \/ SearchUnmark(w)
           \/ SearchDone(w) \/ QuitJoin(w) \/ QuitClose(w) \/ QuitSignal(w) \/ QuitLock(w)
  BY <1>2, Zenon DEF SearchContext, SearchNext, SearchExit, SearchLock, SearchUnmark, SearchDone, QuitJoin, QuitClose,
     QuitSignal, QuitLock
<1>3. CASE \/ Spawn(w) \/ HaltLocal(w) \/ SvcOff(w) \/ SvcConfig(w) \/ SvcOn(w) \/ RemoveService(w) \/ StopService(w)
           \/ StopLocal(w) \/ SearchSvcOff(w) \/ SearchHalt(w) \/ SearchSpawn(w) \/ SearchProbe(w)
           \/ SearchFinally(w) \/ SearchRestore(w) \/ QuitStop(w)
  <2>1. job[w].pc \in {"spawn", "halt", "svcOff", "config", "svcOn", "remove", "stopSvc", "stopLocal", "stopLocalErr",
                       "s.svcOff", "s.halt", "s.spawn", "s.probe", "s.fin", "s.restore", "q.stop"}
    BY <1>3, Zenon DEF Spawn, HaltLocal, SvcOff, SvcConfig, SvcOn, RemoveService, StopService, StopLocal, SearchSvcOff,
       SearchHalt, SearchSpawn, SearchProbe, SearchFinally, SearchRestore, QuitStop
  <2> QED BY <2>1 DEF PlaceOf, Outside, Holding
<1>4. CASE Exit(w)
  BY <1>4, Zenon DEF Exit, Gone
<1> QED BY <1>1, <1>2, <1>3, <1>4 DEF Work

-----------------------------------------------------------------------------
(* Without searches and updates of the lists: a worker that is told to stop ends the
   service, the trial and our process, unless it fails and says so. *)
Sober == \A w \in Worker : job[w].op \notin {"search", "lists"}
NoSvc == \A w \in Worker : job[w].pc = "stopLocal" => ~SvcRunning

LEMMA NextSober ==
    ASSUME Ops \cap {"lists", "search", "fix"} = {}, BaseInv, Sober, [Next]_vars PROVE Sober'
<1>0. job \in [Worker -> Jobs]
  BY DEF BaseInv, Control
<1>1. ASSUME NEW w \in Worker, Handler(w) PROVE Sober'
  BY <1>1, HandlerOpens DEF Sober, Opens, Plain
<1>2. ASSUME NEW w \in Worker, Work(w), up' PROVE Sober'
  BY <1>0, <1>2, WorkKeepsOp DEF Sober, Alone
<1>3. ASSUME ~up' PROVE Sober'
  BY <1>3, BaseStep, IdleJob DEF BaseInv, Control, IsIdle, Sober
<1>4. CASE SearchStop \/ AdoptService \/ Boot \/ Die \/ Foreign \/ UNCHANGED vars
  <2>1. UNCHANGED job
    BY <1>4, Zenon DEF SearchStop, AdoptService, Boot, Die, Foreign, vars
  <2> QED BY <2>1 DEF Sober
<1>5. Crash => ~up'
  BY Zenon DEF Crash, Gone
<1> QED BY <1>1, <1>2, <1>3, <1>4, <1>5 DEF Next

(* The worker of a stop shows its errors: a handler is there to log them. *)
LEMMA StopsAreHeard == ASSUME NEW w \in Worker, Stopping(job[w]), Errs(w) PROVE failed'
<1>1. job[w].op # "restart" /\ job[w].op # "switch"
  BY DEF Stopping
<1> QED BY <1>1 DEF Errs, Unheard, Reports

LEMMA StopperSteps ==
    ASSUME BaseInv, NEW w \in Worker, Work(w), Stopping(job[w])
    PROVE  \/ Enter(w) /\ Goto(w, "stopSvc")
           \/ TurnAway(w) /\ Finish(w) /\ RT!Refuse(w)
           \/ StopService(w) /\ (failed' \/ (SvcStops /\ Goto(w, "stopLocal")) \/ (UNCHANGED svc /\ Goto(w, "stopLocalErr")))
           \/ StopLocal(w) /\ Finish(w)
<1>1. Sound(job[w])
  BY WorkKeepsOp DEF BaseInv, Control
<1>2. job[w].pc \in {"enter", "stopSvc", "stopLocal", "stopLocalErr"}
  BY <1>1 DEF Sound, Fits, Does, Stopping, Entering, AfterCheck, Quitting
<1>3. Enter(w) => Goto(w, "stopSvc")
  <2>1. First["stop"] = "stopSvc" /\ First["stopAll"] = "stopSvc"
    BY DEF First
  <2> QED BY <2>1 DEF Enter, Stopping
<1>4. TurnAway(w) => Finish(w) /\ RT!Refuse(w)
  <2>1. job[w].op # "search" /\ job[w].op # "switch"
    BY DEF Stopping
  <2> QED BY <2>1, Zenon DEF TurnAway
<1>5. StopService(w) =>
        failed' \/ (SvcStops /\ Goto(w, "stopLocal")) \/ (UNCHANGED svc /\ Goto(w, "stopLocalErr"))
  BY StopsAreHeard, Zenon DEF StopService
<1>6. StopLocal(w) => Finish(w)
  BY Zenon DEF StopLocal, Ends, Errs
<1> QED BY <1>2, <1>3, <1>4, <1>5, <1>6, StepsOf

LEMMA NextNoSvc == ASSUME BaseInv, NoSvc, [Next]_vars PROVE NoSvc'
<1>0. job \in [Worker -> Jobs]
  BY DEF BaseInv, Control
<1>1. ASSUME NEW w \in Worker, Handler(w) PROVE NoSvc'
  <2>1. UNCHANGED svc
    BY <1>1, HandlerOpens DEF host
  <2>2. ASSUME NEW v \in Worker PROVE job'[v] = job[v] \/ job'[v].pc # "stopLocal"
    BY <1>1, HandlerOpens DEF Opens, Opening
  <2> QED BY <2>1, <2>2 DEF NoSvc, SvcRunning
<1>2. ASSUME NEW w \in Worker, Work(w), up', NEW v \in Worker, job'[v].pc = "stopLocal" PROVE ~SvcRunning'
  <2>1. CASE v # w
    <3>1. job'[v] = job[v] /\ up
      BY <1>0, <1>2, <2>1, WorkKeepsOp DEF Alone
    <3>2. PlaceOf(job[v].pc) \in Holding
      BY <1>2, <3>1 DEF PlaceOf, Outside, Holding
    <3>3. PlaceOf(job[w].pc) \notin Holding
      BY <2>1, <3>1, <3>2, OneHolds
    <3>4. UNCHANGED svc
      BY <1>2, <3>3, HostHeld DEF host
    <3> QED BY <1>2, <3>1, <3>4 DEF NoSvc, SvcRunning
  <2>2. CASE v = w
    <3>1. Sound(job'[w])
      BY <1>2, BaseStep DEF BaseInv, Control, Next
    <3>2. Stopping(job'[w])
      BY <1>2, <2>2, <3>1 DEF Sound, Fits, Does, Stopping, Entering, AtSearch, Finally, Quitting, QuitStep
    <3>3. Stopping(job[w])
      BY <1>0, <1>2, <3>2, WorkKeepsOp DEF Stopping
    <3>4. /\ Enter(w) \/ Finish(w) \/ StopService(w)
          /\ \A x \in {"stopSvc", "stopLocalErr"} : ~Goto(w, x)
          /\ ~Finish(w)
      <4>1. \A x \in {"stopSvc", "stopLocalErr"} : ~Goto(w, x)
        BY <1>0, <1>2, <2>2, Goes, Names DEF Becomes
      <4>2. ~Finish(w)
        BY <1>0, <1>2, <2>2, Ceases DEF Becomes
      <4> QED BY <1>2, <3>3, <4>1, <4>2, StopperSteps
    <3>5. SvcStops
      <4>1. StopService(w) => SvcStops \/ Goto(w, "stopLocalErr") \/ Finish(w)
        BY Zenon DEF StopService, Errs
      <4> QED BY <1>2, <3>3, <3>4, <4>1, StopperSteps
    <3> QED BY <3>5 DEF SvcStops, SvcRunning
  <2> QED BY <2>1, <2>2
<1>3. ASSUME ~up' PROVE NoSvc'
  BY <1>3, BaseStep, IdleJob DEF BaseInv, Control, IsIdle, NoSvc
<1>4. CASE SearchStop \/ AdoptService \/ Boot \/ Die \/ Foreign \/ UNCHANGED vars
  <2>1. UNCHANGED <<job, svc>>
    BY <1>4, Zenon DEF SearchStop, AdoptService, Boot, Die, Foreign, vars, host
  <2> QED BY <2>1 DEF NoSvc, SvcRunning
<1>5. Crash => ~up'
  BY Zenon DEF Crash, Gone
<1> QED BY <1>1, <1>2, <1>3, <1>4, <1>5 DEF Next, NoSvc

(* A worker makes no request.  It changes the mode only as the start that the current
   token stands for, and takes a token only as a restart that had none. *)
LEMMA WorkTokens ==
    ASSUME BaseInv, NEW w \in Worker, Work(w), job[w].op \notin {"search", "lists"}
    PROVE  /\ cur' = cur
           /\ desired' = desired \/ (job[w].op = "start" /\ RT!Valid(tok[w]))
           /\ \A v \in Worker : tok'[v] = tok[v] \/ (v = w /\ job[w].op = "restart" /\ job'[w].op = "restart")
<1>0. job \in [Worker -> Jobs] /\ Sound(job[w]) /\ tok \in [Worker -> 0..MaxToken]
  BY WorkKeepsOp DEF BaseInv, Control, P!IInv, P!TypeOK
<1> DEFINE Still == UNCHANGED <<cur, desired, tok>>
           Asleep == \/ UNCHANGED ctl \/ RT!Enter(w) \/ RT!Refuse(w) \/ RT!Drop(w) \/ RT!Leave(w) \/ RT!Lock(w)
                     \/ RT!CloseFlag(w) \/ RT!CloseSignal(w)
<1>1. Asleep => Still
  BY DEF ctl, RT!Enter, RT!Refuse, RT!GiveUp, RT!Drop, RT!Leave, RT!Lock, RT!CloseFlag, RT!CloseSignal
<1> USE DEF At, Ends, Errs
<1>2. CASE \/ Enter(w) \/ TurnAway(w) \/ Check(w) \/ Raise(w) \/ Claim(w) \/ Spawn(w) \/ Persist(w) \/ HaltLocal(w)
           \/ Decide(w) \/ SvcOff(w) \/ SvcConfig(w)
  <2>1. Asleep
    BY <1>2, Zenon DEF Enter, TurnAway, Check, Raise, Claim, Spawn, Persist, HaltLocal, Decide, SvcOff, SvcConfig
  <2> QED BY <1>1, <2>1
<1>3. CASE \/ SvcOn(w) \/ InstallLeave(w) \/ InstallEpilogue(w) \/ RemoveService(w) \/ StopService(w)
           \/ StopLocal(w) \/ Unmark(w) \/ QuitJoin(w) \/ QuitClose(w) \/ QuitSignal(w) \/ QuitLock(w) \/ QuitStop(w)
           \/ Exit(w)
  <2>1. Asleep
    BY <1>3, Zenon DEF SvcOn, InstallLeave, InstallEpilogue, RemoveService, StopService, StopLocal, Unmark, QuitJoin,
       QuitClose, QuitSignal, QuitLock, QuitStop, Exit, Gone
  <2> QED BY <1>1, <2>1
<1>4. CASE TakeToken(w)
  <2>1. RT!Capture(w) /\ Goto(w, "enter") /\ job[w].pc = "token"
    BY <1>4 DEF TakeToken
  <2>2. job[w].op = "restart"
    BY <1>0, <2>1 DEF Sound, Fits, Does, Entering, AtSearch, Finally, Quitting, QuitStep
  <2>3. job'[w].op = job[w].op
    BY <1>0, <2>1, OpStays
  <2> QED BY <1>0, <2>1, <2>2, <2>3 DEF RT!Capture
<1>5. CASE StartTest(w)
  <2>1. job[w].pc = "test" /\ (UNCHANGED ctl \/ \E d : RT!SetDesired(w, d))
    BY <1>5, Zenon DEF StartTest
  <2>2. job[w].op = "start"
    BY <1>0, <2>1 DEF Sound, Fits, Does, Entering, AtSearch, Finally, Quitting, QuitStep
  <2> QED BY <1>1, <2>1, <2>2 DEF RT!SetDesired
<1>6. CASE \/ SearchBegin(w) \/ SearchLook(w) \/ SearchSvcOff(w) \/ SearchContext(w) \/ SearchHalt(w) \/ SearchNext(w)
           \/ SearchSpawn(w) \/ SearchProbe(w) \/ SearchExit(w) \/ SearchLock(w) \/ SearchFinally(w)
           \/ SearchRestore(w) \/ SearchUnmark(w) \/ SearchDone(w) \/ ListsDone(w)
  <2>1. job[w].pc \in SearchStep \cup {"download"}
    BY <1>6, Zenon DEF SearchBegin, SearchLook, SearchSvcOff, SearchContext, SearchHalt, SearchNext, SearchSpawn,
       SearchProbe, SearchExit, SearchLock, SearchFinally, SearchRestore, SearchUnmark, SearchDone, ListsDone, SearchStep
  <2> QED BY <1>0, <2>1 DEF SearchStep, Sound, Fits, Does, Entering, Quitting, QuitStep
<1> QED BY <1>2, <1>3, <1>4, <1>5, <1>6 DEF Work

(* The user asked to stop and saw no error: then the program is exiting, or nothing
   was requested after the stop but restarts, and either nothing runs and nobody is
   about to run something, or the stop is still to come. *)
Serving == \E w \in Worker : Stopping(job[w]) /\ tok[w] = cur
Obeyed  == /\ desired = "stopped" /\ ui.nostart /\ cur > 0
           /\ \A w \in Worker : tok[w] = cur /\ job[w].op # "none" => Stopping(job[w]) \/ job[w].op = "restart"
Harmless(w) == at[w] = "inside" => Stopping(job[w]) \/ (job[w].op = "restart" /\ job[w].pc = "decide")
Down == ~Managed /\ \A w \in Worker : Harmless(w)
Heeded == Leaving \/ (Obeyed /\ (Down \/ Serving))
StopObeyed == up /\ asked = "stop" /\ ~failed => Heeded
StopInv == Signals /\ Parting /\ Sober /\ NoSvc /\ OneStop /\ StopObeyed

LEMMA ErrsStay == ASSUME NEW w \in Worker, Errs(w) PROVE (failed => failed') /\ (silent => silent')
<1>1. Reports => (failed => failed') /\ (silent => silent')
  BY DEF Reports
<1>2. ASSUME Vanishes(w) PROVE (failed => failed') /\ (silent => silent')
  <2>1. failed' = failed /\ silent' = (silent \/ RT!Valid(tok[w]))
    BY <1>2, Zenon DEF Vanishes
  <2>2. ASSUME silent PROVE silent'
    <3>1. (silent \/ RT!Valid(tok[w])) = TRUE
      BY <2>2
    <3>2. silent' = TRUE
      BY <2>1, <3>1
    <3> QED BY <3>2
  <2> QED BY <2>1, <2>2
<1> QED BY <1>1, <1>2, Zenon DEF Errs

LEMMA FailuresStay == ASSUME NEW w \in Worker, Work(w) PROVE failed => failed'
<1> USE ErrsStay DEF Ends, Reports, Fails, past
<1>1. CASE \/ TakeToken(w) \/ Enter(w) \/ TurnAway(w) \/ Check(w) \/ StartTest(w) \/ Raise(w) \/ Claim(w)
           \/ Spawn(w) \/ Persist(w) \/ HaltLocal(w) \/ Decide(w) \/ SvcOff(w) \/ SvcConfig(w) \/ SvcOn(w)
  BY <1>1, Zenon DEF TakeToken, Enter, TurnAway, Check, StartTest, Raise, Claim, Spawn, Persist, HaltLocal, Decide, SvcOff,
     SvcConfig, SvcOn
<1>2. CASE \/ InstallLeave(w) \/ InstallEpilogue(w) \/ RemoveService(w) \/ StopService(w) \/ StopLocal(w)
           \/ ListsDone(w) \/ Unmark(w) \/ SearchBegin(w) \/ SearchLook(w) \/ SearchSvcOff(w) \/ SearchContext(w)
           \/ SearchHalt(w) \/ SearchNext(w)
  BY <1>2, Zenon DEF InstallLeave, InstallEpilogue, RemoveService, StopService, StopLocal, ListsDone, Unmark, SearchBegin,
     SearchLook, SearchSvcOff, SearchContext, SearchHalt, SearchNext
<1>3. CASE \/ SearchSpawn(w) \/ SearchProbe(w) \/ SearchExit(w) \/ SearchLock(w) \/ SearchFinally(w)
           \/ SearchRestore(w) \/ SearchUnmark(w) \/ SearchDone(w) \/ QuitJoin(w) \/ QuitClose(w) \/ QuitSignal(w)
           \/ QuitLock(w) \/ QuitStop(w) \/ Exit(w)
  BY <1>3, Zenon DEF SearchSpawn, SearchProbe, SearchExit, SearchLock, SearchFinally, SearchRestore, RestoreFails,
     SearchUnmark, SearchDone, QuitJoin, QuitClose, QuitSignal, QuitLock, QuitStop, Exit, Gone
<1> QED BY <1>1, <1>2, <1>3 DEF Work

LEMMA SilenceStays == ASSUME NEW w \in Worker, Work(w) PROVE silent => silent'
<1> SUFFICES ASSUME ~Errs(w) PROVE silent' = silent
  BY ErrsStay
<1> USE DEF Ends, Reports, Fails, past
<1>1. CASE \/ TakeToken(w) \/ Enter(w) \/ TurnAway(w) \/ Check(w) \/ StartTest(w) \/ Raise(w) \/ Claim(w)
           \/ Spawn(w) \/ Persist(w) \/ HaltLocal(w) \/ Decide(w) \/ SvcOff(w) \/ SvcConfig(w) \/ SvcOn(w)
  BY <1>1, Zenon DEF TakeToken, Enter, TurnAway, Check, StartTest, Raise, Claim, Spawn, Persist, HaltLocal, Decide, SvcOff,
     SvcConfig, SvcOn
<1>2. CASE \/ InstallLeave(w) \/ InstallEpilogue(w) \/ RemoveService(w) \/ StopService(w) \/ StopLocal(w)
           \/ ListsDone(w) \/ Unmark(w) \/ SearchBegin(w) \/ SearchLook(w) \/ SearchSvcOff(w) \/ SearchContext(w)
           \/ SearchHalt(w) \/ SearchNext(w)
  BY <1>2, Zenon DEF InstallLeave, InstallEpilogue, RemoveService, StopService, StopLocal, ListsDone, Unmark, SearchBegin,
     SearchLook, SearchSvcOff, SearchContext, SearchHalt, SearchNext
<1>3. CASE \/ SearchSpawn(w) \/ SearchProbe(w) \/ SearchExit(w) \/ SearchLock(w) \/ SearchFinally(w)
           \/ SearchRestore(w) \/ SearchUnmark(w) \/ SearchDone(w) \/ QuitJoin(w) \/ QuitClose(w) \/ QuitSignal(w)
           \/ QuitLock(w) \/ QuitStop(w) \/ Exit(w)
  BY <1>3, Zenon DEF SearchSpawn, SearchProbe, SearchExit, SearchLock, SearchFinally, SearchRestore, RestoreFails,
     SearchUnmark, SearchDone, QuitJoin, QuitClose, QuitSignal, QuitLock, QuitStop, Exit, Gone
<1> QED BY <1>1, <1>2, <1>3 DEF Work

LEMMA WorkObeys ==
    ASSUME BaseInv, StopInv, NEW w \in Worker, Work(w), up', Obeyed, ~Leaving PROVE Obeyed'
<1>0. job \in [Worker -> Jobs] /\ ui \in UITypes /\ Sober /\ up /\ cur \in 0..MaxToken /\ tok \in [Worker -> 0..MaxToken]
  BY WorkKeepsOp DEF BaseInv, Control, StopInv, P!IInv, P!TypeOK
<1>1. Alone(w) /\ job'[w].op \in {job[w].op, "none"}
  <2>1. Sound(job[w])
    BY <1>0 DEF BaseInv, Control
  <2>2. job[w].pc \notin {"download", "s.done"}
    BY <1>0, <2>1 DEF Sober, Sound, Fits, Does, Entering, AtSearch, Finally, Quitting, QuitStep, AfterCheck
  <2> QED BY <1>0, <2>2, WorkKeepsOp
<1>2. ui'.nostart
  BY <1>0, WorkFlags DEF FlagsKept, FlagsOver, FlagsAre, Obeyed
<1>3. /\ cur' = cur
      /\ desired' = desired \/ (job[w].op = "start" /\ RT!Valid(tok[w]))
      /\ \A v \in Worker : tok'[v] = tok[v] \/ (v = w /\ job[w].op = "restart" /\ job'[w].op = "restart")
  BY <1>0, WorkTokens DEF Sober
<1>4. ~(job[w].op = "start" /\ RT!Valid(tok[w]))
  BY DEF Obeyed, Stopping, RT!Valid
<1>5. ASSUME NEW v \in Worker, tok'[v] = cur', job'[v].op # "none"
      PROVE  Stopping(job'[v]) \/ job'[v].op = "restart"
  BY <1>1, <1>3, <1>5 DEF Obeyed, Stopping, Alone
<1> QED BY <1>2, <1>3, <1>4, <1>5 DEF Obeyed

LEMMA StopperServes ==
    ASSUME BaseInv, StopInv, NEW w \in Worker, Work(w), up', ~failed', Obeyed, ~Leaving,
           Stopping(job[w]), tok[w] = cur
    PROVE  Serving' \/ Down'
<1>0. job \in [Worker -> Jobs] /\ up /\ Sober /\ HostTypeOK /\ Guided(w)
  BY WorkKeepsOp, WorkSteers DEF BaseInv, Control, DataTypes, StopInv
<1>1. tok'[w] = cur' /\ \A v \in Worker : job'[v] = job[v] \/ v = w
  BY <1>0, WorkTokens DEF Sober, Stopping, Guided, Alone
<1>2. ASSUME NEW x, Goto(w, x) PROVE Serving'
  BY <1>0, <1>1, <1>2, OpStays DEF Serving, Stopping
<1>3. ~(TurnAway(w) /\ RT!Refuse(w))
  <2>1. RT!Valid(tok[w])
    BY <1>0 DEF StopInv, Signals, Parting, RT!Valid
  <2> QED BY <2>1 DEF RT!Refuse, RT!GiveUp
<1>4. ASSUME StopLocal(w), Finish(w) PROVE Down'
  <2>1. job[w].pc = "stopLocal" /\ UNCHANGED svc
    BY <1>4, StopsAreHeard, Zenon DEF StopLocal, At
  <2>2. proc' = None
    BY <1>4, StopsAreHeard, Zenon DEF StopLocal
  <2>3. ~Managed'
    BY <1>0, <2>1, <2>2 DEF StopInv, NoSvc, Managed, SvcRunning, ProcAlive, Alive
  <2>4. Control' /\ PlaceOf("stopLocal") \in Holding
    BY <1>0 DEF Guided, PlaceOf, Outside, Holding
  <2>5. ASSUME NEW v \in Worker PROVE at'[v] # "inside"
    <3>1. at'[v] = PlaceOf(job'[v].pc)
      BY <2>4 DEF Control
    <3>2. CASE v = w
      <4>1. job'[w].pc = "idle"
        BY <1>0, <1>4, Ceases DEF Becomes
      <4> QED BY <3>1, <3>2, <4>1 DEF PlaceOf, Outside
    <3>3. CASE v # w
      <4>1. PlaceOf(job[v].pc) \notin Holding
        BY <1>0, <2>1, <2>4, <3>3, OneHolds
      <4> QED BY <1>1, <3>1, <3>3, <4>1 DEF Holding
    <3> QED BY <3>2, <3>3
  <2> QED BY <2>3, <2>5 DEF Down, Harmless
<1> QED BY <1>2, <1>3, <1>4, StopperSteps

LEMMA DownStays ==
    ASSUME BaseInv, StopInv, NEW w \in Worker, Work(w), up', ~failed', Obeyed, ~Leaving, Down
    PROVE  Down'
<1>0. job \in [Worker -> Jobs] /\ up /\ Sober /\ HostTypeOK /\ Guided(w) /\ Sound(job[w]) /\ at[w] = PlaceOf(job[w].pc)
  BY WorkKeepsOp, WorkSteers DEF BaseInv, Control, DataTypes, StopInv
<1>1. ASSUME Harmless(w)' PROVE \A v \in Worker : Harmless(v)'
  <2>1. ASSUME NEW v \in Worker \ {w} PROVE Harmless(v)'
    <3>1. job'[v] = job[v] /\ at'[v] = PlaceOf(job'[v].pc) /\ at[v] = PlaceOf(job[v].pc)
      BY <1>0 DEF Guided, Alone, Control, BaseInv
    <3> QED BY <3>1 DEF Down, Harmless
  <2> QED BY <1>1, <2>1
<1>2. ASSUME Finish(w) PROVE Harmless(w)'
  <2>1. job'[w].pc = "idle" /\ at'[w] = PlaceOf(job'[w].pc)
    BY <1>0, <1>2, Ceases DEF Becomes, Guided, Control
  <2> QED BY <2>1 DEF Harmless, PlaceOf, Outside
<1>3. CASE Stopping(job[w])
  <2>1. ASSUME NEW x, Goto(w, x) PROVE Harmless(w)'
    BY <1>0, <1>3, <2>1, OpStays DEF Harmless, Stopping
  <2>2. Harmless(w)'
    BY <1>2, <1>3, <2>1, StopperSteps
  <2>3. ~Managed'
    <3>1. CASE Enter(w) \/ TurnAway(w)
      <4>1. UNCHANGED host
        BY <3>1, Zenon DEF Enter, TurnAway
      <4> QED BY <4>1 DEF host, Down, Managed, ProcAlive, SvcRunning, Alive
    <3>2. CASE StopService(w)
      <4>1. UNCHANGED proc /\ (svc' = svc \/ SvcStops) /\ win' = Ended(trial)
        BY <1>3, <3>2, StopsAreHeard, Zenon DEF StopService
      <4> QED BY <1>0, <4>1, HostAssumption
              DEF SvcStops, Ended, HostTypeOK, Down, Managed, ProcAlive, SvcRunning, Alive
    <3>3. CASE StopLocal(w)
      <4>1. proc' = None /\ UNCHANGED svc
        BY <1>3, <3>3, StopsAreHeard, Zenon DEF StopLocal
      <4> QED BY <4>1 DEF Down, Managed, ProcAlive, SvcRunning, Alive
    <3> QED BY <1>3, <3>1, <3>2, <3>3, StopperSteps
  <2> QED BY <1>1, <2>2, <2>3 DEF Down
<1>4. CASE ~Stopping(job[w]) /\ at[w] = "inside"
  <2>1. job[w].op = "restart" /\ job[w].pc = "decide"
    BY <1>4 DEF Down, Harmless
  <2>2. Decide(w)
    BY <2>1, StepsOf
  <2>3. Ends(w) /\ UNCHANGED host
    BY <2>1, <2>2 DEF Decide, Obeyed
  <2>4. Harmless(w)'
    BY <1>2, <2>3 DEF Ends
  <2> QED BY <1>1, <2>3, <2>4 DEF host, Down, Managed, ProcAlive, SvcRunning, Alive
<1>5. CASE ~Stopping(job[w]) /\ at[w] # "inside"
  <2>1. job[w].pc \in {"token", "enter", "epilogue"}
    <3>1. job[w].op \notin Quitting \cup {"search", "lists"}
      BY <1>0 DEF Leaving, Sober
    <3>2. job[w].pc # "idle"
      BY StepsOf
    <3> QED BY <1>0, <1>5, <3>1, <3>2 DEF Sound, Fits, Does, PlaceOf, Outside, AfterCheck, Stopping, Entering
  <2>2. UNCHANGED host
    BY <1>0, <2>1, HostHeld DEF PlaceOf, Outside, Holding
  <2>3. Harmless(w)'
    <3>1. CASE Enter(w)
      <4>1. RT!Valid(tok[w]) /\ Goto(w, First[job[w].op]) /\ job[w].pc = "enter"
        BY <3>1 DEF Enter, RT!Enter, At
      <4>2. job[w].op = "restart"
        <5>1. job[w].op # "none"
          BY <1>0, <4>1 DEF Sound, Fits, Does, Entering, AtSearch, Finally, Quitting, QuitStep
        <5> QED BY <1>5, <4>1, <5>1 DEF Obeyed, RT!Valid
      <4>3. Goto(w, "decide")
        BY <4>1, <4>2 DEF First
      <4> QED BY <1>0, <4>2, <4>3, Names, Goes DEF Becomes, Harmless
    <3>2. CASE TakeToken(w)
      <4>1. Goto(w, "enter")
        BY <3>2 DEF TakeToken
      <4>2. job'[w].pc = "enter" /\ at'[w] = PlaceOf(job'[w].pc)
        BY <1>0, <4>1, Goes, Names DEF Becomes, Guided, Control
      <4> QED BY <4>2 DEF Harmless, PlaceOf, Outside
    <3>3. CASE TurnAway(w) \/ InstallEpilogue(w)
      <4>1. Finish(w)
        BY <1>0, <3>3 DEF TurnAway, InstallEpilogue, Sober
      <4> QED BY <1>2, <4>1
    <3> QED BY <2>1, <3>1, <3>2, <3>3, StepsOf
  <2> QED BY <1>1, <2>2, <2>3 DEF host, Down, Managed, ProcAlive, SvcRunning, Alive
<1> QED BY <1>3, <1>4, <1>5

LEMMA WorkStopObeyed ==
    ASSUME BaseInv, StopInv, NEW w \in Worker, Work(w), up' PROVE StopObeyed'
<1>0. /\ up /\ asked' = asked /\ (failed => failed') /\ Alone(w)
      /\ job[w].op \notin {"search", "lists"}
  BY WorkKeepsOp, FailuresStay DEF BaseInv, Control, StopInv, Sober
<1> SUFFICES ASSUME asked' = "stop", ~failed' PROVE Heeded'
  BY DEF StopObeyed
<1>1. Heeded
  BY <1>0 DEF StopInv, StopObeyed
<1>2. CASE Leaving
  BY <1>0, <1>2, LeavingStays DEF Next, Heeded
<1>3. CASE ~Leaving
  <2>1. Obeyed /\ (Down \/ Serving)
    BY <1>1, <1>3 DEF Heeded
  <2>2. Obeyed'
    BY <1>3, <2>1, WorkObeys
  <2>3. CASE Down
    BY <1>3, <2>1, <2>2, <2>3, DownStays DEF Heeded
  <2>4. CASE Serving
    <3>1. PICK v \in Worker : Stopping(job[v]) /\ tok[v] = cur
      BY <2>4 DEF Serving
    <3>2. CASE v = w
      BY <1>3, <2>1, <2>2, <3>1, <3>2, StopperServes DEF Heeded
    <3>3. CASE v # w
      <4>1. job'[v] = job[v] /\ tok'[v] = tok[v] /\ cur' = cur
        BY <1>0, <3>3, WorkTokens DEF Alone
      <4> QED BY <2>2, <3>1, <4>1 DEF Heeded, Serving
    <3> QED BY <3>2, <3>3
  <2> QED BY <2>1, <2>3, <2>4
<1> QED BY <1>2, <1>3

(* The handlers: a stop makes the promise, any other command withdraws it, and
   what asks for no command keeps it. *)
LEMMA StopPromises ==
    ASSUME BaseInv, StopInv, NEW w \in Worker, NEW op \in {"stop", "stopAll"}, Stop(w, op) PROVE Heeded'
<1>0. /\ job \in [Worker -> Jobs] /\ tok \in [Worker -> 0..MaxToken] /\ cur \in 0..MaxToken
      /\ \A v \in Worker : tok[v] <= cur
  BY DEF BaseInv, Control, P!IInv, P!TypeOK, P!TokenInv
<1>1. RT!Request(w, "stopped") /\ Begin(w, op, "enter", None)
  BY Zenon DEF Stop
<1>2. desired' = "stopped" /\ cur' = cur + 1 /\ tok' = [tok EXCEPT ![w] = cur + 1] /\ MaxToken \in Nat
  BY <1>1, ControllerAssumption DEF RT!Request, RT!Supersede
<1>3. tok'[w] = cur' /\ cur' > 0 /\ \A v \in Worker \ {w} : tok'[v] # cur'
  BY <1>0, <1>2
<1>4. Stopping(job'[w])
  <2>1. op \in Operation /\ None \in Strategy \cup {None}
    BY Names
  <2> QED BY <1>0, <1>1, <2>1, Begins, Names DEF Becomes, Stopping
<1>5. ui'.nostart
  <2>1. ui' = [ui EXCEPT !.cancel = TRUE, !.apply = FALSE, !.stop = TRUE, !.nostart = TRUE]
    BY Zenon DEF Stop
  <2>2. FlagsAre(ui', TRUE, TRUE, ui.closing)
    BY <2>1, Flagged, Zenon DEF BaseInv
  <2> QED BY <2>2 DEF FlagsAre
<1> QED BY <1>2, <1>3, <1>4, <1>5 DEF Heeded, Obeyed, Serving

LEMMA RestartKeepsPromise ==
    ASSUME BaseInv, StopInv, NEW w \in Worker, DiagRestart(w), up, up', asked = "stop", ~failed, ~Leaving
    PROVE  Heeded'
<1>0. /\ job \in [Worker -> Jobs] /\ tok \in [Worker -> 0..MaxToken] /\ at \in [Worker -> RT!Place] /\ cur \in 0..MaxToken
      /\ (\A v \in Worker : tok[v] <= cur) /\ MaxToken \in Nat
  BY ControllerAssumption DEF BaseInv, Control, P!IInv, P!TypeOK, P!TokenInv, P!Place, RT!Place
<1>1. RT!Request(w, desired) /\ Begin(w, "restart", "enter", None) /\ ~ui.stop /\ UNCHANGED <<host, ui>>
  BY Zenon DEF DiagRestart, app
<1>2. Obeyed /\ Down
  <2>1. ~Serving
    BY <1>1 DEF StopInv, OneStop, Serving
  <2> QED BY <2>1 DEF StopInv, StopObeyed, Heeded
<1>3. /\ desired' = "stopped" /\ cur' = cur + 1 /\ tok' = [tok EXCEPT ![w] = cur + 1]
      /\ at' = [at EXCEPT ![w] = "armed"]
  BY <1>1, <1>2 DEF RT!Request, RT!Supersede, Obeyed
<1>4. tok'[w] = cur' /\ cur' > 0 /\ \A v \in Worker \ {w} : tok'[v] # cur'
  BY <1>0, <1>3
<1>5. job'[w].op = "restart" /\ \A v \in Worker \ {w} : job'[v] = job[v]
  BY <1>0, <1>1, Begins, Names DEF Becomes, Alone
<1>6. Obeyed'
  BY <1>1, <1>2, <1>3, <1>4, <1>5 DEF Obeyed
<1>7. Down'
  <2>1. ~Managed'
    BY <1>1, <1>2 DEF host, Down, Managed, ProcAlive, SvcRunning, Alive
  <2>2. ASSUME NEW v \in Worker PROVE Harmless(v)'
    BY <1>0, <1>2, <1>3, <1>5 DEF Down, Harmless
  <2> QED BY <2>1, <2>2 DEF Down
<1> QED BY <1>6, <1>7 DEF Heeded

LEMMA ToggleKeepsPromise ==
    ASSUME BaseInv, StopInv, NEW w \in Worker, Toggle(w), up, asked = "stop", ~failed, ~Leaving
    PROVE  Heeded'
<1>0. job \in [Worker -> Jobs]
  BY DEF BaseInv, Control
<1>1. UNCHANGED <<cur, tok, desired, ui>> /\ Begin(w, "restart", "token", None) /\ Managed
  BY Zenon DEF Toggle, ctl, app
<1>2. Obeyed /\ Serving
  BY <1>1 DEF StopInv, StopObeyed, Heeded, Down
<1>3. job'[w].op = "restart" /\ \A v \in Worker \ {w} : job'[v] = job[v]
  BY <1>0, <1>1, Begins, Names DEF Becomes, Alone
<1>4. ~Stopping(job[w])
  <2>1. job[w].pc = "idle" /\ Sound(job[w])
    BY <1>1 DEF Begin, Free, BaseInv, Control
  <2> QED BY <2>1 DEF Sound, Fits, Does, Stopping, Entering, Quitting, AtSearch, Finally, QuitStep
<1>5. Obeyed'
  BY <1>1, <1>2, <1>3 DEF Obeyed
<1>6. Serving'
  BY <1>1, <1>2, <1>3, <1>4 DEF Serving
<1> QED BY <1>5, <1>6 DEF Heeded

LEMMA HandlerStopObeyed ==
    ASSUME Ops \cap {"lists", "search", "fix"} = {}, BaseInv, StopInv, NEW w \in Worker, Handler(w)
    PROVE  StopObeyed'
<1>0. up /\ up' /\ job \in [Worker -> Jobs] /\ cur \in 0..MaxToken
  BY HandlerOpens DEF BaseInv, Control, P!IInv, P!TypeOK
<1>1. ASSUME Heeded' PROVE StopObeyed'
  BY <1>1 DEF StopObeyed
<1>2. CASE Leaving
  BY <1>0, <1>2, LeavingStays DEF Next, StopObeyed, Heeded
<1>3. ASSUME asked' \in Strategy \cup {None} PROVE StopObeyed'
  BY <1>3, CommandAssumption DEF StopObeyed
<1>4. ASSUME NEW s \in Strategy, Start(w, s) \/ Install(w, s) \/ RestoreLast(w, s) PROVE StopObeyed'
  <2>1. asked' = s
    BY <1>4, Zenon DEF Start, StartWith, Install, RestoreLast, Asks
  <2> QED BY <1>3, <2>1
<1>5. CASE Remove(w) \/ StartupResume(w)
  <2>1. asked' = None \/ asked' = ui.resume
    BY <1>5, Zenon DEF Remove, StartupResume, StartWith, Asks
  <2>2. ui.resume \in Strategy \cup {None}
    BY DEF BaseInv, UITypes
  <2> QED BY <1>3, <2>1, <2>2
<1>6. ASSUME NEW op \in {"stop", "stopAll"}, Stop(w, op) PROVE StopObeyed'
  BY <1>1, <1>6, StopPromises
<1>7. CASE QuitForUpdate(w) \/ \E b \in BOOLEAN : Quit(w, b)
  <2>1. CASE QuitForUpdate(w)
    <3>1. PICK s \in Strategy \cup {None} : Begin(w, "update", "q.close", s)
      <4>1. (IF ProcAlive THEN name ELSE None) \in Strategy \cup {None}
        BY DEF BaseInv, DataTypes
      <4>2. Begin(w, "update", "q.close", IF ProcAlive THEN name ELSE None)
        BY <2>1, ZenonT(60) DEF QuitForUpdate
      <4> QED BY <4>1, <4>2
    <3>2. job'[w].op \in Quitting
      BY <1>0, <3>1, Begins, Names DEF Becomes, Quitting
    <3> QED BY <1>1, <3>2 DEF Heeded, Leaving
  <2>2. ASSUME NEW b \in BOOLEAN, Quit(w, b) PROVE StopObeyed'
    <3> DEFINE op == IF b THEN "quitStop" ELSE "quit"
               pc == IF ui.auto THEN "q.join" ELSE "q.close"
    <3>1. job' = [job EXCEPT ![w] = [Idle EXCEPT !.op = op, !.pc = pc, !.t = cur]]
      BY <2>2, Zenon DEF Quit
    <3>2. op \in Operation /\ pc \in PC /\ op \in Quitting
      BY Names DEF Quitting
    <3> HIDE DEF op, pc
    <3>3. job'[w].op = op
      BY <1>0, <3>1, <3>2, Begins DEF Becomes
    <3> QED BY <1>1, <3>2, <3>3 DEF Heeded, Leaving
  <2> QED BY <1>7, <2>1, <2>2
<1>8. CASE DiagRestart(w)
  <2>1. UNCHANGED <<asked, failed>>
    BY <1>8, Zenon DEF DiagRestart, past
  <2> QED BY <1>0, <1>2, <1>8, <2>1, RestartKeepsPromise DEF StopObeyed
<1>9. CASE Toggle(w)
  <2>1. UNCHANGED <<asked, failed>>
    BY <1>9, Zenon DEF Toggle, past
  <2> QED BY <1>0, <1>2, <1>9, <2>1, ToggleKeepsPromise DEF StopObeyed
<1>10. CASE StartupRestore(w)
  <2>1. UNCHANGED <<asked, failed>> /\ ~ui.nostart
    BY <1>10, Zenon DEF StartupRestore, past
  <2> QED BY <1>0, <1>2, <2>1 DEF StopInv, StopObeyed, Heeded, Obeyed
<1>11. ~(Lists(w) \/ Search(w) \/ SimpleFix(w))
  BY Zenon DEF Lists, Search, SimpleFix, Click
<1> QED BY <1>4, <1>5, <1>6, <1>7, <1>8, <1>9, <1>10, <1>11 DEF Handler

LEMMA OtherStopObeyed ==
    ASSUME BaseInv, StopInv, SearchStop \/ AdoptService \/ Crash \/ Boot \/ Die \/ Foreign \/ UNCHANGED vars
    PROVE  StopObeyed'
<1>1. CASE Crash \/ Boot
  <2>1. ~up' \/ asked' = None
    BY <1>1, Zenon DEF Crash, Gone, Boot
  <2> QED BY <2>1, CommandAssumption DEF StopObeyed
<1>2. CASE SearchStop
  <2>1. UNCHANGED <<host, ctl, job, past>> /\ ui' = [ui EXCEPT !.cancel = TRUE]
    BY <1>2, Zenon DEF SearchStop
  <2>2. ui'.nostart <=> ui.nostart
    BY <2>1, CancelFlags DEF BaseInv, FlagsKept, FlagsAre
  <2> QED BY <2>1, <2>2
          DEF host, ctl, past, StopInv, StopObeyed, Heeded, Leaving, Obeyed, Serving, Down, Harmless, Managed, ProcAlive,
              SvcRunning, Alive
<1>3. CASE AdoptService
  <2>1. UNCHANGED <<job, past>> /\ cur = 0
    BY <1>3, Zenon DEF AdoptService
  <2> QED BY <2>1 DEF past, StopInv, StopObeyed, Heeded, Leaving, Obeyed
<1>4. CASE Die \/ Foreign \/ UNCHANGED vars
  <2>1. UNCHANGED <<proc, svc, ctl, job, ui, past>>
    <3>1. CASE Die \/ Foreign
      BY <3>1, Zenon DEF Die, Foreign, app
    <3>2. CASE UNCHANGED vars
      BY <3>2 DEF vars, host, past
    <3> QED BY <1>4, <3>1, <3>2
  <2>2. UNCHANGED win \/ \E p \in Pid : win' = [win EXCEPT ![p] = None]
    BY <1>4, Zenon DEF Die, Foreign, vars, host
  <2>3. Managed' => Managed
    BY <2>1, <2>2, HostAssumption DEF Managed, ProcAlive, SvcRunning, Alive, BaseInv, DataTypes, HostTypeOK
  <2> QED BY <2>1, <2>3 DEF ctl, past, StopInv, StopObeyed, Heeded, Leaving, Obeyed, Serving, Down, Harmless
<1> QED BY <1>1, <1>2, <1>3, <1>4

LEMMA NextStop ==
    ASSUME Ops \cap {"lists", "search", "fix"} = {}, BaseInv, StopInv, [Next]_vars PROVE StopInv'
<1>1. Signals' /\ Parting' /\ Sober' /\ NoSvc' /\ OneStop'
  BY NextSignals, NextSober, NextNoSvc, NextOneStop DEF StopInv
<1>2. StopObeyed'
  BY HandlerStopObeyed, WorkStopObeyed, OtherStopObeyed DEF Next, StopObeyed
<1> QED BY <1>1, <1>2 DEF StopInv

LEMMA InitStop == Init => StopInv
<1> SUFFICES ASSUME Init PROVE StopInv
  OBVIOUS
<1>1. /\ job = [w \in Worker |-> Idle] /\ asked = None /\ ~closed /\ signalled = {}
      /\ at = [w \in Worker |-> "idle"]
  BY Zenon DEF Init, CtlInit, RT!Init
<1> QED BY <1>1, IdleJob, CommandAssumption
        DEF IsIdle, StopInv, Signals, Parting, Sober, NoSvc, OneStop, Stopping, StopObeyed

LEMMA StopHonours == BaseInv /\ StopInv => StopIsHonoured
<1> SUFFICES ASSUME BaseInv, StopInv, up, \A w \in Worker : job[w].pc = "idle", asked = "stop", ~failed
             PROVE  ~Managed
  BY DEF StopIsHonoured, Quiet
<1>1. ASSUME NEW w \in Worker PROVE job[w].op = "none"
  BY DEF BaseInv, Control, Sound, Fits, Does, Entering, Quitting, AtSearch, Finally, QuitStep
<1> QED BY <1>1 DEF StopInv, StopObeyed, Heeded, Leaving, Quitting, Serving, Stopping, Down

(* With any faults, crashes, exits and restarts, whatever was started, installed,
   restarted or put back before or after the click: at rest, after a stop and no
   error, nothing the program manages runs.  (A search, or an update of the lists, may
   take the place of the stop.) *)
THEOREM StopsAreObeyed == Ops \cap {"lists", "search", "fix"} = {} => (Spec => []StopIsHonoured)
<1> SUFFICES ASSUME Ops \cap {"lists", "search", "fix"} = {} PROVE Spec => []StopIsHonoured
  OBVIOUS
<1>1. BaseInv /\ StopInv /\ [Next]_vars => StopInv'
  BY NextStop
<1> QED BY <1>1, InitStop, StopHonours, BaseHolds, PTL DEF Spec
-----------------------------------------------------------------------------
(* Two engines.  Without restarts, searches and updates of the lists, whoever is on
   the way to start the service has seen our winws end, and whoever is on the way to
   spawn has seen the service not running - unless it was superseded, and then the
   next runtime.check, or the one after the stop of our process, turns it away. *)
Unsettling == {"diagRestart", "toggle", "lists", "search", "fix"}
Orderly == ~marker /\ \A w \in Worker : job[w].op \notin {"search", "lists", "restart", "restore"}

NoWinws == \A p \in Pid : ~Alive(p)
Granted(w) == at[w] \in {"armed", "inside"}
Unique == \A v, w \in Worker : v # w /\ Granted(v) /\ Granted(w) => tok[v] # tok[w]

May(w) == job[w].pc \in {"check", "halt"} => RT!Valid(tok[w])
SvcPath(j) == Going(j) \in {"svcOff", "config", "svcOn"}
WinPath(j) == Going(j) \in {"claim", "spawn"} \/ (j.op = "switch" /\ j.pc = "halt")
Side(w) == May(w) => (SvcPath(job[w]) => NoWinws) /\ (WinPath(job[w]) => ~SvcRunning)

(* A switch decides by the mode, which was set by what ran at the click. *)
Choosing(w) == job[w].op = "switch" /\ job[w].pc \in {"enter", "decide"} /\ RT!Valid(tok[w])
Chosen == IF desired = "service" THEN NoWinws /\ \A v \in Worker : job[v].pc # "spawn"
                                 ELSE ~SvcRunning /\ \A v \in Worker : job[v].pc # "svcOn"

EngineInv == /\ Orderly /\ Unique
             /\ \A w \in Worker : Side(w) /\ (Choosing(w) => Chosen)
             /\ OneEngine

(* A step that starts neither engine. *)
Lessens == (SvcRunning' => SvcRunning) /\ \A p \in Pid : Alive(p)' => Alive(p)

(* Validity is never regained. *)
LEMMA Stales ==
    ASSUME P!IInv, CtlStep, NEW t \in 0..cur PROVE RT!Valid(t)' => RT!Valid(t) /\ cur' = cur
<1>0. cur \in Nat
  BY DEF P!IInv, P!TypeOK
<1> DEFINE Grows == /\ signalled \subseteq signalled' /\ (closed => closed')
                    /\ cur' = cur \/ cur' = cur + 1
<1>1. ASSUME NEW d, RT!Supersede(d), UNCHANGED closed PROVE Grows
  BY <1>1 DEF RT!Supersede
<1>2. ASSUME NEW w \in Worker, RT!Step(w) PROVE Grows
  <2>1. CASE \E d \in RT!Mode : RT!Request(w, d) \/ RT!RequestIfCurrent(w, d)
    BY <1>1, <2>1, Zenon DEF RT!Request, RT!RequestIfCurrent
  <2>2. CASE \/ RT!Capture(w) \/ RT!Rearm(w) \/ RT!Drop(w) \/ RT!Enter(w) \/ RT!Refuse(w) \/ RT!GiveUp(w)
             \/ RT!Lock(w) \/ RT!Admit(w) \/ RT!Leave(w) \/ \E d \in RT!Mode : RT!SetDesired(w, d)
    <3>1. UNCHANGED <<cur, signalled, closed>>
      BY <2>2, Zenon DEF RT!Capture, RT!Rearm, RT!Drop, RT!Enter, RT!Refuse, RT!GiveUp, RT!Lock, RT!Admit, RT!Leave,
         RT!SetDesired
    <3> QED BY <3>1
  <2>3. CASE RT!CloseFlag(w) \/ RT!CloseSignal(w)
    BY <2>3 DEF RT!CloseFlag, RT!CloseSignal
  <2> HIDE DEF Grows
  <2> QED BY <1>2, <2>1, <2>2, <2>3, Zenon DEF RT!Step
<1>3. ASSUME NEW d, RT!Announce(d) PROVE Grows
  BY <1>1, <1>3 DEF RT!Announce
<1>4. UNCHANGED ctl => Grows
  BY DEF ctl
<1>5. Grows
  <2> HIDE DEF Grows
  <2> QED BY <1>2, <1>3, <1>4 DEF CtlStep, RT!Next
<1> QED BY <1>0, <1>5 DEF RT!Valid

(* While nobody asks for anything, the engines may only become fewer. *)
LEMMA Eases ==
    ASSUME EngineInv, UNCHANGED <<job, ctl, marker>>, Lessens PROVE EngineInv'
<1>1. Orderly' /\ Unique' /\ OneEngine'
  BY DEF EngineInv, Orderly, Unique, Granted, OneEngine, Lessens, ctl
<1>2. ASSUME NEW w \in Worker PROVE Side(w)' /\ (Choosing(w)' => Chosen')
  BY <1>2 DEF EngineInv, Side, May, Choosing, Chosen, RT!Valid, NoWinws, SvcPath, WinPath, Going, Lessens, ctl
<1> QED BY <1>1, <1>2 DEF EngineInv

(* A request supersedes whoever could have been on the way. *)
LEMMA Requested ==
    ASSUME BaseInv, EngineInv, UNCHANGED <<host, marker>>, cur' = cur + 1, CtlStep,
           NEW w \in Worker, \A v \in Worker \ {w} : job'[v] = job[v] /\ tok'[v] = tok[v] /\ at'[v] = at[v],
           \/ UNCHANGED <<job, tok, at>>
           \/ /\ job'[w].pc \in Opening /\ job'[w].op \notin {"search", "lists", "restart", "restore"}
              /\ \/ tok'[w] = cur + 1 /\ (Choosing(w)' => Chosen')
                 \/ ~Granted(w)' /\ job'[w].op \in Quitting /\ tok'[w] = tok[w]
    PROVE  EngineInv'
<1>0. /\ cur \in Nat /\ \A v \in Worker : tok[v] \in 0..cur
      /\ P!IInv
  BY DEF BaseInv, P!IInv, P!TypeOK, P!TokenInv
<1>1. Orderly'
  BY DEF EngineInv, Orderly
<1>2. Unique'
  <2>1. ASSUME NEW u \in Worker, NEW v \in Worker, u # v, Granted(u)', Granted(v)' PROVE tok'[u] # tok'[v]
    <3>1. CASE UNCHANGED <<tok, at>>
      BY <2>1, <3>1 DEF EngineInv, Unique, Granted
    <3>2. CASE tok'[w] = cur + 1
      <4>1. CASE u # w /\ v # w
        BY <2>1, <4>1 DEF EngineInv, Unique, Granted
      <4>2. CASE u = w
        BY <1>0, <2>1, <3>2, <4>2
      <4>3. CASE v = w
        BY <1>0, <2>1, <3>2, <4>3
      <4> QED BY <4>1, <4>2, <4>3
    <3>3. CASE ~Granted(w)'
      BY <2>1, <3>3 DEF EngineInv, Unique, Granted
    <3> QED BY <3>1, <3>2, <3>3
  <2> QED BY <2>1 DEF Unique
<1>3. ASSUME NEW v \in Worker, tok'[v] = tok[v], job'[v] = job[v] PROVE Side(v)' /\ ~Choosing(v)'
  <2>1. ~RT!Valid(tok[v])'
    BY <1>0, <1>3, Stales DEF RT!Valid
  <2>2. ~Choosing(v)' /\ (May(v)' => May(v))
    BY <1>3, <2>1 DEF Choosing, May, RT!Valid
  <2> QED BY <1>3, <2>2 DEF EngineInv, Side, SvcPath, WinPath, Going, NoWinws, Alive, SvcRunning, host
<1>4. CASE UNCHANGED <<job, tok, at>>
  BY <1>1, <1>2, <1>3, <1>4 DEF EngineInv, OneEngine, SvcRunning, Alive, host
<1>5. CASE ~UNCHANGED <<job, tok, at>>
  <2>1. ~SvcPath(job'[w]) /\ ~WinPath(job'[w])
    BY <1>5 DEF SvcPath, WinPath, Going, Opening
  <2>2. Side(w)'
    BY <2>1 DEF Side, SvcPath, WinPath, Going
  <2>3. Choosing(w)' => Chosen'
    BY <1>5 DEF Choosing, Quitting
  <2>4. \A v \in Worker : Side(v)' /\ (Choosing(v)' => Chosen')
    BY <1>3, <2>2, <2>3
  <2>5. OneEngine'
    BY DEF EngineInv, OneEngine, SvcRunning, Alive, host
  <2> QED BY <1>1, <1>2, <2>4, <2>5 DEF EngineInv
<1> QED BY <1>4, <1>5

(* A click: a request for a worker of its own, or an exit. *)
LEMMA HandlerEngine ==
    ASSUME Ops \cap Unsettling = {}, BaseInv, Guarded, EngineInv, NEW w \in Worker, Handler(w) PROVE EngineInv'
<1> USE DEF Click, UIFree, Unsettling
<1>0. /\ job \in [Worker -> Jobs] /\ cur \in 0..MaxToken /\ cur \in Nat /\ up /\ up' /\ UNCHANGED host
      /\ tok \in [Worker -> 0..MaxToken] /\ at \in [Worker -> RT!Place] /\ desired \in RT!Mode
      /\ ui.resume \in Strategy \cup {None} /\ None \in Strategy \cup {None} /\ ~marker
      /\ name \in Strategy \cup {None} /\ proc \in Pid \cup {None}
  <2>1. up /\ up' /\ UNCHANGED host
    BY HandlerOpens
  <2>2. /\ cur \in 0..MaxToken /\ cur \in Nat /\ tok \in [Worker -> 0..MaxToken] /\ at \in [Worker -> RT!Place]
        /\ desired \in RT!Mode
    BY ControllerAssumption DEF BaseInv, P!IInv, P!TypeOK, P!Place, RT!Place, P!Mode, RT!Mode
  <2>3. /\ job \in [Worker -> Jobs] /\ ui.resume \in Strategy \cup {None} /\ ~marker
        /\ name \in Strategy \cup {None} /\ proc \in Pid \cup {None}
    BY DEF BaseInv, Control, DataTypes, HostTypeOK, UITypes, EngineInv, Orderly
  <2> QED BY <2>1, <2>2, <2>3
<1>1. CtlStep
  BY <1>0, HandlerProtocol
<1>2. ASSUME NEW d, NEW op \in {"start", "stop", "stopAll", "install", "remove", "switch"},
             NEW s \in Strategy \cup {None}, RT!Request(w, d), Begin(w, op, "enter", s), UNCHANGED marker,
             op = "switch" => s \in Strategy /\ RestoreLast(w, s)
      PROVE  EngineInv'
  <2>1. Becomes(w, op, "enter", "", s, 0)
    BY <1>0, <1>2, Begins, Names
  <2>2. /\ cur' = cur + 1 /\ desired' = d /\ tok'[w] = cur + 1
        /\ \A v \in Worker \ {w} : job'[v] = job[v] /\ tok'[v] = tok[v] /\ at'[v] = at[v]
    BY <1>0, <1>2, <2>1 DEF RT!Request, RT!Supersede, Becomes, Alone
  <2>3. job'[w].pc \in Opening /\ job'[w].op \notin {"search", "lists", "restart", "restore"}
    BY <2>1 DEF Becomes, Opening
  <2>4. ASSUME job'[w].op = "switch" PROVE Chosen'
    <3>1. Managed /\ desired' = IF SvcRunning THEN "service" ELSE "manual"
      BY <1>2, <2>1, <2>4 DEF RestoreLast, RT!Request, RT!Supersede, Becomes
    <3>2. CASE SvcRunning
      <4>1. NoWinws
        BY <3>2 DEF EngineInv, OneEngine, NoWinws
      <4>2. \A v \in Worker : job[v].pc # "spawn"
        BY <3>2 DEF EngineInv, Side, May, WinPath, Going
      <4>3. \A v \in Worker : job'[v].pc # "spawn"
        BY <2>1, <2>2, <4>2 DEF Becomes
      <4> QED BY <1>0, <3>1, <3>2, <4>1, <4>3 DEF Chosen, NoWinws, Alive, host
    <3>3. CASE ~SvcRunning
      <4>1. ~NoWinws
        BY <1>0, <3>1, <3>3 DEF Managed, ProcAlive, NoWinws, Alive
      <4>2. \A v \in Worker : job[v].pc # "svcOn"
        BY <4>1 DEF EngineInv, Side, May, SvcPath, Going
      <4>3. \A v \in Worker : job'[v].pc # "svcOn"
        BY <2>1, <2>2, <4>2 DEF Becomes
      <4> QED BY <1>0, <3>1, <3>3, <4>3 DEF Chosen, SvcRunning, host
    <3> QED BY <3>2, <3>3
  <2> QED BY <1>0, <1>1, <1>2, <2>2, <2>3, <2>4, Requested DEF Choosing
<1>3. ASSUME NEW s \in Strategy, Start(w, s) \/ Install(w, s) \/ RestoreLast(w, s) PROVE EngineInv'
  <2>1. CASE Start(w, s)
    <3>1. RT!Request(w, "manual") /\ Begin(w, "start", "enter", s) /\ UNCHANGED marker
      BY <2>1, Zenon DEF Start, StartWith, files
    <3> QED BY <1>2, <3>1
  <2>2. CASE Install(w, s)
    <3>1. RT!Request(w, "service") /\ Begin(w, "install", "enter", s) /\ UNCHANGED marker
      BY <2>2, Zenon DEF Install, files
    <3> QED BY <1>2, <3>1
  <2>3. CASE RestoreLast(w, s)
    <3>1. /\ RT!Request(w, IF SvcRunning THEN "service" ELSE "manual") /\ Begin(w, "switch", "enter", s)
          /\ UNCHANGED marker
      BY <2>3, Zenon DEF RestoreLast
    <3> QED BY <1>2, <2>3, <3>1
  <2> QED BY <1>3, <2>1, <2>2, <2>3
<1>4. ASSUME NEW op \in {"stop", "stopAll"}, Stop(w, op) PROVE EngineInv'
  <2>1. RT!Request(w, "stopped") /\ Begin(w, op, "enter", None) /\ UNCHANGED marker
    BY <1>4, Zenon DEF Stop, files
  <2> QED BY <1>0, <1>2, <2>1
<1>5. CASE Remove(w)
  <2>1. RT!Request(w, "stopped") /\ Begin(w, "remove", "enter", None) /\ UNCHANGED marker
    BY <1>5, Zenon DEF Remove, files
  <2> QED BY <1>0, <1>2, <2>1
<1>6. CASE StartupResume(w)
  <2>1. RT!Request(w, "manual") /\ Begin(w, "start", "enter", ui.resume) /\ UNCHANGED marker
    BY <1>6, Zenon DEF StartupResume, StartWith, files
  <2> QED BY <1>0, <1>2, <2>1
<1>7. ~(DiagRestart(w) \/ Toggle(w) \/ Lists(w) \/ Search(w) \/ SimpleFix(w) \/ StartupRestore(w))
  BY <1>0 DEF DiagRestart, Toggle, Lists, Search, SimpleFix, StartupRestore
<1>8. ASSUME NEW op \in Quitting, NEW pc \in {"q.join", "q.close"}, job'[w].op = op, job'[w].pc = pc, Alone(w),
             at[w] = "idle", UNCHANGED marker, UNCHANGED ctl \/ RT!Announce("stopped")
      PROVE  EngineInv'
  <2>1. pc \in Opening /\ op \notin {"search", "lists", "restart", "restore", "switch"}
    BY DEF Opening, Quitting
  <2>2. CASE RT!Announce("stopped")
    <3>1. cur' = cur + 1 /\ UNCHANGED <<tok, at>>
      BY <2>2 DEF RT!Announce, RT!Supersede
    <3>2. ~Granted(w)'
      BY <1>8, <3>1 DEF Granted
    <3>3. \A v \in Worker \ {w} : job'[v] = job[v] /\ tok'[v] = tok[v] /\ at'[v] = at[v]
      BY <1>8, <3>1 DEF Alone
    <3> QED BY <1>0, <1>1, <1>8, <2>1, <3>1, <3>2, <3>3, Requested
  <2>3. CASE UNCHANGED ctl
    <3>1. Orderly' /\ Unique' /\ OneEngine'
      BY <1>0, <1>8, <2>1, <2>3 DEF EngineInv, Orderly, Unique, Granted, Alone, OneEngine, SvcRunning, Alive, host, ctl
    <3>2. /\ ~SvcPath(job'[w]) /\ ~WinPath(job'[w]) /\ ~Choosing(w)'
          /\ job'[w].pc \notin {"spawn", "svcOn"}
      BY <1>8, <2>1 DEF SvcPath, WinPath, Going, Choosing
    <3>3. ASSUME NEW v \in Worker \ {w} PROVE Side(v)' /\ (Choosing(v)' => Choosing(v))
      BY <1>0, <1>8, <2>3 DEF EngineInv, Alone, Side, May, Choosing, RT!Valid, SvcPath, WinPath, Going, NoWinws, Alive,
         SvcRunning, host, ctl
    <3>4. Chosen => Chosen'
      BY <1>0, <1>8, <2>3, <3>2 DEF Alone, Chosen, NoWinws, Alive, SvcRunning, host, ctl
    <3>5. Side(w)'
      BY <3>2 DEF Side, SvcPath, WinPath, Going
    <3> QED BY <3>1, <3>2, <3>3, <3>4, <3>5 DEF EngineInv
  <2> QED BY <1>8, <2>2, <2>3
<1>9. ASSUME NEW b \in BOOLEAN, Quit(w, b) PROVE EngineInv'
  <2>1. at[w] = "idle" /\ UNCHANGED marker /\ (UNCHANGED ctl \/ RT!Announce("stopped"))
    BY <1>9, Zenon DEF Quit, Free, files
  <2>2. PICK op \in {"quit", "quitStop"}, pc \in {"q.join", "q.close"} :
           job' = [job EXCEPT ![w] = [Idle EXCEPT !.op = op, !.pc = pc, !.t = cur]]
    BY <1>9, Zenon DEF Quit
  <2>3. op \in Operation /\ pc \in PC /\ op \in Quitting
    BY <2>2, Names DEF Quitting
  <2>4. Becomes(w, op, pc, "", Idle.s, 0)
    BY <1>0, <2>2, <2>3, Begins, Zenon
  <2> QED BY <1>8, <2>1, <2>3, <2>4 DEF Becomes
<1>10. CASE QuitForUpdate(w)
  <2>1. /\ Begin(w, "update", "q.close", IF ProcAlive THEN name ELSE None) /\ UNCHANGED ctl /\ UNCHANGED marker
        /\ at[w] = "idle"
    BY <1>10, Zenon DEF QuitForUpdate, Begin, Free, files
  <2>2. (IF ProcAlive THEN name ELSE None) \in Strategy \cup {None}
    BY <1>0
  <2>3. Becomes(w, "update", "q.close", "", IF ProcAlive THEN name ELSE None, 0)
    BY <1>0, <2>1, <2>2, Begins, Names, Zenon
  <2>4. "update" \in Quitting
    BY DEF Quitting
  <2> QED BY <1>8, <2>1, <2>3, <2>4 DEF Becomes
<1> QED BY <1>3, <1>4, <1>5, <1>6, <1>7, <1>9, <1>10 DEF Handler

(* Where a job of an operation other than these may be. *)
LEMMA Tracks ==
    ASSUME NEW w \in Worker, Sound(job[w]), job[w].op \notin {"search", "lists", "restart", "restore"}
    PROVE  /\ job[w].pc \notin SearchStep \cup {"token", "download", "unmark"}
           /\ job[w].pc = "enter" => job[w].op \in {"start", "stop", "stopAll", "install", "remove", "switch"}
           /\ job[w].pc \in {"test", "raise", "claim"} => job[w].op = "start"
           /\ job[w].pc = "decide" => job[w].op = "switch"
           /\ job[w].pc = "halt" => job[w].op \in {"install", "switch"}
           /\ job[w].op \in Quitting => job[w].pc \in QuitStep
           /\ job[w].pc = "check" => job[w].k \in AfterCheck
           /\ job[w].op = "switch" => job[w].pc \in {"enter", "decide", "halt", "spawn", "svcOff", "config", "svcOn",
                                                     "persist", "check"}
BY DEF Sound, Fits, Does, Entering, AtSearch, Finally, Quitting, QuitStep, AfterCheck, SearchStep

(* What a step of such a worker does to its own job.  Only a check that was passed
   leads to the two steps that start an engine. *)
Steps(w) ==
    \/ job'[w].pc \in {"idle", "test", "stopSvc", "remove", "raise", "persist", "leave", "epilogue", "stopLocal",
                       "stopLocalErr"} \cup QuitStep
    \/ Enter(w) /\ job[w].op = "install" /\ job'[w].op = "install" /\ job'[w].pc = "halt" /\ UNCHANGED host
    \/ Enter(w) /\ job'[w].op = "switch" /\ job'[w].pc = "decide" /\ UNCHANGED host
    \/ /\ job[w].pc = "check" /\ RT!Valid(tok[w]) /\ job'[w].pc = job[w].k /\ job[w].k \in AfterCheck
       /\ UNCHANGED host
    \/ /\ job'[w].pc = "check"
       /\ \/ job'[w].k = "claim" /\ ~SvcRunning /\ UNCHANGED host
          \/ job'[w].k = "spawn" /\ job[w].pc = "claim" /\ UNCHANGED host
          \/ job'[w].k = "spawn" /\ job[w].op = "switch" /\ job[w].pc = "halt" /\ UNCHANGED svc
          \/ job'[w].k = "svcOff" /\ job[w].op = "install" /\ job[w].pc = "halt" /\ win' = Ended(proc)
          \/ job'[w].k = "svcOff" /\ job[w].op = "switch" /\ job[w].pc = "decide" /\ desired = "service"
             /\ UNCHANGED host
          \/ job'[w].k = "config" /\ job[w].pc = "svcOff" /\ UNCHANGED win
          \/ job'[w].k = "svcOn" /\ job[w].pc = "config" /\ UNCHANGED win
          \/ job'[w].k \in {"persist", "leave"}
    \/ /\ job[w].op = "switch" /\ job[w].pc = "decide" /\ desired # "service"
       /\ job'[w].op = "switch" /\ job'[w].pc = "halt" /\ UNCHANGED host

LEMMA WorkTracks ==
    ASSUME BaseInv, Orderly, NEW w \in Worker, Work(w), up' PROVE Steps(w)
<1>0. /\ job \in [Worker -> Jobs] /\ Sound(job[w]) /\ job[w].op \notin {"search", "lists", "restart", "restore"}
  BY WorkKeepsOp DEF BaseInv, Control, Orderly
<1>1. /\ \A x \in PC : Goto(w, x) => job'[w].pc = x /\ job'[w].op = job[w].op
      /\ \A x \in PC : CheckThen(w, x) => job'[w].pc = "check" /\ job'[w].k = x
      /\ Finish(w) => job'[w].pc = "idle"
  BY <1>0, Goes, Ceases DEF Becomes
<1>2. /\ job[w].pc \notin SearchStep \cup {"token", "download", "unmark"}
      /\ job[w].pc = "enter" => job[w].op \in {"start", "stop", "stopAll", "install", "remove", "switch"}
      /\ job[w].pc \in {"test", "raise", "claim"} => job[w].op = "start"
      /\ job[w].pc = "decide" => job[w].op = "switch"
      /\ job[w].pc = "halt" => job[w].op \in {"install", "switch"}
      /\ job[w].pc = "check" => job[w].k \in AfterCheck
  BY <1>0, Tracks
<1> USE DEF At, Ends, Errs
<1>3. CASE Enter(w)
  <2>1. job[w].pc = "enter" /\ Goto(w, First[job[w].op]) /\ UNCHANGED host
    BY <1>3, Zenon DEF Enter
  <2>2. /\ First["start"] = "test" /\ First["stop"] = "stopSvc" /\ First["stopAll"] = "stopSvc"
        /\ First["install"] = "halt" /\ First["remove"] = "remove" /\ First["switch"] = "decide"
    BY DEF First
  <2> QED BY <1>1, <1>2, <1>3, <2>1, <2>2, Names DEF Steps
<1>4. CASE TurnAway(w) \/ Raise(w) \/ Persist(w) \/ InstallEpilogue(w) \/ RemoveService(w) \/ StopLocal(w)
  <2>1. Finish(w)
    <3>1. job[w].op # "search"
      BY <1>0
    <3> QED BY <1>4, <3>1, Zenon DEF TurnAway, Raise, Persist, InstallEpilogue, RemoveService, StopLocal
  <2> QED BY <1>1, <2>1 DEF Steps
<1>5. CASE Check(w)
  <2>1. job[w].pc = "check" /\ ((RT!Valid(tok[w]) /\ Goto(w, job[w].k)) \/ Finish(w)) /\ UNCHANGED host
    BY <1>5, Zenon DEF Check
  <2>2. job[w].k \in PC
    BY <1>2, <2>1, Names DEF AfterCheck
  <2> QED BY <1>1, <1>2, <2>1, <2>2 DEF Steps
<1>6. CASE StartTest(w)
  <2>1. (Goto(w, "raise") \/ (CheckThen(w, "claim") /\ ~WinwsRunning)) /\ UNCHANGED host
    BY <1>6, Zenon DEF StartTest
  <2> QED BY <1>1, <2>1, Names DEF Steps, WinwsRunning
<1>7. CASE Claim(w)
  <2>1. job[w].pc = "claim" /\ CheckThen(w, "spawn") /\ UNCHANGED host
    BY <1>7, Zenon DEF Claim
  <2> QED BY <1>1, <2>1, Names DEF Steps
<1>8. CASE Spawn(w)
  <2>1. Finish(w) \/ Goto(w, "persist") \/ CheckThen(w, "persist")
    BY <1>8, Zenon DEF Spawn
  <2> QED BY <1>1, <2>1, Names DEF Steps
<1>9. CASE HaltLocal(w)
  <2>1. /\ job[w].pc = "halt"
        /\ \/ Finish(w)
           \/ win' = Ended(proc) /\ UNCHANGED svc /\ CheckThen(w, IF job[w].op = "install" THEN "svcOff" ELSE "spawn")
    BY <1>9, Zenon DEF HaltLocal
  <2>2. CASE job[w].op = "install"
    BY <1>1, <2>1, <2>2, Names DEF Steps
  <2>3. CASE job[w].op = "switch"
    BY <1>1, <2>1, <2>3, Names DEF Steps
  <2> QED BY <1>2, <2>1, <2>2, <2>3
<1>10. CASE Decide(w)
  <2>1. /\ job[w].pc = "decide" /\ UNCHANGED host
        /\ \/ Finish(w) \/ (desired # "service" /\ Goto(w, "halt"))
           \/ (desired = "service" /\ job[w].op = "restart")
           \/ (desired = "service" /\ CheckThen(w, "svcOff"))
    BY <1>10, Zenon DEF Decide
  <2> QED BY <1>0, <1>1, <1>2, <2>1, Names DEF Steps
<1>11. CASE SvcOff(w)
  <2>1. /\ job[w].pc = "svcOff" /\ UNCHANGED win
        /\ Finish(w) \/ CheckThen(w, IF job[w].op = "restart" THEN "svcOn" ELSE "config")
    BY <1>11, Zenon DEF SvcOff
  <2> QED BY <1>0, <1>1, <2>1, Names DEF Steps
<1>12. CASE SvcConfig(w)
  <2>1. job[w].pc = "config" /\ UNCHANGED win /\ (Finish(w) \/ CheckThen(w, "svcOn"))
    BY <1>12, Zenon DEF SvcConfig
  <2> QED BY <1>1, <2>1, Names DEF Steps
<1>13. CASE SvcOn(w)
  <2>1. \/ Finish(w) \/ CheckThen(w, "leave") \/ CheckThen(w, "persist") \/ job[w].op = "restore"
    BY <1>13, Zenon DEF SvcOn
  <2> QED BY <1>0, <1>1, <2>1, Names DEF Steps
<1>14. CASE InstallLeave(w)
  <2>1. Goto(w, "epilogue")
    BY <1>14, Zenon DEF InstallLeave
  <2> QED BY <1>1, <2>1, Names DEF Steps
<1>15. CASE StopService(w)
  <2>1. Goto(w, "stopLocal") \/ Goto(w, "stopLocalErr") \/ Finish(w)
    BY <1>15, Zenon DEF StopService
  <2> QED BY <1>1, <2>1, Names DEF Steps
<1>16. CASE QuitJoin(w) \/ QuitClose(w) \/ QuitSignal(w) \/ QuitLock(w) \/ QuitStop(w)
  <2>1. \E x \in {"q.signal", "q.resignal", "q.join", "q.reclose", "q.lock", "q.stop", "q.exit"} : Goto(w, x)
    BY <1>16, Zenon DEF QuitJoin, QuitClose, QuitSignal, QuitLock, QuitStop
  <2> QED BY <1>1, <2>1, Names DEF Steps, QuitStep
<1>17. CASE \/ SearchBegin(w) \/ SearchLook(w) \/ SearchSvcOff(w) \/ SearchContext(w) \/ SearchHalt(w) \/ SearchNext(w)
            \/ SearchSpawn(w) \/ SearchProbe(w) \/ SearchExit(w) \/ SearchLock(w) \/ SearchFinally(w)
            \/ SearchRestore(w) \/ SearchUnmark(w) \/ SearchDone(w) \/ ListsDone(w) \/ TakeToken(w) \/ Unmark(w)
  <2>1. job[w].pc \in SearchStep \cup {"download", "token", "unmark"}
    BY <1>17, Zenon DEF SearchBegin, SearchLook, SearchSvcOff, SearchContext, SearchHalt, SearchNext, SearchSpawn,
       SearchProbe, SearchExit, SearchLock, SearchFinally, SearchRestore, SearchUnmark, SearchDone, ListsDone,
       TakeToken, Unmark, SearchStep
  <2> QED BY <1>2, <2>1
<1>18. ~Exit(w)
  BY Zenon DEF Exit, Gone
<1> QED BY <1>3, <1>4, <1>5, <1>6, <1>7, <1>8, <1>9, <1>10, <1>11, <1>12, <1>13, <1>14, <1>15, <1>16, <1>17, <1>18 DEF Work

(* Only these two steps start an engine, each where the other one is known to be off. *)
LEMMA WorkLessens ==
    ASSUME BaseInv, Orderly, NEW w \in Worker, Work(w), up'
    PROVE  \/ Lessens
           \/ job[w].pc = "svcOn" /\ UNCHANGED win
           \/ job[w].pc = "spawn" /\ UNCHANGED svc
<1>0. /\ job \in [Worker -> Jobs] /\ Sound(job[w]) /\ job[w].op \notin {"search", "lists", "restart", "restore"}
      /\ HostTypeOK
  BY WorkKeepsOp DEF BaseInv, Control, Orderly, DataTypes
<1>1. UNCHANGED host => Lessens
  BY DEF host, Lessens, SvcRunning, Alive
<1>2. ASSUME UNCHANGED svc \/ SvcStops \/ svc' \in {"stopped", "absent"},
             UNCHANGED win \/ (\E p \in Pid \cup {None} : win' = Ended(p)) \/ win' = [p \in Pid |-> None]
      PROVE  Lessens
  BY <1>0, <1>2 DEF Lessens, SvcStops, SvcRunning, Ended, Alive, HostTypeOK
<1>3. proc \in Pid \cup {None} /\ trial \in Pid \cup {None} /\ None \in Pid \cup {None}
  BY <1>0 DEF HostTypeOK
<1> USE DEF At
<1>4. CASE PlaceOf(job[w].pc) \notin Holding
  BY <1>1, <1>4, HostHeld
<1>5. CASE SvcOn(w) \/ Spawn(w)
  <2>1. CASE SvcOn(w)
    BY <2>1, Zenon DEF SvcOn
  <2>2. CASE Spawn(w)
    BY <2>2, Zenon DEF Spawn, Spawned, host
  <2> QED BY <1>5, <2>1, <2>2
<1>6. CASE HaltLocal(w) \/ SvcOff(w) \/ SvcConfig(w) \/ RemoveService(w)
  <2>1. /\ UNCHANGED svc \/ SvcStops \/ svc' = "stopped" \/ svc' = "absent"
        /\ UNCHANGED win \/ win' = Ended(proc)
    BY <1>6, Zenon DEF HaltLocal, SvcOff, SvcConfig, RemoveService, host
  <2> QED BY <1>2, <1>3, <2>1
<1>7. CASE StopService(w) \/ StopLocal(w)
  <2>1. /\ UNCHANGED svc \/ SvcStops
        /\ UNCHANGED win \/ win' = Ended(trial) \/ win' = Ended(proc) \/ win' = [p \in Pid |-> None]
    BY <1>7, Zenon DEF StopService, StopLocal
  <2> QED BY <1>2, <1>3, <2>1
<1>8. CASE QuitStop(w)
  <2>1. /\ UNCHANGED svc
        /\ \/ UNCHANGED win \/ win' = Ended(trial)
           \/ win' = [win EXCEPT ![proc] = None] \/ win' = [Ended(trial) EXCEPT ![proc] = None]
    BY <1>8, Zenon DEF QuitStop
  <2>2. (\E p \in Pid \cup {None} : win' = [win EXCEPT ![p] = None] \/ win' = [Ended(trial) EXCEPT ![p] = None])
          => Lessens
    BY <1>0, <2>1 DEF Lessens, SvcRunning, Ended, Alive, HostTypeOK
  <2> QED BY <1>2, <1>3, <2>1, <2>2
<1>9. CASE \/ TakeToken(w) \/ Enter(w) \/ TurnAway(w) \/ Check(w) \/ StartTest(w) \/ Raise(w) \/ Claim(w)
           \/ Persist(w) \/ Decide(w) \/ InstallLeave(w) \/ InstallEpilogue(w) \/ ListsDone(w) \/ Unmark(w)
           \/ QuitJoin(w) \/ QuitClose(w) \/ QuitSignal(w) \/ QuitLock(w)
  <2>1. UNCHANGED host
    BY <1>9, Zenon DEF TakeToken, Enter, TurnAway, Check, StartTest, Raise, Claim, Persist, Decide, InstallLeave,
       InstallEpilogue, ListsDone, Unmark, QuitJoin, QuitClose, QuitSignal, QuitLock
  <2> QED BY <1>1, <2>1
<1>10. CASE \/ SearchBegin(w) \/ SearchLook(w) \/ SearchSvcOff(w) \/ SearchContext(w) \/ SearchHalt(w) \/ SearchNext(w)
            \/ SearchSpawn(w) \/ SearchProbe(w) \/ SearchExit(w) \/ SearchLock(w) \/ SearchFinally(w)
            \/ SearchRestore(w) \/ SearchUnmark(w) \/ SearchDone(w)
  <2>1. job[w].pc \in SearchStep
    BY <1>10, Zenon DEF SearchBegin, SearchLook, SearchSvcOff, SearchContext, SearchHalt, SearchNext,
       SearchSpawn, SearchProbe, SearchExit, SearchLock, SearchFinally, SearchRestore, SearchUnmark, SearchDone, SearchStep
  <2> QED BY <1>0, <2>1, Tracks
<1>11. ~Exit(w)
  BY Zenon DEF Exit, Gone
<1> QED BY <1>5, <1>6, <1>7, <1>8, <1>9, <1>10, <1>11 DEF Work

(* Small facts about single steps: who sets the note, who changes the mode, who ends
   the program. *)
LEMMA MarkerMoves ==
    ASSUME NEW w \in Worker, Work(w) PROVE UNCHANGED marker \/ ~marker' \/ SearchLook(w)
<1> USE DEF files
<1>1. CASE \/ TakeToken(w) \/ Enter(w) \/ TurnAway(w) \/ Check(w) \/ StartTest(w) \/ Raise(w) \/ Claim(w)
           \/ Spawn(w) \/ Persist(w) \/ HaltLocal(w) \/ Decide(w) \/ SvcOff(w) \/ SvcConfig(w) \/ SvcOn(w)
  BY <1>1, Zenon DEF TakeToken, Enter, TurnAway, Check, StartTest, Raise, Claim, Spawn, Persist, HaltLocal, Decide, SvcOff,
     SvcConfig, SvcOn
<1>2. CASE \/ InstallLeave(w) \/ InstallEpilogue(w) \/ RemoveService(w) \/ StopService(w) \/ StopLocal(w)
           \/ ListsDone(w) \/ Unmark(w) \/ SearchBegin(w) \/ SearchSvcOff(w) \/ SearchContext(w)
           \/ SearchHalt(w) \/ SearchNext(w)
  BY <1>2, Zenon DEF InstallLeave, InstallEpilogue, RemoveService, StopService, StopLocal, ListsDone, Unmark, SearchBegin,
     SearchSvcOff, SearchContext, SearchHalt, SearchNext
<1>3. CASE \/ SearchSpawn(w) \/ SearchProbe(w) \/ SearchExit(w) \/ SearchLock(w) \/ SearchFinally(w)
           \/ SearchRestore(w) \/ SearchUnmark(w) \/ SearchDone(w) \/ QuitJoin(w) \/ QuitClose(w) \/ QuitSignal(w)
           \/ QuitLock(w) \/ QuitStop(w) \/ Exit(w)
  BY <1>3, Zenon DEF SearchSpawn, SearchProbe, SearchExit, SearchLock, SearchFinally, SearchRestore,
     SearchUnmark, SearchDone, QuitJoin, QuitClose, QuitSignal, QuitLock, QuitStop, Exit, Gone
<1> QED BY <1>1, <1>2, <1>3 DEF Work

LEMMA ModeMoves ==
    ASSUME BaseInv, NEW w \in Worker, Work(w), job[w].op \notin {"search", "lists"}, desired' # desired
    PROVE  job[w].pc = "test" /\ RT!Valid(tok[w])
<1>0. Sound(job[w]) /\ job[w].op = "start" /\ RT!Valid(tok[w])
  BY WorkKeepsOp, WorkTokens DEF BaseInv, Control
<1>1. job[w].pc \in {"enter", "test", "raise", "check", "claim", "spawn", "persist"}
  BY <1>0 DEF Sound, Fits, Does, Entering, Quitting
<1> DEFINE Other == \/ Enter(w) \/ TurnAway(w) \/ Raise(w) \/ Check(w) \/ Claim(w) \/ Spawn(w) \/ Persist(w)
<1>2. Other => UNCHANGED desired
  <2>1. Other => UNCHANGED ctl \/ RT!Enter(w) \/ RT!Refuse(w) \/ RT!Drop(w) \/ RT!Leave(w)
    BY Zenon DEF Enter, TurnAway, Raise, Check, Claim, Spawn, Persist, Ends, Errs
  <2>2. RT!Enter(w) \/ RT!Refuse(w) \/ RT!Drop(w) \/ RT!Leave(w) \/ UNCHANGED ctl => UNCHANGED desired
    BY DEF RT!Enter, RT!Refuse, RT!GiveUp, RT!Drop, RT!Leave, ctl
  <2> QED BY <2>1, <2>2
<1>3. job[w].pc # "test" => Other
  <2> USE DEF At
  <2>1. CASE \/ HaltLocal(w) \/ Decide(w) \/ SvcOff(w) \/ SvcConfig(w) \/ SvcOn(w) \/ InstallLeave(w) \/ InstallEpilogue(w)
             \/ RemoveService(w) \/ StopService(w) \/ StopLocal(w) \/ ListsDone(w) \/ Unmark(w) \/ TakeToken(w)
    <3>1. job[w].pc \in {"halt", "decide", "svcOff", "config", "svcOn", "leave", "epilogue", "remove", "stopSvc", "stopLocal",
                         "stopLocalErr", "download", "unmark", "token"}
      BY <2>1, Zenon DEF HaltLocal, Decide, SvcOff, SvcConfig, SvcOn, InstallLeave, InstallEpilogue,
         RemoveService, StopService, StopLocal, ListsDone, Unmark, TakeToken
    <3> QED BY <1>1, <3>1
  <2>2. CASE \/ SearchBegin(w) \/ SearchLook(w) \/ SearchSvcOff(w) \/ SearchContext(w) \/ SearchHalt(w) \/ SearchNext(w)
             \/ SearchSpawn(w) \/ SearchProbe(w) \/ SearchExit(w) \/ SearchLock(w) \/ SearchFinally(w)
             \/ SearchRestore(w) \/ SearchUnmark(w) \/ SearchDone(w)
    <3>1. job[w].pc \in SearchStep
      BY <2>2, Zenon DEF SearchBegin, SearchLook, SearchSvcOff, SearchContext, SearchHalt, SearchNext, SearchSpawn,
         SearchProbe, SearchExit, SearchLock, SearchFinally, SearchRestore, SearchUnmark, SearchDone, SearchStep
    <3> QED BY <1>1, <3>1 DEF SearchStep
  <2>3. CASE QuitJoin(w) \/ QuitClose(w) \/ QuitSignal(w) \/ QuitLock(w) \/ QuitStop(w) \/ Exit(w)
    <3>1. job[w].pc \in QuitStep
      BY <2>3, Zenon DEF QuitJoin, QuitClose, QuitSignal, QuitLock, QuitStop, Exit, QuitStep
    <3> QED BY <1>1, <3>1 DEF QuitStep
  <2>4. StartTest(w) => job[w].pc = "test"
    BY DEF StartTest
  <2> QED BY <2>1, <2>2, <2>3, <2>4 DEF Work
<1> QED BY <1>0, <1>2, <1>3

(* Nobody gets a token into the transition but by a command. *)
LEMMA FewerGranted ==
    ASSUME BaseInv, Orderly, NEW w \in Worker, Work(w), up' PROVE \A v \in Worker : Granted(v)' => Granted(v)
<1>0. /\ job \in [Worker -> Jobs] /\ Sound(job[w]) /\ up /\ Guided(w) /\ (\A v \in Worker : at[v] = PlaceOf(job[v].pc))
      /\ job[w].op \notin {"search", "lists", "restart", "restore"}
  <2>1. up /\ Guided(w)
    BY WorkKeepsOp, WorkSteers DEF BaseInv, Control, DataTypes
  <2> QED BY <2>1 DEF BaseInv, Control, Orderly
<1>1. /\ \A v \in Worker \ {w} : job'[v] = job[v]
      /\ \A v \in Worker : at'[v] = PlaceOf(job'[v].pc)
  BY <1>0 DEF Guided, Alone, Control
<1>2. ASSUME Granted(w)', ~Granted(w) PROVE FALSE
  <2>1. job'[w].pc # "idle" /\ job'[w].pc \notin QuitStep
    BY <1>1, <1>2 DEF Granted, PlaceOf, Outside, QuitStep
  <2>2. job[w].pc \in QuitStep \cup {"epilogue"}
    <3>1. job[w].pc # "idle" /\ job[w].pc \notin SearchStep \cup {"token"}
      BY <1>0, Tracks, StepsOf
    <3> QED BY <1>0, <1>2, <3>1 DEF Granted, PlaceOf, Outside, SearchStep, QuitStep
  <2>3. CASE job[w].pc = "epilogue"
    <3>1. Finish(w)
      BY <2>3, StepsOf DEF InstallEpilogue
    <3> QED BY <1>0, <2>1, <3>1, Ceases DEF Becomes
  <2>4. CASE job[w].pc \in QuitStep
    <3>1. job[w].op \in Quitting
      BY <1>0, <2>4 DEF Sound, Fits, Does, Entering, AtSearch, Finally, QuitStep, Quitting
    <3>2. job'[w].op \in Quitting /\ Sound(job'[w])
      BY <1>0, <3>1, QuitterStays DEF Guided, Control
    <3> QED BY <2>1, <3>2 DEF Sound, Fits, Does, Entering, QuitStep, Quitting, AfterCheck
  <2> QED BY <2>2, <2>3, <2>4
<1> QED BY <1>0, <1>1, <1>2 DEF Granted

(* The step of a worker that has the lock, or stands before it: the others' promises
   are kept, as they have to wait or were superseded, and its own are made good. *)
LEMMA WorkEngine ==
    ASSUME BaseInv, Guarded, EngineInv, NEW w \in Worker, Work(w), up' PROVE EngineInv'
<1>0. /\ job \in [Worker -> Jobs] /\ Sound(job[w]) /\ up /\ Orderly /\ HostTypeOK /\ P!IInv /\ Guided(w)
      /\ \A v \in Worker : at[v] = PlaceOf(job[v].pc) /\ tok[v] \in 0..cur
      /\ job[w].op \notin {"search", "lists", "restart", "restore"}
  <2>1. up /\ Guided(w)
    BY WorkKeepsOp, WorkSteers DEF BaseInv, Control, DataTypes
  <2>2. \A v \in Worker : tok[v] \in 0..cur
    BY DEF BaseInv, P!IInv, P!TypeOK, P!TokenInv
  <2> QED BY <2>1, <2>2 DEF BaseInv, Control, EngineInv, Orderly, DataTypes
<1>1. /\ cur' = cur /\ (\A v \in Worker : tok'[v] = tok[v]) /\ CtlStep
      /\ \A v \in Worker \ {w} : job'[v] = job[v]
      /\ \A v \in Worker : at'[v] = PlaceOf(job'[v].pc)
      /\ desired' = desired \/ (job[w].op = "start" /\ RT!Valid(tok[w]))
  <2>1. /\ cur' = cur
        /\ desired' = desired \/ (job[w].op = "start" /\ RT!Valid(tok[w]))
        /\ \A v \in Worker : tok'[v] = tok[v]
    BY <1>0, WorkTokens
  <2>2. CtlStep
    BY WorkProtocol DEF BaseInv, P!IInv, P!TypeOK, P!Mode, RT!Mode
  <2> QED BY <1>0, <2>1, <2>2 DEF Guided, Alone, Control
<1>2. Steps(w)
  BY <1>0, WorkTracks
<1>3. \A v \in Worker : RT!Valid(tok[v])' => RT!Valid(tok[v])
  BY <1>0, <1>1, Stales DEF RT!Valid
<1>4. Orderly'
  <2>1. job[w].pc \notin {"download", "s.done", "s.look"}
    BY <1>0, Tracks DEF SearchStep
  <2>2. job'[w].op \in {job[w].op, "none"}
    BY <1>0, <2>1, WorkKeepsOp
  <2>3. ~marker'
    <3>1. UNCHANGED marker \/ ~marker' \/ SearchLook(w)
      BY MarkerMoves
    <3> QED BY <1>0, <2>1, <3>1 DEF Orderly, SearchLook, At
  <2> QED BY <1>0, <1>1, <2>2, <2>3 DEF Orderly
<1>5. \A v \in Worker : Granted(v)' => Granted(v)
  BY <1>0, FewerGranted
<1>6. Unique'
  BY <1>1, <1>5 DEF EngineInv, Unique
(* Another worker's way is guarded by the lock. *)
<1>7. ASSUME NEW v \in Worker \ {w} PROVE Side(v)'
  <2>1. CASE ~SvcPath(job[v]) /\ ~WinPath(job[v])
    BY <1>1, <2>1 DEF Side, SvcPath, WinPath, Going
  <2>2. CASE SvcPath(job[v]) \/ WinPath(job[v])
    <3>1. PlaceOf(job[v].pc) \in Holding
      BY <2>2 DEF SvcPath, WinPath, Going, PlaceOf, Outside, Holding
    <3>2. UNCHANGED host
      BY <1>0, <3>1, OneHolds, HostHeld
    <3>3. May(v)' => May(v)
      BY <1>1, <1>3 DEF May
    <3> QED BY <1>1, <3>2, <3>3 DEF EngineInv, Side, SvcPath, WinPath, Going, NoWinws, Alive, SvcRunning, host
  <2> QED BY <2>1, <2>2
<1>8. Side(w)'
  <2>0. Side(w) /\ (RT!Valid(tok[w])' => RT!Valid(tok[w])) /\ (Choosing(w) => Chosen)
    BY <1>3 DEF EngineInv
  <2> SUFFICES ASSUME May(w)' PROVE (SvcPath(job[w])' => NoWinws') /\ (WinPath(job[w])' => ~SvcRunning')
    BY DEF Side
  <2>1. CASE job'[w].pc \in {"idle", "test", "stopSvc", "remove", "raise", "persist", "leave", "epilogue", "stopLocal",
                             "stopLocalErr"} \cup QuitStep
    BY <2>1 DEF SvcPath, WinPath, Going, QuitStep
  <2>2. CASE job'[w].op = "install" /\ job'[w].pc = "halt"
    BY <2>2 DEF SvcPath, WinPath, Going
  <2>3. CASE job'[w].pc = "decide"
    BY <2>3 DEF SvcPath, WinPath, Going
  <2>4. CASE job[w].pc = "check" /\ RT!Valid(tok[w]) /\ job'[w].pc = job[w].k /\ job[w].k \in AfterCheck /\ UNCHANGED host
    BY <2>0, <2>4 DEF Side, May, SvcPath, WinPath, Going, AfterCheck, NoWinws, Alive, SvcRunning, host
  <2>5. CASE job'[w].pc = "check"
    <3>1. RT!Valid(tok[w])
      BY <2>0, <2>5 DEF May
    <3>2. CASE job'[w].k = "claim" /\ ~SvcRunning /\ UNCHANGED host
      BY <2>5, <3>2 DEF SvcPath, WinPath, Going, SvcRunning, host
    <3>3. CASE job'[w].k = "spawn" /\ job[w].pc = "claim" /\ UNCHANGED host
      BY <2>0, <2>5, <3>3 DEF Side, May, SvcPath, WinPath, Going, SvcRunning, host
    <3>4. CASE job'[w].k = "spawn" /\ job[w].op = "switch" /\ job[w].pc = "halt" /\ UNCHANGED svc
      BY <2>0, <2>5, <3>1, <3>4 DEF Side, May, SvcPath, WinPath, Going, SvcRunning
    <3>5. CASE job'[w].k = "svcOff" /\ job[w].op = "install" /\ job[w].pc = "halt" /\ win' = Ended(proc)
      <4>1. NoWinws'
        BY <1>0, <3>5, HostAssumption DEF Guarded, NoWinws, Alive, Ended, HostTypeOK
      <4> QED BY <2>5, <3>5, <4>1 DEF WinPath, Going
    <3>6. CASE job'[w].k = "svcOff" /\ job[w].op = "switch" /\ job[w].pc = "decide" /\ desired = "service" /\ UNCHANGED host
      BY <2>0, <2>5, <3>1, <3>6 DEF Choosing, Chosen, SvcPath, WinPath, Going, NoWinws, Alive, host
    <3>7. CASE job'[w].k = "config" /\ job[w].pc = "svcOff" /\ UNCHANGED win
      BY <2>0, <2>5, <3>7 DEF Side, May, SvcPath, WinPath, Going, NoWinws, Alive
    <3>8. CASE job'[w].k = "svcOn" /\ job[w].pc = "config" /\ UNCHANGED win
      BY <2>0, <2>5, <3>8 DEF Side, May, SvcPath, WinPath, Going, NoWinws, Alive
    <3>9. CASE job'[w].k \in {"persist", "leave"}
      BY <2>5, <3>9 DEF SvcPath, WinPath, Going
    <3> QED BY <1>2, <2>1, <2>2, <2>4, <2>5, <3>2, <3>3, <3>4, <3>5, <3>6, <3>7, <3>8, <3>9 DEF Steps
  <2>6. CASE /\ job[w].op = "switch" /\ job[w].pc = "decide" /\ desired # "service"
             /\ job'[w].op = "switch" /\ job'[w].pc = "halt" /\ UNCHANGED host
    BY <2>0, <2>6 DEF May, Choosing, Chosen, SvcPath, WinPath, Going, SvcRunning, host
  <2> QED BY <1>2, <2>1, <2>2, <2>3, <2>4, <2>5, <2>6 DEF Steps
(* Nobody else acts for the token of a switch that still has to decide. *)
<1>9. ASSUME NEW v \in Worker, Choosing(v)' PROVE Chosen'
  <2>1. job'[v].op = "switch" /\ job'[v].pc \in {"enter", "decide"} /\ RT!Valid(tok[v])
    BY <1>3, <1>9 DEF Choosing
  <2>2. Granted(v)' /\ Granted(v)
    BY <1>1, <1>5, <2>1 DEF Granted, PlaceOf, Outside
  <2>3. CASE v # w
    <3>1. Chosen
      BY <1>1, <2>1, <2>3 DEF EngineInv, Choosing
    <3>2. ~(Granted(w) /\ RT!Valid(tok[w]))
      BY <2>1, <2>2, <2>3 DEF EngineInv, Unique, RT!Valid
    <3>3. desired' = desired
      <4>1. job[w].pc = "test" => Granted(w)
        BY <1>0 DEF Granted, PlaceOf, Outside
      <4> QED BY <1>0, <1>1, <3>2, <4>1, ModeMoves
    <3>4. job[w].pc = "check" => ~RT!Valid(tok[w])
      BY <1>0, <3>2 DEF Granted, PlaceOf, Outside
    <3>5. job'[w].pc \notin {"spawn", "svcOn"}
      BY <1>2, <3>4 DEF Steps, QuitStep
    <3>6. Lessens \/ (job[w].pc = "svcOn" /\ UNCHANGED win) \/ (job[w].pc = "spawn" /\ UNCHANGED svc)
      BY <1>0, WorkLessens
    <3> QED BY <1>1, <3>1, <3>3, <3>5, <3>6 DEF Chosen, Lessens, NoWinws, SvcRunning, Alive
  <2>4. CASE v = w
    <3>1. Enter(w) /\ job'[w].pc = "decide" /\ UNCHANGED host
      BY <1>2, <2>1, <2>4 DEF Steps, QuitStep, AfterCheck
    <3>2. job[w].pc = "enter" /\ UNCHANGED desired
      BY <3>1 DEF Enter, At, RT!Enter
    <3>3. job[w].op = "switch"
      <4>1. job'[w].op \in {job[w].op, "none"}
        BY <1>0, <3>2, WorkKeepsOp
      <4> QED BY <2>1, <2>4, <4>1
    <3>4. Chosen
      BY <2>1, <2>4, <3>2, <3>3 DEF EngineInv, Choosing
    <3> QED BY <1>1, <3>1, <3>2, <3>4 DEF Chosen, NoWinws, SvcRunning, Alive, host
  <2> QED BY <2>3, <2>4
<1>10. OneEngine'
  <2>1. CASE Lessens
    BY <2>1 DEF EngineInv, OneEngine, Lessens
  <2>2. CASE job[w].pc = "svcOn" /\ UNCHANGED win
    BY <2>2 DEF EngineInv, OneEngine, Side, May, SvcPath, Going, NoWinws, Alive
  <2>3. CASE job[w].pc = "spawn" /\ UNCHANGED svc
    BY <2>3 DEF EngineInv, OneEngine, Side, May, WinPath, Going, SvcRunning
  <2> QED BY <1>0, <2>1, <2>2, <2>3, WorkLessens
<1> QED BY <1>4, <1>6, <1>7, <1>8, <1>9, <1>10 DEF EngineInv

(* The end of the program ends its winws, and a new instance has asked for nothing. *)
LEMMA GoneEngine == ASSUME EngineInv, Gone PROVE EngineInv'
<1>1. /\ win' = [p \in Pid |-> None] /\ job' = [w \in Worker |-> Idle] /\ UNCHANGED <<marker, at, tok>>
  BY Zenon DEF Gone, ctl, files
<1>2. \A w \in Worker : job'[w].pc = "idle" /\ job'[w].op = "none"
  BY <1>1, IdleJob DEF IsIdle
<1>3. Orderly' /\ Unique' /\ OneEngine'
  BY <1>1, <1>2 DEF EngineInv, Orderly, Unique, Granted, OneEngine, Alive
<1>4. \A w \in Worker : Side(w)' /\ ~Choosing(w)'
  BY <1>2 DEF Side, SvcPath, WinPath, Going, Choosing
<1> QED BY <1>3, <1>4 DEF EngineInv

LEMMA NextEngine ==
    ASSUME Ops \cap Unsettling = {}, BaseInv, Guarded, EngineInv, [Next]_vars PROVE EngineInv'
<1>1. ASSUME NEW w \in Worker, Handler(w) PROVE EngineInv'
  BY <1>1, HandlerEngine
<1>2. ASSUME NEW w \in Worker, Work(w), up' PROVE EngineInv'
  BY <1>2, WorkEngine
<1>3. ASSUME NEW w \in Worker, Work(w), ~up' PROVE EngineInv'
  <2>1. Exit(w)
    BY <1>3, OnlyExitEnds
  <2> QED BY <2>1, GoneEngine DEF Exit
<1>4. CASE SearchStop \/ Foreign \/ UNCHANGED vars
  <2>1. UNCHANGED <<job, ctl, marker, win, svc>>
    BY <1>4, Zenon DEF SearchStop, Foreign, vars, files, host, ctl
  <2>2. Lessens
    BY <2>1 DEF Lessens, SvcRunning, Alive
  <2> QED BY <2>1, <2>2, Eases
<1>5. CASE Die
  <2>1. UNCHANGED <<job, ctl, marker, svc>> /\ \E p \in Pid : win' = [win EXCEPT ![p] = None]
    BY <1>5, Zenon DEF Die, files
  <2>2. Lessens
    BY <2>1 DEF Lessens, SvcRunning, Alive, BaseInv, DataTypes, HostTypeOK
  <2> QED BY <2>1, <2>2, Eases
<1>6. CASE AdoptService
  <2>1. UNCHANGED <<host, job, marker>> /\ RT!Announce("service")
    BY <1>6, Zenon DEF AdoptService, files
  <2>2. CtlStep /\ cur' = cur + 1 /\ UNCHANGED <<tok, at>>
    BY <2>1, Announcing, Modes DEF CtlStep, RT!Announce, RT!Supersede
  <2>3. CASE Worker = {}
    BY <2>1, <2>3 DEF EngineInv, Orderly, Unique, OneEngine, SvcRunning, Alive, host
  <2>4. CASE Worker # {}
    <3>1. PICK w \in Worker : TRUE
      BY <2>4
    <3> QED BY <2>1, <2>2, Requested
  <2> QED BY <2>3, <2>4
<1>7. CASE Crash
  BY <1>7, GoneEngine DEF Crash
<1>8. CASE Boot
  <2>1. ~up /\ UNCHANGED <<host, job, marker>> /\ at' = [w \in Worker |-> "idle"]
    BY <1>8, Zenon DEF Boot
  <2>2. \A w \in Worker : job'[w].pc = "idle" /\ job'[w].op = "none"
    BY <2>1, IdleJob DEF BaseInv, Control, IsIdle
  <2>3. Orderly' /\ Unique' /\ OneEngine'
    BY <2>1, <2>2 DEF EngineInv, Orderly, Unique, Granted, OneEngine, SvcRunning, Alive, host
  <2>4. \A w \in Worker : Side(w)' /\ ~Choosing(w)'
    BY <2>2 DEF Side, SvcPath, WinPath, Going, Choosing
  <2> QED BY <2>3, <2>4 DEF EngineInv
<1> QED BY <1>1, <1>2, <1>3, <1>4, <1>5, <1>6, <1>7, <1>8 DEF Next

LEMMA InitEngine == Init => EngineInv
<1> SUFFICES ASSUME Init PROVE EngineInv
  OBVIOUS
<1>1. /\ win = [p \in Pid |-> None] /\ job = [w \in Worker |-> Idle] /\ marker = FALSE /\ CtlInit
  BY Zenon DEF Init
<1> HIDE DEF Init
<1>2. at = [w \in Worker |-> "idle"]
  BY <1>1 DEF CtlInit, RT!Init
<1>3. \A w \in Worker : job[w].pc = "idle" /\ job[w].op = "none"
  BY <1>1, IdleJob DEF IsIdle
<1>4. Orderly /\ Unique /\ OneEngine
  BY <1>1, <1>2, <1>3 DEF Orderly, Unique, Granted, OneEngine, Alive
<1>5. \A w \in Worker : Side(w) /\ ~Choosing(w)
  BY <1>3 DEF Side, SvcPath, WinPath, Going, Choosing
<1> QED BY <1>4, <1>5 DEF EngineInv

(* Without restarts that take over a token, searches and updates of the lists, the
   service and a winws of the program never run side by side: neither when commands
   overtake each other, nor when processes die, calls fail or the program crashes. *)
THEOREM NeverTwoEngines == Ops \cap Unsettling = {} => (Spec => []OneEngine)
<1> SUFFICES ASSUME Ops \cap Unsettling = {} PROVE Spec => []OneEngine
  OBVIOUS
<1>0. Ops \cap {"search", "fix"} = {}
  BY DEF Unsettling
<1>1. BaseInv /\ Guarded /\ [Next]_vars => Guarded'
  BY <1>0, NextGuarded
<1>2. BaseInv /\ Guarded /\ EngineInv /\ [Next]_vars => EngineInv'
  BY NextEngine
<1>3. EngineInv => OneEngine
  BY DEF EngineInv
<1> QED BY <1>1, <1>2, <1>3, InitGuarded, InitEngine, BaseHolds, PTL DEF Spec

-----------------------------------------------------------------------------
(* What the user asked to run.  The promise of a command is carried by the worker that
   has the current token until the strategy runs; from then on nobody who could touch
   an engine has that token, or gets into the transition without it. *)
RunsIt == (ProcAlive /\ win[proc] = asked) \/ (SvcRunning /\ svcRuns = asked)
Under  == {"enter", "test", "raise", "claim", "spawn", "decide", "halt", "svcOff", "config", "svcOn"}
Launching == {"start", "install", "switch"}
Carries(w) == /\ tok[w] = cur /\ job[w].op \in Launching /\ job[w].s = asked
              /\ Going(job[w]) \in Under
              /\ Going(job[w]) = "svcOn" => svcRuns = asked
              /\ job[w].op = "switch" => desired # "stopped"
Settled == /\ RunsIt
           /\ \A v \in Worker : /\ at[v] = "inside" => Going(job[v]) \in {"persist", "leave"}
                                /\ at[v] = "armed" => tok[v] # cur
(* The switch failed and nobody was told: no worker acts for the current token, and the
   bypass is still wanted. *)
Lost == silent /\ desired # "stopped" /\ \A v \in Worker : Granted(v) => tok[v] # cur
RunObeyed == up /\ asked \in Strategy /\ ~failed =>
                cur > 0 /\ (Leaving \/ Settled \/ Lost \/ \E w \in Worker : Carries(w))
RunInv == Signals /\ Parting /\ RunObeyed

(* The next step of the worker that carries the promise. *)
LEMMA CarrierSteps ==
    ASSUME BaseInv, Orderly, NEW w \in Worker, Work(w), up', ~failed', RT!Valid(tok[w]),
           job[w].op \in Launching, Going(job[w]) \in Under, job[w].op = "switch" => desired # "stopped"
    PROVE  \/ /\ job'[w].op = job[w].op /\ job'[w].s = job[w].s /\ Going(job'[w]) \in Under
              /\ Going(job'[w]) = "svcOn" =>
                    (Going(job[w]) = "svcOn" /\ UNCHANGED svcRuns) \/ svcRuns' = job[w].s
           \/ /\ job[w].pc \in {"spawn", "svcOn"} /\ job'[w].pc \in {"check", "persist"}
              /\ Going(job'[w]) \in {"persist", "leave"}
              /\ \/ ProcAlive' /\ win'[proc'] = job[w].s
                 \/ Going(job[w]) = "svcOn" /\ svc' = "running" /\ UNCHANGED svcRuns
           \/ job[w].op = "switch" /\ Errs(w)
<1> DEFINE On == /\ job'[w].op = job[w].op /\ job'[w].s = job[w].s /\ Going(job'[w]) \in Under
                 /\ Going(job'[w]) = "svcOn" =>
                       (Going(job[w]) = "svcOn" /\ UNCHANGED svcRuns) \/ svcRuns' = job[w].s
           Up == /\ job[w].pc \in {"spawn", "svcOn"} /\ job'[w].pc \in {"check", "persist"}
                 /\ Going(job'[w]) \in {"persist", "leave"}
                 /\ \/ ProcAlive' /\ win'[proc'] = job[w].s
                    \/ Going(job[w]) = "svcOn" /\ svc' = "running" /\ UNCHANGED svcRuns
<1>0. /\ job \in [Worker -> Jobs] /\ Sound(job[w]) /\ HostTypeOK /\ up
      /\ job[w].op \notin {"search", "lists", "restart", "restore", "stop", "stopAll", "remove"}
  BY WorkKeepsOp DEF BaseInv, Control, DataTypes, Orderly, Launching
<1>1. /\ \A x \in PC : Goto(w, x) => job'[w].pc = x /\ job'[w].op = job[w].op /\ job'[w].s = job[w].s
      /\ \A x \in PC : CheckThen(w, x) =>
            job'[w].pc = "check" /\ job'[w].k = x /\ job'[w].op = job[w].op /\ job'[w].s = job[w].s
  BY <1>0, Goes DEF Becomes
<1>2. /\ job[w].op \in {"start", "switch", "install"} => job[w].s \in Strategy
      /\ job[w].pc = "enter" => job[w].op \in {"start", "install", "switch"}
      /\ job[w].pc \in {"test", "raise", "claim"} => job[w].op = "start"
      /\ job[w].pc = "decide" => job[w].op = "switch"
      /\ job[w].pc = "halt" => job[w].op \in {"install", "switch"}
      /\ job[w].pc = "spawn" => job[w].op \in {"start", "switch"}
      /\ job[w].pc = "svcOn" => job[w].op \in {"install", "switch"}
      /\ job[w].pc = "check" => job[w].k \in AfterCheck
      /\ job[w].pc \in Under \cup {"check"}
  BY <1>0 DEF Sound, Fits, Does, Entering, AtSearch, Finally, Quitting, QuitStep, AfterCheck, Under, Going, Launching
<1>18. CASE Errs(w)
  <2>1. job[w].op = "switch"
    BY <1>0, <1>18 DEF Errs, Unheard, Reports
  <2> QED BY <1>18, <2>1
<1>19. SUFFICES ASSUME ~Errs(w) PROVE On \/ Up
  BY <1>18
<1> USE DEF At, Ends
<1>3. CASE Enter(w)
  <2>1. job[w].pc = "enter" /\ Goto(w, First[job[w].op])
    BY <1>3, Zenon DEF Enter
  <2>2. First["start"] = "test" /\ First["install"] = "halt" /\ First["switch"] = "decide"
    BY DEF First
  <2>3. \E x \in {"test", "halt", "decide"} : Goto(w, x)
    BY <1>2, <2>1, <2>2
  <2>4. On
    BY <1>1, <2>3, Names DEF Going, Under
  <2> QED BY <2>4
<1>4. ~TurnAway(w)
  BY Zenon DEF TurnAway, RT!Refuse, RT!GiveUp
<1>5. CASE Check(w)
  <2>1. job[w].pc = "check" /\ Goto(w, job[w].k) /\ UNCHANGED svcRuns
    BY <1>5, Zenon DEF Check, host
  <2>2. job[w].k \in PC /\ job[w].k # "check"
    BY <1>2, <2>1, Names DEF AfterCheck
  <2>3. On
    BY <1>1, <2>1, <2>2 DEF Going
  <2> QED BY <2>3
<1>6. CASE StartTest(w)
  <2>1. Goto(w, "raise") \/ CheckThen(w, "claim")
    BY <1>6, <1>19, Zenon DEF StartTest
  <2>2. On
    BY <1>1, <2>1, Names DEF Going, Under
  <2> QED BY <2>2
<1>7. CASE Claim(w)
  <2>1. CheckThen(w, "spawn")
    BY <1>7, <1>19, Zenon DEF Claim
  <2>2. On
    BY <1>1, <2>1, Names DEF Going, Under
  <2> QED BY <2>2
<1>8. CASE Spawn(w)
  <2>1. job[w].pc = "spawn" /\ Spawned(job[w].s, job[w].s) /\ (Goto(w, "persist") \/ CheckThen(w, "persist"))
    <3>1. job[w].op # "restart"
      BY <1>0
    <3> QED BY <1>8, <1>19, <3>1, Zenon DEF Spawn
  <2>2. ProcAlive' /\ win'[proc'] = job[w].s
    <3>1. Fresh # {} /\ win' = [win EXCEPT ![NewPid] = job[w].s] /\ proc' = NewPid
      BY <2>1 DEF Spawned
    <3>2. NewPid \in Pid
      BY <3>1, NewPidIsFresh
    <3>3. win'[NewPid] = job[w].s /\ NewPid # None /\ job[w].s # None
      BY <1>0, <1>2, <2>1, <3>1, <3>2, HostAssumption DEF HostTypeOK, Launching
    <3> QED BY <3>1, <3>3 DEF ProcAlive, Alive
  <2>3. Up
    BY <1>1, <2>1, <2>2, Names DEF Going
  <2> QED BY <2>3
<1>9. CASE HaltLocal(w)
  <2>1. job[w].pc = "halt" /\ CheckThen(w, IF job[w].op = "install" THEN "svcOff" ELSE "spawn")
    BY <1>9, <1>19, Zenon DEF HaltLocal
  <2>2. CheckThen(w, "svcOff") \/ CheckThen(w, "spawn")
    BY <2>1
  <2>3. On
    BY <1>1, <2>2, Names DEF Going, Under
  <2> QED BY <2>3
<1>10. CASE Decide(w)
  <2>1. Goto(w, "halt") \/ CheckThen(w, "svcOff")
    <3>1. job[w].op # "restart"
      BY <1>0
    <3> QED BY <1>10, <1>19, <3>1, Zenon DEF Decide
  <2>2. On
    BY <1>1, <2>1, Names DEF Going, Under
  <2> QED BY <2>2
<1>11. CASE SvcOff(w)
  <2>1. CheckThen(w, "config")
    <3>1. job[w].op # "restart"
      BY <1>0
    <3>2. CheckThen(w, IF job[w].op = "restart" THEN "svcOn" ELSE "config")
      BY <1>11, <1>19, Zenon DEF SvcOff
    <3> QED BY <3>1, <3>2
  <2>2. On
    BY <1>1, <2>1, Names DEF Going, Under
  <2> QED BY <2>2
<1>12. CASE SvcConfig(w)
  <2>1. CheckThen(w, "svcOn") /\ svcRuns' = job[w].s
    BY <1>12, <1>19, Zenon DEF SvcConfig
  <2>2. On
    BY <1>1, <2>1, Names DEF Going, Under
  <2> QED BY <2>2
<1>13. CASE SvcOn(w)
  <2>1. /\ job[w].pc = "svcOn" /\ svc' = "running" /\ UNCHANGED svcRuns
        /\ CheckThen(w, "leave") \/ CheckThen(w, "persist")
    <3>1. job[w].op # "restart" /\ job[w].op # "restore"
      BY <1>0
    <3> QED BY <1>13, <1>19, <3>1, Zenon DEF SvcOn, SvcStarts
  <2>2. Up
    BY <1>1, <2>1, Names DEF Going
  <2> QED BY <2>2
<1>14. CASE \/ TakeToken(w) \/ Persist(w) \/ InstallLeave(w) \/ InstallEpilogue(w) \/ RemoveService(w) \/ StopService(w)
            \/ StopLocal(w) \/ ListsDone(w) \/ Unmark(w)
  <2>1. job[w].pc \in {"token", "persist", "leave", "epilogue", "remove", "stopSvc", "stopLocal", "stopLocalErr",
                       "download", "unmark"}
    BY <1>14, Zenon DEF TakeToken, Persist, InstallLeave, InstallEpilogue, RemoveService, StopService, StopLocal,
       ListsDone, Unmark
  <2> QED BY <1>2, <2>1 DEF Under
<1>15. CASE \/ SearchBegin(w) \/ SearchLook(w) \/ SearchSvcOff(w) \/ SearchContext(w) \/ SearchHalt(w) \/ SearchNext(w)
            \/ SearchSpawn(w) \/ SearchProbe(w) \/ SearchExit(w) \/ SearchLock(w) \/ SearchFinally(w)
            \/ SearchRestore(w) \/ SearchUnmark(w) \/ SearchDone(w)
  <2>1. job[w].pc \in SearchStep
    BY <1>15, Zenon DEF SearchBegin, SearchLook, SearchSvcOff, SearchContext, SearchHalt, SearchNext,
       SearchSpawn, SearchProbe, SearchExit, SearchLock, SearchFinally, SearchRestore, SearchUnmark, SearchDone, SearchStep
  <2> QED BY <1>2, <2>1 DEF Under, SearchStep
<1>16. CASE QuitJoin(w) \/ QuitClose(w) \/ QuitSignal(w) \/ QuitLock(w) \/ QuitStop(w) \/ Exit(w)
  <2>1. job[w].pc \in QuitStep
    BY <1>16, Zenon DEF QuitJoin, QuitClose, QuitSignal, QuitLock, QuitStop, Exit, QuitStep
  <2> QED BY <1>2, <2>1 DEF Under, QuitStep
<1>17. ~Raise(w)
  BY <1>19, Zenon DEF Raise
<1> HIDE DEF On, Up
<1> QED BY <1>3, <1>4, <1>5, <1>6, <1>7, <1>8, <1>9, <1>10, <1>11, <1>12, <1>13, <1>14, <1>15, <1>16, <1>17 DEF Work

(* Nobody acts for the current token after a silent failure, so that nothing changes. *)
LEMMA LostStays ==
    ASSUME BaseInv, Orderly, NEW w \in Worker, Work(w), up', Lost PROVE Lost'
<1>0. /\ Sound(job[w]) /\ at[w] = PlaceOf(job[w].pc)
      /\ job[w].op \notin {"search", "lists", "restart", "restore"}
  BY WorkKeepsOp DEF BaseInv, Control, Orderly
<1>1. silent'
  BY SilenceStays DEF Lost
<1>2. /\ cur' = cur /\ \A v \in Worker : tok'[v] = tok[v]
  BY <1>0, WorkTokens
<1>3. desired' = desired
  <2>1. job[w].pc = "test" => Granted(w)
    BY <1>0 DEF Granted, PlaceOf, Outside
  <2>2. ~(Granted(w) /\ RT!Valid(tok[w]))
    BY DEF Lost, RT!Valid
  <2> QED BY <1>0, <2>1, <2>2, ModeMoves
<1>4. \A v \in Worker : Granted(v)' => Granted(v)
  BY FewerGranted
<1> QED BY <1>1, <1>2, <1>3, <1>4 DEF Lost

(* The steps after the strategy runs. *)
LEMMA LaterSteps ==
    ASSUME NEW w \in Worker, Work(w), job[w].pc \in {"check", "persist", "leave"}
    PROVE  Check(w) \/ Persist(w) \/ InstallLeave(w)
<1> USE DEF At
<1>1. CASE \/ TakeToken(w) \/ Enter(w) \/ TurnAway(w) \/ StartTest(w) \/ Raise(w) \/ Claim(w) \/ Spawn(w) \/ HaltLocal(w)
           \/ Decide(w) \/ SvcOff(w) \/ SvcConfig(w) \/ SvcOn(w) \/ InstallEpilogue(w) \/ RemoveService(w)
           \/ StopService(w) \/ StopLocal(w) \/ ListsDone(w) \/ Unmark(w)
  <2>1. job[w].pc \in {"token", "enter", "test", "raise", "claim", "spawn", "halt", "decide", "svcOff", "config", "svcOn",
                       "epilogue", "remove", "stopSvc", "stopLocal", "stopLocalErr", "download", "unmark"}
    BY <1>1, Zenon DEF TakeToken, Enter, TurnAway, StartTest, Raise, Claim, Spawn, HaltLocal, Decide, SvcOff, SvcConfig,
       SvcOn, InstallEpilogue, RemoveService, StopService, StopLocal, ListsDone, Unmark
  <2> QED BY <2>1
<1>2. CASE \/ SearchBegin(w) \/ SearchLook(w) \/ SearchSvcOff(w) \/ SearchContext(w) \/ SearchHalt(w) \/ SearchNext(w)
           \/ SearchSpawn(w) \/ SearchProbe(w) \/ SearchExit(w) \/ SearchLock(w) \/ SearchFinally(w)
           \/ SearchRestore(w) \/ SearchUnmark(w) \/ SearchDone(w)
  <2>1. job[w].pc \in SearchStep
    BY <1>2, Zenon DEF SearchBegin, SearchLook, SearchSvcOff, SearchContext, SearchHalt, SearchNext,
       SearchSpawn, SearchProbe, SearchExit, SearchLock, SearchFinally, SearchRestore, SearchUnmark, SearchDone, SearchStep
  <2> QED BY <2>1 DEF SearchStep
<1>3. CASE QuitJoin(w) \/ QuitClose(w) \/ QuitSignal(w) \/ QuitLock(w) \/ QuitStop(w) \/ Exit(w)
  <2>1. job[w].pc \in QuitStep
    BY <1>3, Zenon DEF QuitJoin, QuitClose, QuitSignal, QuitLock, QuitStop, Exit, QuitStep
  <2> QED BY <2>1 DEF QuitStep
<1> QED BY <1>1, <1>2, <1>3 DEF Work

(* Where nobody acts for the current token, the others only go away. *)
LEMMA SettledStays ==
    ASSUME BaseInv, Orderly, NEW w \in Worker, Work(w), up', ~failed', Settled, ~Leaving PROVE Settled'
<1>0. /\ job \in [Worker -> Jobs] /\ Sound(job[w]) /\ up /\ Guided(w) /\ asked' = asked
      /\ \A v \in Worker : at[v] = PlaceOf(job[v].pc)
      /\ job[w].op \notin {"search", "lists", "restart", "restore"} /\ job[w].op \notin Quitting
  <2>1. up /\ Guided(w) /\ asked' = asked
    BY WorkKeepsOp, WorkSteers DEF BaseInv, Control, DataTypes
  <2> QED BY <2>1 DEF BaseInv, Control, Orderly, Leaving
<1>1. /\ cur' = cur /\ \A v \in Worker : tok'[v] = tok[v]
  BY <1>0, WorkTokens
<1>2. /\ \A v \in Worker \ {w} : job'[v] = job[v]
      /\ \A v \in Worker : at'[v] = PlaceOf(job'[v].pc)
  BY <1>0 DEF Guided, Alone, Control
<1>3. UNCHANGED host => RunsIt'
  BY <1>0 DEF Settled, RunsIt, ProcAlive, Alive, SvcRunning, host
<1>4. ASSUME UNCHANGED host, job'[w].pc \in {"idle", "epilogue", "persist", "leave"} PROVE Settled'
  <2>1. ASSUME NEW v \in Worker
        PROVE  (at'[v] = "inside" => Going(job'[v]) \in {"persist", "leave"}) /\ (at'[v] = "armed" => tok'[v] # cur')
    <3>1. CASE v = w
      BY <1>2, <1>4, <3>1 DEF PlaceOf, Outside, Going
    <3>2. CASE v # w
      BY <1>0, <1>1, <1>2, <3>2 DEF Settled
    <3> QED BY <3>1, <3>2
  <2> QED BY <1>3, <1>4, <2>1 DEF Settled
<1>5. Finish(w) => job'[w].pc = "idle"
  BY <1>0, Ceases DEF Becomes
<1>6. \A x \in {"persist", "leave", "epilogue"} : Goto(w, x) => job'[w].pc = x
  BY <1>0, Goes, Names DEF Becomes
<1>7. CASE at[w] = "inside"
  <2>1. Going(job[w]) \in {"persist", "leave"} /\ job[w].pc \in {"check", "persist", "leave"}
    BY <1>7 DEF Settled, Going
  <2>2. Check(w) \/ Persist(w) \/ InstallLeave(w)
    BY <2>1, LaterSteps
  <2>3. /\ UNCHANGED host
        /\ Finish(w) \/ (job[w].pc = "check" /\ Goto(w, job[w].k)) \/ Goto(w, "epilogue")
    BY <2>2, Zenon DEF Check, Persist, InstallLeave, Ends, At
  <2> QED BY <1>4, <1>5, <1>6, <2>1, <2>3 DEF Going
<1>8. CASE at[w] # "inside"
  <2>1. job[w].pc \in {"enter", "epilogue"}
    <3>1. job[w].pc # "idle" /\ job[w].pc \notin SearchStep \cup {"token", "download"} \cup QuitStep
      <4>1. job[w].pc \notin QuitStep
        BY <1>0 DEF Sound, Fits, Does, Entering, AtSearch, Finally, QuitStep, Quitting, AfterCheck
      <4> QED BY <1>0, <4>1, Tracks, StepsOf
    <3> QED BY <1>0, <1>8, <3>1 DEF PlaceOf, Outside, SearchStep, QuitStep
  <2>2. PlaceOf(job[w].pc) \notin Holding
    BY <2>1 DEF PlaceOf, Outside, Holding
  <2>3. UNCHANGED host
    BY <1>0, <2>2, HostHeld
  <2>4. CASE job[w].pc = "enter"
    <3>1. at[w] = "armed" /\ tok[w] # cur
      BY <1>0, <2>4 DEF Settled, PlaceOf, Outside
    <3>2. ~Enter(w)
      BY <3>1 DEF Enter, RT!Enter, RT!Valid
    <3>3. TurnAway(w) /\ job[w].op # "search"
      BY <1>0, <2>4, <3>2, StepsOf
    <3>4. Finish(w)
      BY <3>3, Zenon DEF TurnAway
    <3> QED BY <1>4, <1>5, <2>3, <3>4
  <2>5. CASE job[w].pc = "epilogue"
    <3>1. Finish(w)
      BY <2>5, StepsOf DEF InstallEpilogue
    <3> QED BY <1>4, <1>5, <2>3, <3>1
  <2> QED BY <2>1, <2>4, <2>5
<1> QED BY <1>7, <1>8

LEMMA WorkRun ==
    ASSUME BaseInv, Orderly, Unique, RunInv, NEW w \in Worker, Work(w), up' PROVE RunObeyed'
<1> SUFFICES ASSUME asked' \in Strategy, ~failed' PROVE cur' > 0 /\ (Leaving \/ Settled \/ Lost \/ \E v \in Worker : Carries(v))'
  BY DEF RunObeyed
<1>0. /\ job \in [Worker -> Jobs] /\ Sound(job[w]) /\ up /\ Guided(w) /\ asked' = asked /\ ~failed
      /\ \A v \in Worker : at[v] = PlaceOf(job[v].pc)
      /\ job[w].op \notin {"search", "lists", "restart", "restore"}
  <2>1. up /\ Guided(w) /\ asked' = asked
    BY WorkKeepsOp, WorkSteers DEF BaseInv, Control, DataTypes
  <2>2. ~failed
    BY FailuresStay
  <2> QED BY <2>1, <2>2 DEF BaseInv, Control, Orderly
<1>1. /\ cur' = cur /\ \A v \in Worker : tok'[v] = tok[v]
  BY <1>0, WorkTokens
<1>2. /\ \A v \in Worker \ {w} : job'[v] = job[v]
      /\ \A v \in Worker : at'[v] = PlaceOf(job'[v].pc)
  BY <1>0 DEF Guided, Alone, Control
<1>3. cur' > 0 /\ (Leaving \/ Settled \/ Lost \/ \E v \in Worker : Carries(v))
  BY <1>0, <1>1 DEF RunInv, RunObeyed
<1>4. CASE Leaving
  BY <1>0, <1>3, <1>4, LeavingStays DEF Next
<1>5. CASE Settled /\ ~Leaving
  BY <1>0, <1>3, <1>5, SettledStays
<1>6. ASSUME ~Leaving, NEW v \in Worker, Carries(v) PROVE (Settled \/ Lost \/ \E u \in Worker : Carries(u))'
  <2>1. job[v].pc \in Under \cup {"check"}
    BY <1>6 DEF Carries, Going
  <2>2. Granted(v)
    BY <1>0, <2>1 DEF Granted, Under, PlaceOf, Outside
  <2>3. RT!Valid(tok[v])
    BY <1>0, <1>6 DEF Carries, RunInv, Signals, Parting, RT!Valid
  <2>4. CASE v # w
    <3>1. UNCHANGED desired
      <4>1. job[w].pc = "test" => Granted(w)
        BY <1>0 DEF Granted, PlaceOf, Outside
      <4>2. ~(Granted(w) /\ RT!Valid(tok[w]))
        BY <1>6, <2>2, <2>4 DEF Unique, RT!Valid, Carries
      <4> QED BY <1>0, <4>1, <4>2, ModeMoves
    <3>2. Going(job[v]) = "svcOn" => UNCHANGED svcRuns
      <4>1. Going(job[v]) = "svcOn" => PlaceOf(job[v].pc) \in Holding
        BY DEF Going, PlaceOf, Outside, Holding
      <4> QED BY <1>0, <2>4, <4>1, OneHolds, HostHeld DEF host
    <3>3. Carries(v)'
      BY <1>0, <1>1, <1>2, <1>6, <2>4, <3>1, <3>2 DEF Carries, Going
    <3> QED BY <3>3
  <2>5. CASE v = w
    <3>1. \/ /\ job'[w].op = job[w].op /\ job'[w].s = job[w].s /\ Going(job'[w]) \in Under
             /\ Going(job'[w]) = "svcOn" => (Going(job[w]) = "svcOn" /\ UNCHANGED svcRuns) \/ svcRuns' = job[w].s
          \/ /\ job[w].pc \in {"spawn", "svcOn"} /\ job'[w].pc \in {"check", "persist"}
             /\ Going(job'[w]) \in {"persist", "leave"}
             /\ \/ ProcAlive' /\ win'[proc'] = job[w].s
                \/ Going(job[w]) = "svcOn" /\ svc' = "running" /\ UNCHANGED svcRuns
          \/ job[w].op = "switch" /\ Errs(w)
      BY <1>6, <2>3, <2>5, CarrierSteps DEF Carries
    <3>2. CASE /\ job'[w].op = job[w].op /\ job'[w].s = job[w].s /\ Going(job'[w]) \in Under
               /\ Going(job'[w]) = "svcOn" => (Going(job[w]) = "svcOn" /\ UNCHANGED svcRuns) \/ svcRuns' = job[w].s
      <4>1. job[w].op = "switch" => UNCHANGED desired
        BY <1>0, WorkTokens
      <4>2. Carries(w)'
        BY <1>0, <1>1, <1>6, <2>5, <3>2, <4>1 DEF Carries, Going
      <4> QED BY <4>2
    <3>3. CASE /\ job[w].pc \in {"spawn", "svcOn"} /\ job'[w].pc \in {"check", "persist"}
               /\ Going(job'[w]) \in {"persist", "leave"}
               /\ \/ ProcAlive' /\ win'[proc'] = job[w].s
                  \/ Going(job[w]) = "svcOn" /\ svc' = "running" /\ UNCHANGED svcRuns
      <4>1. RunsIt'
        BY <1>0, <1>6, <2>5, <3>3 DEF Carries, RunsIt, SvcRunning
      <4>2. PlaceOf(job[w].pc) \in Holding
        BY <3>3 DEF PlaceOf, Outside, Holding
      <4>3. ASSUME NEW u \in Worker
            PROVE  (at'[u] = "inside" => Going(job'[u]) \in {"persist", "leave"}) /\ (at'[u] = "armed" => tok'[u] # cur')
        <5>1. CASE u = w
          BY <1>2, <3>3, <5>1 DEF PlaceOf, Outside
        <5>2. CASE u # w
          <6>1. at'[u] = at[u] /\ at[u] = PlaceOf(job[u].pc) /\ job'[u] = job[u]
            BY <1>0, <1>2, <5>2
          <6>2. at[u] # "inside"
            BY <1>0, <4>2, <5>2, <6>1, OneHolds DEF Holding
          <6>3. at[u] = "armed" => tok[u] # cur
            BY <1>6, <2>2, <2>5, <5>2 DEF Unique, Granted, Carries
          <6> QED BY <1>1, <6>1, <6>2, <6>3
        <5> QED BY <5>1, <5>2
      <4>4. Settled'
        BY <4>1, <4>3 DEF Settled
      <4> QED BY <4>4
    <3>4. CASE job[w].op = "switch" /\ Errs(w)
      <4>1. Finish(w) /\ silent'
        <5>1. ~Reports
          BY DEF Reports
        <5>2. Vanishes(w)
          BY <3>4, <5>1, Zenon DEF Errs
        <5> QED BY <2>3, <2>5, <3>4, <5>2 DEF Errs, Vanishes
      <4>2. desired' # "stopped"
        BY <1>0, <1>6, <2>5, <3>4, WorkTokens DEF Carries
      <4>3. ~Granted(w)'
        <5>1. job'[w].pc = "idle"
          BY <1>0, <4>1, Ceases DEF Becomes
        <5> QED BY <1>2, <5>1 DEF Granted, PlaceOf, Outside
      <4>4. ASSUME NEW u \in Worker, Granted(u)' PROVE tok'[u] # cur'
        <5>1. u # w /\ Granted(u)
          BY <4>3, <4>4, FewerGranted
        <5> QED BY <1>1, <1>6, <2>2, <2>5, <5>1 DEF Unique, Carries
      <4> QED BY <4>1, <4>2, <4>4 DEF Lost
    <3> QED BY <3>1, <3>2, <3>3, <3>4
  <2> QED BY <2>4, <2>5
<1>7. Lost => Lost'
  BY LostStays
<1> QED BY <1>3, <1>4, <1>5, <1>6, <1>7

(* A new command takes over the promise; an exit ends it. *)
LEMMA HandlerRun ==
    ASSUME Ops \cap Unsettling = {}, BaseInv, Orderly, RunInv, NEW w \in Worker, Handler(w) PROVE RunObeyed'
<1> USE DEF Click, UIFree, Unsettling
<1>0. /\ job \in [Worker -> Jobs] /\ cur \in Nat /\ up /\ up'
      /\ tok \in [Worker -> 0..MaxToken]
      /\ ui.resume \in Strategy \cup {None} /\ None \in Strategy \cup {None} /\ ~marker
      /\ name \in Strategy \cup {None} /\ None \notin Strategy /\ "stop" \notin Strategy
  <2>1. up /\ up'
    BY HandlerOpens
  <2>2. cur \in Nat /\ tok \in [Worker -> 0..MaxToken]
    BY ControllerAssumption DEF BaseInv, P!IInv, P!TypeOK
  <2>3. /\ job \in [Worker -> Jobs] /\ ui.resume \in Strategy \cup {None} /\ ~marker /\ name \in Strategy \cup {None}
    BY DEF BaseInv, Control, DataTypes, UITypes, Orderly
  <2> QED BY <2>1, <2>2, <2>3, HostAssumption, CommandAssumption
<1>1. ASSUME NEW op \in Launching, NEW s \in Strategy, NEW d \in {"manual", "service"},
             RT!Request(w, d), Begin(w, op, "enter", s), asked' = s
      PROVE  RunObeyed'
  <2>1. Becomes(w, op, "enter", "", s, 0)
    <3>1. op \in Operation
      BY Names DEF Launching
    <3> QED BY <1>0, <1>1, <3>1, Begins, Names
  <2>2. tok'[w] = cur' /\ cur' > 0 /\ desired' # "stopped"
    BY <1>0, <1>1 DEF RT!Request, RT!Supersede
  <2>3. Carries(w)'
    BY <1>1, <2>1, <2>2 DEF Carries, Becomes, Going, Under
  <2> QED BY <2>2, <2>3 DEF RunObeyed
<1>2. ASSUME NEW s \in Strategy, Start(w, s) \/ Install(w, s) \/ RestoreLast(w, s) PROVE RunObeyed'
  <2>1. CASE Start(w, s)
    <3>1. RT!Request(w, "manual") /\ Begin(w, "start", "enter", s) /\ asked' = s
      BY <2>1, Zenon DEF Start, StartWith, Asks
    <3> QED BY <1>1, <3>1 DEF Launching
  <2>2. CASE Install(w, s)
    <3>1. RT!Request(w, "service") /\ Begin(w, "install", "enter", s) /\ asked' = s
      BY <2>2, Zenon DEF Install, Asks
    <3> QED BY <1>1, <3>1 DEF Launching
  <2>3. CASE RestoreLast(w, s)
    <3>1. RT!Request(w, IF SvcRunning THEN "service" ELSE "manual") /\ Begin(w, "switch", "enter", s) /\ asked' = s
      BY <2>3, Zenon DEF RestoreLast, Asks
    <3>2. (IF SvcRunning THEN "service" ELSE "manual") \in {"manual", "service"}
      OBVIOUS
    <3> QED BY <1>1, <3>1, <3>2 DEF Launching
  <2> QED BY <1>2, <2>1, <2>2, <2>3
<1>3. ASSUME NEW op \in {"stop", "stopAll"}, Stop(w, op) PROVE RunObeyed'
  <2>1. asked' = "stop"
    BY <1>3, Zenon DEF Stop, Asks
  <2> QED BY <1>0, <2>1 DEF RunObeyed
<1>4. CASE Remove(w)
  <2>1. asked' = None
    BY <1>4, Zenon DEF Remove, Asks
  <2> QED BY <1>0, <2>1 DEF RunObeyed
<1>5. CASE StartupResume(w)
  <2>1. ui.resume # None /\ RT!Request(w, "manual") /\ Begin(w, "start", "enter", ui.resume) /\ asked' = ui.resume
    BY <1>5, Zenon DEF StartupResume, StartWith, Asks
  <2> QED BY <1>0, <1>1, <2>1 DEF Launching
<1>6. ~(DiagRestart(w) \/ Toggle(w) \/ Lists(w) \/ Search(w) \/ SimpleFix(w) \/ StartupRestore(w))
  BY <1>0 DEF DiagRestart, Toggle, Lists, Search, SimpleFix, StartupRestore
<1>7. ASSUME NEW op \in Quitting, job'[w].op = op, asked' = "stop" \/ UNCHANGED <<asked, failed, cur>> PROVE RunObeyed'
  BY <1>0, <1>7 DEF RunInv, RunObeyed, Leaving
<1>8. ASSUME NEW b \in BOOLEAN, Quit(w, b) PROVE RunObeyed'
  <2>1. asked' = "stop" \/ UNCHANGED <<asked, failed, cur>>
    BY <1>8, Zenon DEF Quit, Asks, ctl, past
  <2>2. PICK op \in {"quit", "quitStop"}, pc \in {"q.join", "q.close"} :
           job' = [job EXCEPT ![w] = [Idle EXCEPT !.op = op, !.pc = pc, !.t = cur]]
    BY <1>8, Zenon DEF Quit
  <2>3. op \in Operation /\ pc \in PC /\ op \in Quitting /\ cur \in 0..MaxToken
    BY <2>2, Names DEF Quitting, BaseInv, P!IInv, P!TypeOK
  <2>4. Becomes(w, op, pc, "", Idle.s, 0)
    BY <1>0, <2>2, <2>3, Begins, Zenon
  <2> QED BY <1>7, <2>1, <2>3, <2>4 DEF Becomes
<1>9. CASE QuitForUpdate(w)
  <2>1. Begin(w, "update", "q.close", IF ProcAlive THEN name ELSE None) /\ UNCHANGED <<asked, failed, cur>>
    BY <1>9, Zenon DEF QuitForUpdate, past, ctl
  <2>2. (IF ProcAlive THEN name ELSE None) \in Strategy \cup {None}
    BY <1>0
  <2>3. Becomes(w, "update", "q.close", "", IF ProcAlive THEN name ELSE None, 0)
    BY <1>0, <2>1, <2>2, Begins, Names, Zenon
  <2>4. "update" \in Quitting
    BY DEF Quitting
  <2> QED BY <1>7, <2>1, <2>3, <2>4 DEF Becomes
<1> QED BY <1>2, <1>3, <1>4, <1>5, <1>6, <1>8, <1>9 DEF Handler

LEMMA NextRun ==
    ASSUME Ops \cap (Unsettling \cup {"die"}) = {}, BaseInv, EngineInv, RunInv, [Next]_vars PROVE RunInv'
<1>0. Orderly /\ Unique /\ Ops \cap Unsettling = {} /\ "die" \notin Ops
  BY DEF EngineInv
<1>1. Signals' /\ Parting'
  BY NextSignals DEF RunInv
<1>2. ASSUME NEW w \in Worker, Handler(w) PROVE RunObeyed'
  BY <1>0, <1>2, HandlerRun
<1>3. ASSUME NEW w \in Worker, Work(w), up' PROVE RunObeyed'
  BY <1>0, <1>3, WorkRun
<1>4. ASSUME ~up' PROVE RunObeyed'
  BY <1>4 DEF RunObeyed
<1>5. ASSUME SearchStop \/ Foreign \/ UNCHANGED vars PROVE RunObeyed'
  <2>1. UNCHANGED <<job, ctl, win, proc, svc, svcRuns, up, asked, failed, silent>>
    BY <1>5, Zenon DEF SearchStop, Foreign, vars, host, past
  <2> QED BY <2>1 DEF RunInv, RunObeyed, Leaving, Settled, Lost, Granted, Carries, RunsIt, ProcAlive, Alive, SvcRunning,
                      Going, ctl
<1>6. ASSUME AdoptService PROVE RunObeyed'
  <2>1. cur = 0 /\ UNCHANGED <<up, asked, failed>>
    BY <1>6, Zenon DEF AdoptService, past
  <2> QED BY <2>1 DEF RunInv, RunObeyed
<1>7. Crash => ~up'
  BY Zenon DEF Crash, Gone
<1>8. ASSUME Boot PROVE RunObeyed'
  <2>1. asked' = None
    BY <1>8, Zenon DEF Boot
  <2> QED BY <2>1, HostAssumption DEF RunObeyed
<1>9. ~Die
  BY <1>0 DEF Die
<1>10. RunObeyed'
  BY <1>2, <1>3, <1>4, <1>5, <1>6, <1>7, <1>8, <1>9 DEF Next
<1> QED BY <1>1, <1>10 DEF RunInv

LEMMA RunHonours == BaseInv /\ RunInv => RunIsHonoured
<1> SUFFICES ASSUME BaseInv, RunInv, Quiet, asked \in Strategy, ~failed PROVE RunsIt \/ (silent /\ desired # "stopped")
  BY DEF RunIsHonoured, RunsIt
<1>1. up /\ \A w \in Worker : job[w].pc = "idle" /\ Sound(job[w])
  BY DEF Quiet, BaseInv, Control
<1>2. ~Leaving
  BY <1>1 DEF Leaving, Sound, Fits, Does, Quitting, Entering, QuitStep
<1>3. \A w \in Worker : ~Carries(w)
  BY <1>1 DEF Carries, Going, Under
<1> QED BY <1>1, <1>2, <1>3 DEF RunInv, RunObeyed, Settled, Lost

(* The last command to run a strategy is obeyed, whatever was clicked before it and
   however the workers interleave, unless an error is shown: without restarts, searches
   and updates of the lists, which supersede a command, and as long as what was started
   does not die. *)
THEOREM RunsAreObeyed == Ops \cap (Unsettling \cup {"die"}) = {} => (Spec => []RunIsHonoured)
<1> SUFFICES ASSUME Ops \cap (Unsettling \cup {"die"}) = {} PROVE Spec => []RunIsHonoured
  OBVIOUS
<1>0. Ops \cap {"search", "fix"} = {} /\ Ops \cap Unsettling = {}
  BY DEF Unsettling
<1>1. BaseInv /\ Guarded /\ [Next]_vars => Guarded'
  BY <1>0, NextGuarded
<1>2. BaseInv /\ Guarded /\ EngineInv /\ [Next]_vars => EngineInv'
  BY <1>0, NextEngine
<1>3. BaseInv /\ EngineInv /\ RunInv /\ [Next]_vars => RunInv'
  BY NextRun
<1>4. Init => RunInv
  <2> SUFFICES ASSUME Init PROVE RunInv
    OBVIOUS
  <2>1. asked = None /\ CtlInit
    BY Zenon DEF Init
  <2> HIDE DEF Init
  <2> QED BY <2>1, HostAssumption DEF CtlInit, RT!Init, RunInv, Signals, Parting, RunObeyed
<1> QED BY <1>1, <1>2, <1>3, <1>4, InitGuarded, InitEngine, BaseHolds, RunHonours, PTL DEF Spec

-----------------------------------------------------------------------------
(* With searches.  A search is alone with its token; what it starts is its trial, and
   nothing else is alive then; whoever spawns has ended what ran before. *)
Searching(w) == job[w].op = "search"
OneSearch == \A w \in Worker : Searching(w) => ui.auto /\ \A v \in Worker : Searching(v) => v = w
Apart == \A v, w \in Worker : Searching(w) /\ v # w /\ Granted(v) => tok[v] # tok[w]
Traced == /\ \A p \in Pid : Alive(p) => p \in {proc, trial}
          /\ trial # None => \E w \in Worker : job[w].pc = "s.probe"
NobodyInside == \A v \in Worker : at[v] # "inside"
Launch(w) == Resting(job[w]) \/ ~ProcAlive
Trial(w) ==
    /\ job[w].pc \in {"s.context", "s.halt", "s.trial", "s.spawn", "s.probe"} => ~SvcRunning
    /\ job[w].pc \in {"s.trial", "s.spawn", "s.probe"} => ~ProcAlive
    /\ Searching(w) /\ job[w].pc \in {"begin", "enter", "s.look", "s.svcOff", "s.context"} => ~job[w].cut
    /\ job[w].pc \in {"s.exit", "s.restore"} => (job[w].cut => ~ProcAlive)
    /\ job[w].pc \in {"s.lock", "s.fin"} /\ RT!Valid(tok[w]) => (job[w].cut => ~ProcAlive) /\ NobodyInside
Closing == {"q.signal", "q.resignal", "q.lock", "q.stop", "q.exit"}
Parted(w) ==
    /\ job[w].pc \in Closing => closed
    /\ job[w].pc = "q.exit" => /\ \A v \in Worker : at[v] \notin {"inside", "admitted"}
                               /\ job[w].op # "quit" => \A p \in Pid : ~Alive(p)
Measuring(w) == job[w].pc # "token" /\ Launch(w) /\ Trial(w) /\ Parted(w)
MeasureInv == OneSearch /\ Apart /\ Traced /\ \A w \in Worker : Measuring(w)

(* Where each step of a search leaves it, and whether it has cut anything off. *)
Turned(w, pc, cut) == job'[w].op = job[w].op /\ job'[w].pc = pc /\ job'[w].cut = cut
HasCut(j, op, pc, cut) == j.op = op /\ j.pc = pc /\ j.cut = cut

LEMMA CutPuts ==
    ASSUME job \in [Worker -> Jobs], NEW w \in Worker, NEW pc, NEW cut, NEW j, HasCut(j, job[w].op, pc, cut),
           job' = [job EXCEPT ![w] = j]
    PROVE  Turned(w, pc, cut)
BY DEF HasCut, Turned

LEMMA CutMoves ==
    ASSUME job \in [Worker -> Jobs], NEW w \in Worker, NEW pc
    PROVE  /\ Goto(w, pc) => Turned(w, pc, job[w].cut)
           /\ CheckThen(w, pc) => Turned(w, "check", job[w].cut)
           /\ Tried(w) => Turned(w, "s.trial", job[w].cut)
           /\ \A a : job' = [job EXCEPT ![w].pc = pc, ![w].cut = a] => Turned(w, pc, a)
           /\ \A a : job' = [job EXCEPT ![w].pc = pc, ![w].complete = a] => Turned(w, pc, job[w].cut)
           /\ \A a, b : job' = [job EXCEPT ![w].pc = pc, ![w].svcWas = a, ![w].own = b] => Turned(w, pc, job[w].cut)
           /\ \A a, b : job' = [job EXCEPT ![w].pc = pc, ![w].orig = a, ![w].oname = b] => Turned(w, pc, job[w].cut)
<1>0. job[w] \in Jobs
  OBVIOUS
<1> DEFINE c == job[w].cut
           o == job[w].op
<1>1. HasCut([job[w] EXCEPT !.pc = pc], o, pc, c)
  BY <1>0 DEF HasCut, Jobs
<1>2. HasCut([job[w] EXCEPT !.pc = "check", !.k = pc], o, "check", c)
  BY <1>0 DEF HasCut, Jobs
<1>3. HasCut([job[w] EXCEPT !.pc = "s.trial", !.n = @ + 1], o, "s.trial", c)
  BY <1>0 DEF HasCut, Jobs
<1>4. ASSUME NEW a, NEW b
      PROVE  /\ HasCut([job[w] EXCEPT !.pc = pc, !.cut = a], o, pc, a)
             /\ HasCut([job[w] EXCEPT !.pc = pc, !.complete = a], o, pc, c)
             /\ HasCut([job[w] EXCEPT !.pc = pc, !.svcWas = a, !.own = b], o, pc, c)
             /\ HasCut([job[w] EXCEPT !.pc = pc, !.orig = a, !.oname = b], o, pc, c)
  BY <1>0 DEF HasCut, Jobs
<1>5. /\ Goto(w, pc) => Turned(w, pc, c)
      /\ CheckThen(w, pc) => Turned(w, "check", c)
      /\ Tried(w) => Turned(w, "s.trial", c)
  BY <1>1, <1>2, <1>3, CutPuts, Zenon DEF Goto, CheckThen, Tried
<1>6. ASSUME NEW a, NEW b
      PROVE  /\ job' = [job EXCEPT ![w].pc = pc, ![w].cut = a] => Turned(w, pc, a)
             /\ job' = [job EXCEPT ![w].pc = pc, ![w].complete = a] => Turned(w, pc, c)
             /\ job' = [job EXCEPT ![w].pc = pc, ![w].svcWas = a, ![w].own = b] => Turned(w, pc, c)
             /\ job' = [job EXCEPT ![w].pc = pc, ![w].orig = a, ![w].oname = b] => Turned(w, pc, c)
  BY <1>4, CutPuts, ZenonT(60)
<1> QED BY <1>5, <1>6, Zenon

(* Which steps a search may take where it is. *)
LEMMA SearchSteps ==
    ASSUME NEW w \in Worker, Work(w), Sound(job[w]), Searching(w)
    PROVE  \/ job[w].pc = "begin" /\ SearchBegin(w) 
           \/ job[w].pc = "enter" /\ (Enter(w) \/ TurnAway(w))
           \/ job[w].pc = "s.look" /\ SearchLook(w) 
           \/ job[w].pc = "s.svcOff" /\ SearchSvcOff(w)
           \/ job[w].pc = "s.context" /\ SearchContext(w) 
           \/ job[w].pc = "s.halt" /\ SearchHalt(w)
           \/ job[w].pc = "s.trial" /\ SearchNext(w) 
           \/ job[w].pc = "s.spawn" /\ SearchSpawn(w)
           \/ job[w].pc = "s.probe" /\ SearchProbe(w) 
           \/ job[w].pc = "s.exit" /\ SearchExit(w)
           \/ job[w].pc = "s.lock" /\ SearchLock(w) 
           \/ job[w].pc = "s.fin" /\ SearchFinally(w)
           \/ job[w].pc = "s.restore" /\ SearchRestore(w) 
           \/ job[w].pc = "s.unmark" /\ SearchUnmark(w)
           \/ job[w].pc = "s.done" /\ SearchDone(w)
<1> DEFINE Others == {"token", "check", "test", "raise", "claim", "spawn", "persist", "halt", "decide", "svcOff", "config",
                      "svcOn", "leave", "epilogue", "remove", "stopSvc", "stopLocal", "stopLocalErr", "download",
                      "unmark"} \cup QuitStep
<1>0. job[w].pc \notin Others
  BY DEF Searching, Sound, Fits, Does, AfterCheck, Entering, Quitting, QuitStep, AtSearch, Finally
<1> USE DEF At
<1>1. ASSUME \/ TakeToken(w) \/ Check(w) \/ StartTest(w) \/ Raise(w) \/ Claim(w) \/ Spawn(w) \/ Persist(w) \/ HaltLocal(w)
             \/ Decide(w) \/ SvcOff(w) \/ SvcConfig(w) \/ SvcOn(w) \/ InstallLeave(w) \/ InstallEpilogue(w)
      PROVE  job[w].pc \in Others
  BY <1>1 DEF TakeToken, Check, StartTest, Raise, Claim, Spawn, Persist, HaltLocal, Decide, SvcOff, SvcConfig, SvcOn,
     InstallLeave, InstallEpilogue
<1>2. ASSUME \/ RemoveService(w) \/ StopService(w) \/ StopLocal(w) \/ ListsDone(w) \/ Unmark(w) \/ QuitJoin(w)
             \/ QuitClose(w) \/ QuitSignal(w) \/ QuitLock(w) \/ QuitStop(w) \/ Exit(w)
      PROVE  job[w].pc \in Others
  BY <1>2 DEF RemoveService, StopService, StopLocal, ListsDone, Unmark, QuitJoin, QuitClose, QuitSignal, QuitLock,
     QuitStop, Exit, QuitStep
<1>3. \/ SearchBegin(w) \/ Enter(w) \/ TurnAway(w) \/ SearchLook(w) \/ SearchSvcOff(w) \/ SearchContext(w)
      \/ SearchHalt(w) \/ SearchNext(w) \/ SearchSpawn(w) \/ SearchProbe(w) \/ SearchExit(w) \/ SearchLock(w)
      \/ SearchFinally(w) \/ SearchRestore(w) \/ SearchUnmark(w) \/ SearchDone(w)
  <2> HIDE DEF Others
  <2> QED BY <1>0, <1>1, <1>2 DEF Work
<1>4. /\ (SearchBegin(w) => job[w].pc = "begin") /\ (Enter(w) \/ TurnAway(w) => job[w].pc = "enter")
      /\ (SearchLook(w) => job[w].pc = "s.look") /\ (SearchSvcOff(w) => job[w].pc = "s.svcOff")
      /\ (SearchContext(w) => job[w].pc = "s.context") /\ (SearchHalt(w) => job[w].pc = "s.halt")
      /\ (SearchNext(w) => job[w].pc = "s.trial") /\ (SearchSpawn(w) => job[w].pc = "s.spawn")
  BY Zenon DEF SearchBegin, Enter, TurnAway, SearchLook, SearchSvcOff, SearchContext, SearchHalt, SearchNext, SearchSpawn
<1>5. /\ (SearchProbe(w) => job[w].pc = "s.probe") /\ (SearchExit(w) => job[w].pc = "s.exit")
      /\ (SearchLock(w) => job[w].pc = "s.lock") /\ (SearchFinally(w) => job[w].pc = "s.fin")
      /\ (SearchRestore(w) => job[w].pc = "s.restore") /\ (SearchUnmark(w) => job[w].pc = "s.unmark")
      /\ (SearchDone(w) => job[w].pc = "s.done")
  BY Zenon DEF SearchProbe, SearchExit, SearchLock, SearchFinally, SearchRestore, SearchUnmark, SearchDone
<1> QED BY <1>3, <1>4, <1>5, Zenon

(* What a step of a search leaves: it ends what ran before it tries a strategy, and
   whatever it started before it takes the next step. *)
Steady == {"stop", "context"} \cap Faults = {}
Leaves(w) == /\ Resting(job'[w]) /\ Trial(w)' /\ job'[w].pc \notin {"token"} \cup Closing
             /\ \/ UNCHANGED <<win, proc, trial>> /\ job[w].pc # "s.probe"
                \/ PlaceOf(job[w].pc) \in Holding /\ trial' = None /\ Ours
                \/ job'[w].pc = "s.probe" /\ \A p \in Pid : win'[p] # None => p = trial'

LEMMA SearchLeaves ==
    ASSUME Steady, BaseInv, MeasureInv, NEW w \in Worker, Searching(w), Work(w), up'
    PROVE  Leaves(w)
<1>0. /\ job \in [Worker -> Jobs] /\ job[w] \in Jobs /\ Sound(job[w]) /\ HostTypeOK /\ proc \in Pid \cup {None}
      /\ None \notin Pid /\ trial \in Pid \cup {None} /\ up /\ \A v \in Worker : at[v] = PlaceOf(job[v].pc)
      /\ ~MayFail("stop") /\ ~MayFail("context") /\ Trial(w) /\ job[w].op = "search" /\ job[w].cut \in BOOLEAN
      /\ at \in [Worker -> RT!Place]
  <2>1. up
    BY WorkKeepsOp DEF BaseInv, Control
  <2> QED BY <2>1, HostAssumption DEF BaseInv, Control, DataTypes, HostTypeOK, Steady, MayFail, MeasureInv, Measuring,
             Searching, Jobs, P!IInv, P!TypeOK, P!Place, RT!Place
<1>1. ASSUME PlaceOf(job[w].pc) \in Holding
      PROVE  /\ \A p \in Pid : win[p] # None => p \in {proc, trial}
             /\ job[w].pc = "s.probe" \/ (trial = None /\ Ended(trial) = win)
             /\ \A v \in Worker \ {w} : at[v] \notin Holding
  <2>1. \A v \in Worker \ {w} : at[v] \notin Holding
    BY <1>0, <1>1, OneHolds
  <2>2. PlaceOf("s.probe") \in Holding
    BY DEF PlaceOf, Outside, Holding
  <2>3. trial # None => job[w].pc = "s.probe"
    BY <1>0, <2>1, <2>2 DEF MeasureInv, Traced
  <2> QED BY <1>0, <2>1, <2>3 DEF MeasureInv, Traced, Alive, Ended
<1>2. /\ \A x \in AtSearch : PlaceOf(x) = "inside"
      /\ PlaceOf("s.fin") = "locked" /\ PlaceOf("s.restore") = "admitted"
  BY DEF PlaceOf, Outside, AtSearch
<1>3. \A x \in AtSearch \cup {"s.fin", "s.restore"} : PlaceOf(x) \in Holding
  BY <1>2 DEF Holding
<1>4. ASSUME NEW pc \in {"enter"} \cup AtSearch \cup Finally, NEW c, Turned(w, pc, c)
      PROVE  /\ Resting(job'[w]) /\ job'[w].pc = pc /\ job'[w].cut = c /\ Searching(w)'
             /\ job'[w].pc \notin {"token"} \cup Closing
  BY <1>0, <1>4 DEF Turned, Resting, Going, Closing, Searching, AtSearch, Finally
<1>5. /\ {"s.look", "s.svcOff", "s.context", "s.halt", "s.trial", "s.spawn", "s.probe", "s.exit"} \subseteq AtSearch
      /\ {"s.lock", "s.fin", "s.restore", "s.unmark", "s.done"} \subseteq Finally
  BY DEF AtSearch, Finally
<1>6. /\ \A pc : Goto(w, pc) => Turned(w, pc, job[w].cut)
      /\ Tried(w) => Turned(w, "s.trial", job[w].cut)
      /\ \A pc, a : job' = [job EXCEPT ![w].pc = pc, ![w].cut = a] => Turned(w, pc, a)
      /\ \A pc, a : job' = [job EXCEPT ![w].pc = pc, ![w].complete = a] => Turned(w, pc, job[w].cut)
      /\ \A pc, a, b : job' = [job EXCEPT ![w].pc = pc, ![w].svcWas = a, ![w].own = b] => Turned(w, pc, job[w].cut)
      /\ \A pc, a, b : job' = [job EXCEPT ![w].pc = pc, ![w].orig = a, ![w].oname = b] => Turned(w, pc, job[w].cut)
  BY <1>0, CutMoves, Zenon
<1> USE DEF At, Fails
<1>10. CASE job[w].pc = "begin" /\ SearchBegin(w)
  <2>1. Turned(w, "enter", job[w].cut) /\ UNCHANGED host
    BY <1>6, <1>10, Zenon DEF SearchBegin
  <2>2. ~job[w].cut
    BY <1>0, <1>10 DEF Trial, Searching
  <2>3. Trial(w)'
    BY <1>4, <2>1, <2>2 DEF Trial
  <2> QED BY <1>4, <1>10, <2>1, <2>3 DEF Leaves, host
<1>11. CASE job[w].pc = "enter" /\ Enter(w)
  <2>1. Turned(w, "s.look", job[w].cut) /\ UNCHANGED host
    <3>1. First["search"] = "s.look"
      BY DEF First
    <3>2. Goto(w, First[job[w].op]) /\ UNCHANGED host
      BY <1>11, Zenon DEF Enter
    <3> QED BY <1>0, <1>6, <3>1, <3>2
  <2>2. ~job[w].cut
    BY <1>0, <1>11 DEF Trial, Searching
  <2>3. Trial(w)'
    BY <1>4, <1>5, <2>1, <2>2 DEF Trial
  <2> QED BY <1>4, <1>5, <1>11, <2>1, <2>3 DEF Leaves, host
<1>12. CASE job[w].pc = "enter" /\ TurnAway(w)
  <2>1. Goto(w, "s.lock") /\ UNCHANGED host /\ RT!Refuse(w)
    BY <1>0, <1>12 DEF TurnAway
  <2>2. Turned(w, "s.lock", job[w].cut) /\ ~RT!Valid(tok[w])'
    BY <1>6, <2>1 DEF RT!Refuse, RT!GiveUp, RT!Drop, RT!Valid
  <2>3. Trial(w)'
    BY <1>4, <1>5, <2>2 DEF Trial, RT!Valid
  <2> QED BY <1>4, <1>5, <1>12, <2>1, <2>2, <2>3 DEF Leaves, host
<1>13. CASE job[w].pc = "s.look" /\ SearchLook(w)
  <2>1. /\ UNCHANGED host
        /\ \/ Goto(w, "s.exit")
           \/ job' = [job EXCEPT ![w].pc = IF SvcRunning THEN "s.svcOff" ELSE "s.context", ![w].svcWas = SvcRunning,
                                 ![w].own = ProcAlive]
    BY <1>13, Zenon DEF SearchLook
  <2>2. \/ Turned(w, "s.exit", job[w].cut)
        \/ Turned(w, IF SvcRunning THEN "s.svcOff" ELSE "s.context", job[w].cut)
    BY <1>6, <2>1, Zenon
  <2>3. ~job[w].cut
    BY <1>0, <1>13 DEF Trial, Searching
  <2>4. \/ Turned(w, "s.exit", job[w].cut) \/ Turned(w, "s.svcOff", job[w].cut)
        \/ Turned(w, "s.context", job[w].cut) /\ ~SvcRunning'
    BY <2>1, <2>2 DEF SvcRunning, host
  <2>5. Trial(w)'
    BY <1>4, <1>5, <2>3, <2>4 DEF Trial
  <2> QED BY <1>4, <1>5, <1>13, <2>1, <2>4, <2>5 DEF Leaves, host
<1>14. CASE job[w].pc = "s.svcOff" /\ SearchSvcOff(w)
  <2>1. /\ UNCHANGED <<win, proc, trial>>
        /\ Turned(w, "s.exit", job[w].cut) \/ (SvcStops /\ Turned(w, "s.context", job[w].cut))
    BY <1>6, <1>14, Zenon DEF SearchSvcOff
  <2>2. ~job[w].cut
    BY <1>0, <1>14 DEF Trial, Searching
  <2>3. SvcStops => ~SvcRunning'
    BY DEF SvcStops, SvcRunning
  <2>4. Trial(w)'
    BY <1>4, <1>5, <2>1, <2>2, <2>3 DEF Trial
  <2> QED BY <1>4, <1>5, <1>14, <2>1, <2>4 DEF Leaves
<1>15. CASE job[w].pc = "s.context" /\ SearchContext(w)
  <2>1. UNCHANGED host /\ \E c : Turned(w, "s.halt", c)
    BY <1>0, <1>6, <1>15, Zenon DEF SearchContext
  <2>2. ~SvcRunning'
    BY <1>0, <1>15, <2>1 DEF Trial, SvcRunning, host
  <2>3. Trial(w)'
    BY <1>4, <1>5, <2>1, <2>2 DEF Trial
  <2> QED BY <1>4, <1>5, <1>15, <2>1, <2>3 DEF Leaves, host
<1>16. CASE job[w].pc = "s.halt" /\ SearchHalt(w)
  <2>1. win' = Ended(proc) /\ proc' = None /\ UNCHANGED <<trial, svc>> /\ Turned(w, "s.trial", job[w].cut)
    BY <1>0, <1>6, <1>16, Zenon DEF SearchHalt, StopFails
  <2>2. PlaceOf(job[w].pc) \in Holding
    BY <1>3, <1>5, <1>16
  <2>3. trial' = None /\ Ours
    BY <1>0, <1>1, <1>16, <2>1, <2>2 DEF Ended, HostTypeOK, Ours
  <2>4. ~SvcRunning' /\ ~ProcAlive'
    BY <1>0, <1>16, <2>1 DEF Trial, SvcRunning, ProcAlive, Alive
  <2>5. Trial(w)'
    BY <1>4, <1>5, <2>1, <2>4 DEF Trial
  <2> QED BY <1>4, <1>5, <2>1, <2>2, <2>3, <2>5 DEF Leaves
<1>17. CASE job[w].pc = "s.trial" /\ SearchNext(w)
  <2>1. UNCHANGED host /\ (Turned(w, "s.exit", job[w].cut) \/ Turned(w, "s.spawn", job[w].cut))
    BY <1>6, <1>17, Zenon DEF SearchNext
  <2>2. ~SvcRunning' /\ ~ProcAlive'
    BY <1>0, <1>17, <2>1 DEF Trial, SvcRunning, ProcAlive, Alive, host
  <2>3. Trial(w)'
    BY <1>4, <1>5, <2>1, <2>2 DEF Trial
  <2> QED BY <1>4, <1>5, <1>17, <2>1, <2>3 DEF Leaves, host
<1>18. CASE job[w].pc = "s.spawn" /\ SearchSpawn(w)
  <2>1. /\ UNCHANGED <<proc, svc>>
        /\ \/ /\ Fresh # {} /\ trial' = NewPid /\ Turned(w, "s.probe", job[w].cut)
              /\ \E s \in Strategy : win' = [win EXCEPT ![NewPid] = s]
           \/ UNCHANGED <<win, trial>> /\ Turned(w, "s.trial", job[w].cut)
    BY <1>6, <1>18, Zenon DEF SearchSpawn
  <2>2. ~SvcRunning' /\ ~ProcAlive
    BY <1>0, <1>18, <2>1 DEF Trial, SvcRunning
  <2>3. \A p \in Pid : win[p] = None
    BY <1>0, <1>1, <1>3, <1>5, <1>18, <2>2 DEF ProcAlive, Alive
  <2>4. CASE UNCHANGED <<win, trial>> /\ Turned(w, "s.trial", job[w].cut)
    <3>1. ~ProcAlive'
      BY <2>1, <2>2, <2>4 DEF ProcAlive, Alive
    <3>2. Trial(w)'
      BY <1>4, <1>5, <2>2, <2>4, <3>1 DEF Trial
    <3> QED BY <1>4, <1>5, <1>18, <2>1, <2>4, <3>2 DEF Leaves
  <2>5. ASSUME NEW s \in Strategy, win' = [win EXCEPT ![NewPid] = s], Fresh # {}, trial' = NewPid,
               Turned(w, "s.probe", job[w].cut)
        PROVE  Leaves(w)
    <3>1. NewPid \in Pid /\ NewPid # proc /\ \A p \in Pid : win'[p] # None => p = trial'
      BY <1>0, <2>3, <2>5, NewPidIsFresh DEF HostTypeOK
    <3>2. ~ProcAlive'
      BY <1>0, <2>1, <3>1, <2>5 DEF ProcAlive, Alive
    <3>3. Trial(w)'
      BY <1>4, <1>5, <2>2, <2>5, <3>2 DEF Trial
    <3> QED BY <1>4, <1>5, <2>5, <3>1, <3>3 DEF Leaves
  <2> QED BY <2>1, <2>4, <2>5
<1>19. CASE job[w].pc = "s.probe" /\ SearchProbe(w)
  <2>1. win' = Ended(trial) /\ trial' = None /\ UNCHANGED <<proc, svc>> /\ Turned(w, "s.trial", job[w].cut)
    BY <1>0, <1>6, <1>19, Zenon DEF SearchProbe, StopFails
  <2>2. PlaceOf(job[w].pc) \in Holding
    BY <1>3, <1>5, <1>19
  <2>3. ~SvcRunning' /\ ~ProcAlive
    BY <1>0, <1>19, <2>1 DEF Trial, SvcRunning
  <2>4. Ours /\ ~ProcAlive'
    BY <1>0, <1>1, <2>1, <2>2, <2>3 DEF Ended, HostTypeOK, Ours, ProcAlive, Alive
  <2>5. Trial(w)'
    BY <1>4, <1>5, <2>1, <2>3, <2>4 DEF Trial
  <2> QED BY <1>4, <1>5, <2>1, <2>2, <2>4, <2>5 DEF Leaves
<1>20. CASE job[w].pc = "s.exit" /\ SearchExit(w)
  <2>1. UNCHANGED host /\ RT!Leave(w) /\ Turned(w, "s.lock", job[w].cut)
    BY <1>6, <1>20, Zenon DEF SearchExit
  <2>2. job[w].cut => ~ProcAlive'
    BY <1>0, <1>20, <2>1 DEF Trial, ProcAlive, Alive, host
  <2>3. NobodyInside'
    <3>1. at'[w] = "idle" /\ \A v \in Worker \ {w} : at'[v] = at[v]
      BY <1>0, <2>1 DEF RT!Leave
    <3> QED BY <1>1, <1>3, <1>5, <1>20, <3>1 DEF NobodyInside, Holding
  <2>4. Trial(w)'
    BY <1>4, <1>5, <2>1, <2>2, <2>3 DEF Trial
  <2> QED BY <1>4, <1>5, <1>20, <2>1, <2>4 DEF Leaves, host
<1>21. CASE job[w].pc = "s.lock" /\ SearchLock(w)
  <2>1. UNCHANGED host /\ RT!Lock(w) /\ Turned(w, "s.fin", job[w].cut)
    BY <1>6, <1>21, Zenon DEF SearchLock
  <2>2. RT!Valid(tok[w])' => RT!Valid(tok[w])
    BY <2>1 DEF RT!Lock, RT!Valid
  <2>3. NobodyInside => NobodyInside'
    BY <1>0, <2>1 DEF NobodyInside, RT!Lock
  <2>4. Trial(w)'
    BY <1>0, <1>4, <1>5, <1>21, <2>1, <2>2, <2>3 DEF Trial, ProcAlive, Alive, host
  <2> QED BY <1>4, <1>5, <1>21, <2>1, <2>4 DEF Leaves, host
<1>22. CASE job[w].pc = "s.fin" /\ SearchFinally(w)
  <2>1. /\ win' = Ended(trial) /\ trial' = None /\ UNCHANGED proc
        /\ \/ RT!Admit(w) /\ Turned(w, "s.restore", job[w].cut)
           \/ Turned(w, "s.done", job[w].cut)
    BY <1>0, <1>6, <1>22, Zenon DEF SearchFinally, StopFails
  <2>2. UNCHANGED <<win, proc, trial>>
    BY <1>1, <1>3, <1>22, <2>1
  <2>3. RT!Admit(w) => (job[w].cut => ~ProcAlive')
    BY <1>0, <1>22, <2>2 DEF Trial, RT!Admit, ProcAlive, Alive
  <2>4. Trial(w)'
    BY <1>4, <1>5, <2>1, <2>3 DEF Trial
  <2> QED BY <1>4, <1>5, <1>22, <2>1, <2>2, <2>4 DEF Leaves
<1>23. CASE job[w].pc = "s.restore" /\ SearchRestore(w)
  <2>1. Turned(w, "s.unmark", job[w].cut) \/ Turned(w, "s.done", job[w].cut)
    BY <1>6, <1>23, Zenon DEF SearchRestore, RestoreFails
  <2>2. \/ UNCHANGED <<win, proc, trial>>
        \/ job[w].cut /\ \E s, n : Spawned(s, n)
    BY <1>23, Zenon DEF SearchRestore, host
  <2>3. Trial(w)'
    BY <1>4, <1>5, <2>1 DEF Trial
  <2>4. ASSUME job[w].cut, NEW s, NEW n, Spawned(s, n) PROVE trial' = None /\ Ours
    <3>1. /\ trial' = trial /\ NewPid \in Pid /\ proc' = NewPid /\ win' = [win EXCEPT ![NewPid] = s]
      BY <2>4, NewPidIsFresh DEF Spawned
    <3>2. trial = None /\ \A p \in Pid : win[p] = None
      BY <1>0, <1>1, <1>3, <1>23, <2>4 DEF Trial, ProcAlive, Alive
    <3> QED BY <1>0, <3>1, <3>2 DEF HostTypeOK, Ours
  <2> QED BY <1>3, <1>4, <1>5, <1>23, <2>1, <2>2, <2>3, <2>4 DEF Leaves
<1>24. CASE job[w].pc = "s.unmark" /\ SearchUnmark(w)
  <2>1. UNCHANGED host /\ Turned(w, "s.done", job[w].cut)
    BY <1>6, <1>24, Zenon DEF SearchUnmark
  <2>2. Trial(w)'
    BY <1>4, <1>5, <2>1 DEF Trial
  <2> QED BY <1>4, <1>5, <1>24, <2>1, <2>2 DEF Leaves, host
<1>25. CASE job[w].pc = "s.done" /\ SearchDone(w)
  <2>1. /\ UNCHANGED host
        /\ \/ \E s \in Strategy : job' = [job EXCEPT ![w] = [Idle EXCEPT !.op = "switch", !.pc = "enter", !.s = s, !.complete = TRUE]]
           \/ job' = [job EXCEPT ![w] = Idle]
    BY <1>25, Zenon DEF SearchDone
  <2>2. job'[w].op \in {"switch", "none"} /\ job'[w].pc \in {"enter", "idle"}
    <3>1. CASE job' = [job EXCEPT ![w] = Idle]
      BY <1>0, <3>1, Ceases DEF Becomes
    <3>2. ASSUME NEW s \in Strategy, job' = [job EXCEPT ![w] = [Idle EXCEPT !.op = "switch", !.pc = "enter", !.s = s, !.complete = TRUE]]
          PROVE  job'[w].op = "switch" /\ job'[w].pc = "enter"
      <4>1. s \in Strategy \cup {None}
        OBVIOUS
      <4>2. Becomes(w, "switch", "enter", "", s, 0)
        BY <1>0, <3>2, <4>1, Names, Begins, Zenon
      <4> QED BY <4>2 DEF Becomes
    <3> QED BY <2>1, <3>1, <3>2
  <2>3. Trial(w)' /\ Resting(job'[w]) /\ job'[w].pc \notin {"token"} \cup Closing
    BY <2>2 DEF Trial, Searching, Resting, Going, Closing
  <2> QED BY <1>25, <2>1, <2>3 DEF Leaves, host
<1> QED BY <1>0, <1>10, <1>11, <1>12, <1>13, <1>14, <1>15, <1>16, <1>17, <1>18, <1>19, <1>20, <1>21, <1>22, <1>23, <1>24,
           <1>25, SearchSteps

(* The operations of the controller that give nobody a token. *)
Calm(w) == \/ UNCHANGED ctl \/ RT!Enter(w) \/ RT!Refuse(w) \/ RT!Drop(w) \/ RT!Leave(w) \/ RT!Lock(w) \/ RT!Admit(w)
           \/ RT!CloseFlag(w) \/ RT!CloseSignal(w) \/ \E d : RT!SetDesired(w, d)
Arms(w) == /\ \A v \in Worker \ {w} : tok'[v] = tok[v] /\ at'[v] = at[v]
           /\ at'[w] = "inside" => at[w] = "inside" \/ (at[w] = "armed" /\ RT!Valid(tok[w]))
           /\ at'[w] = "admitted" => at[w] = "admitted" \/ RT!Valid(tok[w])
           /\ \/ tok'[w] = tok[w] /\ (Granted(w)' => Granted(w))
              \/ job'[w].op # "search" /\ (tok'[w] = cur + 1 \/ (Searching(w) /\ tok'[w] = tok[w]))

LEMMA WorkArms == ASSUME BaseInv, NEW w \in Worker, Work(w), up', job[w].pc # "token" PROVE Arms(w)
<1>0. /\ job \in [Worker -> Jobs] /\ Sound(job[w]) /\ tok \in [Worker -> 0..MaxToken]
      /\ at \in [Worker -> RT!Place]
  BY WorkKeepsOp DEF BaseInv, Control, P!IInv, P!TypeOK, P!Place, RT!Place
<1>1. ASSUME Calm(w) PROVE Arms(w)
  <2>1. UNCHANGED ctl \/ (\E d : RT!SetDesired(w, d)) => Arms(w)
    BY DEF ctl, RT!SetDesired, Arms, Granted
  <2>2. RT!Enter(w) \/ RT!Admit(w) => Arms(w)
    BY <1>0 DEF RT!Enter, RT!Admit, Arms, Granted
  <2>3. RT!Refuse(w) \/ RT!Drop(w) \/ RT!Leave(w) \/ RT!Lock(w) \/ RT!CloseFlag(w) \/ RT!CloseSignal(w) => Arms(w)
    BY <1>0 DEF RT!Refuse, RT!GiveUp, RT!Drop, RT!Leave, RT!Lock, RT!CloseFlag, RT!CloseSignal, Arms, Granted
  <2> QED BY <1>1, <2>1, <2>2, <2>3 DEF Calm
<1> USE DEF At, Ends, Errs
<1>2. CASE \/ Enter(w) \/ TurnAway(w) \/ Check(w) \/ StartTest(w) \/ Raise(w) \/ Claim(w) \/ Spawn(w) \/ Persist(w)
           \/ HaltLocal(w) \/ Decide(w) \/ SvcOff(w) \/ SvcConfig(w)
  <2>1. Calm(w)
    BY <1>2, Zenon DEF Calm, Enter, TurnAway, Check, StartTest, Raise, Claim, Spawn, Persist, HaltLocal, Decide, SvcOff,
       SvcConfig
  <2> QED BY <1>1, <2>1
<1>3. CASE \/ SvcOn(w) \/ InstallLeave(w) \/ InstallEpilogue(w) \/ RemoveService(w) \/ StopService(w)
           \/ StopLocal(w) \/ Unmark(w) \/ QuitJoin(w) \/ QuitClose(w) \/ QuitSignal(w) \/ QuitLock(w) \/ QuitStop(w)
  <2>1. Calm(w)
    BY <1>3, Zenon DEF Calm, SvcOn, InstallLeave, InstallEpilogue, RemoveService, StopService, StopLocal, Unmark, QuitJoin,
       QuitClose, QuitSignal, QuitLock, QuitStop
  <2> QED BY <1>1, <2>1
<1>4. CASE \/ SearchBegin(w) \/ SearchLook(w) \/ SearchSvcOff(w) \/ SearchContext(w) \/ SearchHalt(w) \/ SearchNext(w)
           \/ SearchSpawn(w) \/ SearchProbe(w) \/ SearchExit(w) \/ SearchLock(w)
  <2>1. Calm(w)
    BY <1>4, Zenon DEF Calm, SearchBegin, SearchLook, SearchSvcOff, SearchContext, SearchHalt, SearchNext, SearchSpawn,
       SearchProbe, SearchExit, SearchLock
  <2> QED BY <1>1, <2>1
<1>5. CASE SearchFinally(w) \/ SearchRestore(w) \/ SearchUnmark(w)
  <2>1. Calm(w)
    BY <1>5, Zenon DEF Calm, SearchFinally, SearchRestore, SearchUnmark, RestoreFails
  <2> QED BY <1>1, <2>1
<1>6. ASSUME NEW d, RT!RequestIfCurrent(w, d), job'[w].op # "search" PROVE Arms(w)
  BY <1>0, <1>6 DEF RT!RequestIfCurrent, RT!Supersede, Arms
<1>7. CASE ListsDone(w)
  <2>1. CASE RT!Drop(w)
    BY <1>1, <2>1 DEF Calm
  <2>2. CASE RT!RequestIfCurrent(w, desired) /\ job' = [job EXCEPT ![w].op = "restart", ![w].pc = "enter"]
    <3>1. job'[w].op = "restart"
      BY <1>0, <2>2, Restarts, Zenon DEF Becomes
    <3> QED BY <1>6, <2>2, <3>1
  <2> QED BY <1>7, <2>1, <2>2, Zenon DEF ListsDone
<1>8. CASE SearchDone(w)
  <2>1. Searching(w)
    BY <1>0, <1>8 DEF SearchDone, Searching, Sound, Fits, Does, AtSearch, Finally, Entering, Quitting, QuitStep
  <2>2. CASE UNCHANGED ctl
    BY <1>1, <2>2 DEF Calm
  <2>3. ASSUME NEW s \in Strategy, RT!RequestIfCurrent(w, "manual") \/ RT!Rearm(w),
               job' = [job EXCEPT ![w] = [Idle EXCEPT !.op = "switch", !.pc = "enter", !.s = s, !.complete = TRUE]]
        PROVE  Arms(w)
    <3>1. s \in Strategy \cup {None}
      OBVIOUS
    <3>2. Becomes(w, "switch", "enter", "", s, 0)
      BY <1>0, <2>3, <3>1, Names, Begins, Zenon
    <3>3. RT!Rearm(w) => Arms(w)
      BY <1>0, <2>1, <3>2 DEF RT!Rearm, Becomes, Arms
    <3> QED BY <1>6, <2>3, <3>2, <3>3 DEF Becomes
  <2>4. \/ UNCHANGED ctl
        \/ \E s \in Strategy : /\ RT!RequestIfCurrent(w, "manual") \/ RT!Rearm(w)
                               /\ job' = [job EXCEPT ![w] = [Idle EXCEPT !.op = "switch", !.pc = "enter", !.s = s, !.complete = TRUE]]
    BY <1>8, Zenon DEF SearchDone
  <2> QED BY <2>2, <2>3, <2>4
<1>9. ~TakeToken(w) /\ ~Exit(w)
  BY Zenon DEF TakeToken, Exit, Gone
<1> QED BY <1>2, <1>3, <1>4, <1>5, <1>7, <1>8, <1>9 DEF Work

(* Only the end of a search lowers its flag. *)
LEMMA WorkAuto == ASSUME ui \in UITypes, NEW w \in Worker, Work(w) PROVE (ui.auto => ui'.auto) \/ SearchDone(w)
<1>1. Finish(w) \/ ui' = [ui EXCEPT !.cancel = TRUE] => ui'.auto = ui.auto
  BY DEF Finish, UITypes
<1> QED BY <1>1, WorkFlagMoves

(* The worker that holds the lock without a token starts no process. *)
LEMMA LockedLessens ==
    ASSUME BaseInv, NEW w \in Worker, Work(w), up', PlaceOf(job[w].pc) = "locked"
    PROVE  \A p \in Pid : Alive(p)' => Alive(p)
<1>0. HostTypeOK /\ Sound(job[w]) /\ job[w].pc \in {"s.fin", "q.stop"}
  <2>1. HostTypeOK /\ Sound(job[w])
    BY DEF BaseInv, Control, DataTypes
  <2> QED BY <2>1 DEF PlaceOf, Outside
<1>1. CASE job[w].pc = "s.fin"
  <2>1. Searching(w)
    BY <1>0, <1>1 DEF Searching, Sound, Fits, Does, Entering, Quitting, QuitStep
  <2>2. SearchFinally(w)
    BY <1>0, <1>1, <2>1, SearchSteps
  <2>3. win' = Ended(trial) \/ win' = win
    BY <2>2, Zenon DEF SearchFinally
  <2> QED BY <1>0, <2>3 DEF Ended, Alive, HostTypeOK
<1>2. CASE job[w].pc = "q.stop"
  <2>1. QuitStop(w)
    BY <1>2, StepsOf, Zenon DEF QuitStep, QuitJoin, QuitClose, QuitSignal, QuitLock, Exit, At
  <2>2. /\ proc \in Pid \cup {None} /\ trial \in Pid \cup {None} /\ win \in [Pid -> Strategy \cup {None}]
    BY <1>0 DEF HostTypeOK
  <2>3. \A p \in Pid : Ended(trial)[p] # None => win[p] # None
    BY <2>2 DEF Ended
  <2>4. Ended(trial) \in [Pid -> Strategy \cup {None}]
    BY <1>0, EndedTypes DEF HostTypeOK
  <2>5. \/ win' \in {win, Ended(trial)}
        \/ \E x \in {win, Ended(trial)} : win' = [x EXCEPT ![proc] = None]
    BY <2>1 DEF QuitStop
  <2>6. \A p \in Pid : win'[p] # None => win[p] # None
    BY <2>2, <2>3, <2>4, <2>5
  <2> QED BY <2>6 DEF Alive
<1> QED BY <1>0, <1>1, <1>2

(* What an exit leaves: nobody acts any more once it has closed the controller and had
   the lock, and nothing that it was to stop is alive. *)
LEMMA QuitParts ==
    ASSUME Steady, BaseInv, MeasureInv, NEW w \in Worker, Work(w), up', ~Searching(w) PROVE Parted(w)'
<1>0. /\ job \in [Worker -> Jobs] /\ Sound(job[w]) /\ Control' /\ Parted(w) /\ HostTypeOK /\ up
      /\ at \in [Worker -> RT!Place] /\ \A v \in Worker : at[v] = PlaceOf(job[v].pc)
  <2>1. Control'
    BY BaseStep DEF BaseInv, Next
  <2> QED BY <2>1, WorkKeepsOp DEF BaseInv, Control, DataTypes, MeasureInv, Measuring, P!IInv, P!TypeOK, P!Place,
             RT!Place
<1>1. CASE job'[w].op \notin Quitting
  <2>1. job'[w].pc \notin Closing
    <3>1. Sound(job'[w])
      BY <1>0 DEF Control
    <3> QED BY <1>1, <3>1 DEF Sound, Fits, Does, Closing, Entering, AtSearch, Finally
  <2> QED BY <2>1 DEF Parted, Closing
<1>2. CASE job'[w].op \in Quitting
  <2>1. job'[w].op = job[w].op
    BY <1>0, <1>2, WorkKeepsOp DEF Quitting
  <2>2. job[w].pc \in QuitStep
    BY <1>0, <1>2, <2>1 DEF Sound, Fits, Does, Quitting, Entering, AfterCheck, QuitStep
  <2>3. ~Exit(w)
    BY Zenon DEF Exit, Gone
  <2>4. ASSUME NEW x, Goto(w, x) PROVE job'[w].pc = x
    <3>1. job[w] \in Jobs
      BY <1>0
    <3> QED BY <1>0, <2>4, <3>1 DEF Goto, Jobs
  <2> USE DEF At
  <2>5. CASE QuitJoin(w)
    <3>1. job'[w].pc = "q.reclose"
      BY <2>4, <2>5, Zenon DEF QuitJoin
    <3> QED BY <3>1 DEF Parted, Closing
  <2>6. CASE QuitClose(w)
    <3>1. job'[w].pc \in {"q.signal", "q.resignal"}
      BY <2>4, <2>6, Zenon DEF QuitClose
    <3>2. closed'
      BY <2>6 DEF QuitClose, RT!CloseFlag
    <3> QED BY <3>1, <3>2 DEF Parted
  <2>7. CASE QuitSignal(w) \/ QuitLock(w)
    <3>1. job'[w].pc # "q.exit" /\ job[w].pc \in Closing
      BY <2>4, <2>7 DEF QuitSignal, QuitLock, Closing
    <3>2. closed' = closed
      BY <2>7 DEF QuitSignal, QuitLock, RT!CloseSignal, RT!Lock
    <3> QED BY <1>0, <3>1, <3>2 DEF Parted
  <2>8. CASE QuitStop(w)
    <3>1. job[w].pc = "q.stop" /\ job'[w].pc = "q.exit" /\ RT!Leave(w)
      BY <2>4, <2>8, Zenon DEF QuitStop
    <3>2. closed' /\ PlaceOf(job[w].pc) \in Holding
      BY <1>0, <3>1 DEF Parted, Closing, RT!Leave, PlaceOf, Outside, Holding
    <3>3. \A v \in Worker : at'[v] \notin {"inside", "admitted"}
      <4>1. at'[w] = "idle" /\ \A v \in Worker \ {w} : at'[v] = at[v]
        BY <1>0, <3>1 DEF RT!Leave
      <4>2. \A v \in Worker \ {w} : at[v] \notin Holding
        BY <1>0, <3>2, OneHolds
      <4> QED BY <4>1, <4>2 DEF Holding
    <3>4. trial = None /\ \A p \in Pid : win[p] # None => p = proc
      <4>1. PlaceOf("s.probe") \in Holding
        BY DEF PlaceOf, Outside, Holding
      <4>2. trial = None
        BY <1>0, <3>1, <3>2, <4>1, OneHolds DEF MeasureInv, Traced
      <4> QED BY <4>2, HostAssumption DEF MeasureInv, Traced, Alive
    <3>5. job[w].op # "quit" => \A p \in Pid : win'[p] = None
      <4>1. ~MayFail("stop") /\ Ended(trial) = win
        BY <3>4 DEF Steady, MayFail, Ended
      <4>2. job[w].op # "quit" => win' = IF proc # None THEN [win EXCEPT ![proc] = None] ELSE win
        BY <2>8, <4>1 DEF QuitStop, StopFails
      <4> QED BY <1>0, <3>4, <4>2, HostAssumption DEF HostTypeOK
    <3> QED BY <2>1, <3>1, <3>2, <3>3, <3>5 DEF Parted, Alive
  <2> QED BY <2>2, <2>3, <2>5, <2>6, <2>7, <2>8, StepsOf
<1> QED BY <1>1, <1>2

(* close() is never undone but by a new program. *)
LEMMA ClosedStays == CtlStep => (closed => closed')
<1> SUFFICES ASSUME CtlStep, closed PROVE closed'
  OBVIOUS
<1>1. ASSUME NEW w, RT!Step(w) PROVE closed'
  BY <1>1 DEF RT!Step, RT!Capture, RT!Rearm, RT!Drop, RT!Enter, RT!Refuse, RT!GiveUp, RT!Lock, RT!Admit, RT!Leave,
     RT!CloseFlag, RT!CloseSignal, RT!Request, RT!RequestIfCurrent, RT!SetDesired
<1> QED BY <1>1 DEF CtlStep, RT!Next, RT!Announce, ctl

(* A step of w as the others see it: whoever is in the middle of something holds the lock,
   so that w has to wait, and whoever waits for the lock with a valid token is not overtaken. *)
LEMMA OthersMeasured ==
    ASSUME BaseInv, MeasureInv, NEW w \in Worker, Work(w), up', NEW v \in Worker \ {w} PROVE Measuring(v)'
<1>0. /\ up /\ Arms(w) /\ job'[v] = job[v] /\ tok'[v] = tok[v] /\ at'[v] = at[v] /\ tok[v] \in 0..cur
      /\ Measuring(v) /\ Measuring(w) /\ at[v] = PlaceOf(job[v].pc) /\ at[w] = PlaceOf(job[w].pc) /\ Sound(job[v])
      /\ Sound(job[w]) /\ P!IInv
  <2>1. up /\ job'[v] = job[v]
    BY WorkKeepsOp DEF BaseInv, Control, Alone
  <2>2. Arms(w)
    BY WorkArms DEF MeasureInv, Measuring
  <2>3. tok[v] \in 0..cur
    BY DEF BaseInv, P!IInv, P!TypeOK, P!TokenInv
  <2> QED BY <2>1, <2>2, <2>3 DEF BaseInv, Control, MeasureInv, Arms
<1>1. /\ RT!Valid(tok[v])' => RT!Valid(tok[v])
      /\ closed => closed'
  <2>0. desired \in RT!Mode
    BY DEF BaseInv, P!IInv, P!TypeOK, P!Mode, RT!Mode
  <2>1. CtlStep
    <3>1. ~Boot
      BY <1>0 DEF Boot
    <3>2. CtlStep \/ Boot
      BY <2>0, NextProtocol DEF Next
    <3> QED BY <3>1, <3>2
  <2>2. RT!Valid(tok[v])' => RT!Valid(tok[v])
    <3>1. \A t \in 0..cur : t = cur' /\ t \notin signalled' /\ ~closed' => RT!Valid(t)
      BY <1>0, <2>1, Stales DEF RT!Valid
    <3> QED BY <1>0, <3>1 DEF RT!Valid
  <2>3. closed => closed'
    BY <2>1, ClosedStays
  <2> QED BY <2>2, <2>3
<1>2. PlaceOf(job[v].pc) \in Holding \/ job[v].pc \notin {"s.context", "s.halt", "s.trial", "s.spawn", "s.probe",
          "s.exit", "s.fin", "s.restore"}
  BY DEF PlaceOf, Outside, Holding
<1>3. PlaceOf(job[v].pc) \in Holding => UNCHANGED host /\ PlaceOf(job[w].pc) \notin Holding
  BY <1>0, OneHolds, HostHeld
<1>4. Resting(job[v]) \/ PlaceOf(job[v].pc) \in Holding
  BY DEF Resting, Going, PlaceOf, Outside, Holding
<1>5. Launch(v)'
  BY <1>0, <1>3, <1>4 DEF Measuring, Launch, ProcAlive, Alive, host
<1>6. ASSUME job[v].pc \in {"s.lock", "s.fin"}, RT!Valid(tok[v])
      PROVE  UNCHANGED host /\ (NobodyInside => NobodyInside')
  <2>1. Searching(v)
    BY <1>0, <1>6 DEF Searching, Sound, Fits, Does, Entering, Quitting, QuitStep
  <2>2. ~closed /\ ~Searching(w)
    BY <1>6, <2>1 DEF RT!Valid, MeasureInv, OneSearch
  <2>3. ASSUME NobodyInside PROVE PlaceOf(job[w].pc) \notin Holding /\ NobodyInside'
    <3>1. at[w] # "inside"
      BY <2>3 DEF NobodyInside
    <3>2. job[w].pc \notin {"s.fin", "s.restore", "s.unmark", "q.stop"}
      BY <1>0, <2>2 DEF Sound, Fits, Does, Searching, Entering, Quitting, QuitStep, AfterCheck, Measuring, Parted, Closing
    <3>3. PlaceOf(job[w].pc) \notin Holding
      BY <1>0, <3>1, <3>2 DEF PlaceOf, Outside, Holding
    <3>4. at'[w] # "inside"
      <4>1. ~(at[w] = "armed" /\ RT!Valid(tok[w]))
        BY <1>6, <2>1 DEF MeasureInv, Apart, Granted, RT!Valid
      <4> QED BY <1>0, <3>1, <4>1 DEF Arms
    <3> QED BY <1>0, <2>3, <3>3, <3>4 DEF NobodyInside, Arms
  <2>4. NobodyInside
    BY <1>0, <1>6 DEF Measuring, Trial
  <2> QED BY <2>3, <2>4, HostHeld
<1>7. Trial(v)'
  <2>1. PlaceOf(job[v].pc) \in Holding => (SvcRunning' = SvcRunning /\ ProcAlive' = ProcAlive)
    BY <1>3 DEF SvcRunning, ProcAlive, Alive, host
  <2>2. job[v].pc \in {"s.lock", "s.fin"} /\ RT!Valid(tok[v]) => ProcAlive' = ProcAlive
    BY <1>6 DEF ProcAlive, Alive, host
  <2> QED BY <1>0, <1>1, <1>2, <1>6, <2>1, <2>2 DEF Measuring, Trial, Searching
<1>8. Parted(v)'
  <2>1. CASE job[v].pc # "q.exit"
    BY <1>0, <1>1, <2>1 DEF Measuring, Parted
  <2>2. CASE job[v].pc = "q.exit"
    <3>1. closed /\ \A u \in Worker : at[u] \notin {"inside", "admitted"}
      BY <1>0, <2>2 DEF Measuring, Parted, Closing
    <3>2. ~RT!Valid(tok[w])
      BY <3>1 DEF RT!Valid
    <3>3. \A u \in Worker : at'[u] \notin {"inside", "admitted"}
      BY <1>0, <3>1, <3>2 DEF Arms
    <3>4. \A p \in Pid : Alive(p)' => Alive(p)
      <4>1. CASE PlaceOf(job[w].pc) = "locked"
        BY <4>1, LockedLessens
      <4>2. CASE PlaceOf(job[w].pc) # "locked"
        <5>1. PlaceOf(job[w].pc) \notin Holding
          BY <1>0, <3>1, <4>2 DEF Holding
        <5> QED BY <5>1, HostHeld DEF Alive, host
      <4> QED BY <4>1, <4>2
    <3> QED BY <1>0, <1>1, <2>2, <3>1, <3>3, <3>4 DEF Measuring, Parted
  <2> QED BY <2>1, <2>2
<1> QED BY <1>0, <1>5, <1>7, <1>8 DEF Measuring

(* Wherever a process is started, whoever started it keeps the reference. *)
LEMMA TracedStays ==
    ASSUME BaseInv, MeasureInv, NEW w \in Worker, Work(w), up',
           \/ UNCHANGED <<win, proc, trial>> /\ job[w].pc # "s.probe"
           \/ trial' = None /\ Ours
           \/ job'[w].pc = "s.probe" /\ \A p \in Pid : win'[p] # None => p = trial'
    PROVE  Traced'
<1>0. Alone(w)
  BY WorkKeepsOp DEF BaseInv, Control
<1> QED BY <1>0 DEF MeasureInv, Traced, Alone, Alive, Ours

(* The end of a search, and only that, turns it into something else. *)
LEMMA DoneEnds == ASSUME BaseInv, NEW w \in Worker, SearchDone(w) PROVE Searching(w) /\ job'[w].op # "search"
<1>0. job \in [Worker -> Jobs] /\ Sound(job[w]) /\ job[w].pc = "s.done"
  BY DEF BaseInv, Control, SearchDone, At
<1>1. Searching(w)
  BY <1>0 DEF Searching, Sound, Fits, Does, AtSearch, Entering, QuitStep
<1>2. CASE job' = [job EXCEPT ![w] = Idle]
  BY <1>0, <1>1, <1>2, Ceases DEF Becomes
<1>3. ASSUME NEW s \in Strategy, job' = [job EXCEPT ![w] = [Idle EXCEPT !.op = "switch", !.pc = "enter", !.s = s, !.complete = TRUE]]
      PROVE  job'[w].op = "switch"
  <2>1. s \in Strategy \cup {None}
    OBVIOUS
  <2>2. Becomes(w, "switch", "enter", "", s, 0)
    BY <1>0, <1>3, <2>1, Names, Begins, Zenon
  <2> QED BY <2>2 DEF Becomes
<1>4. \/ job' = [job EXCEPT ![w] = Idle]
      \/ \E s \in Strategy : job' = [job EXCEPT ![w] = [Idle EXCEPT !.op = "switch", !.pc = "enter", !.s = s, !.complete = TRUE]]
  BY Zenon DEF SearchDone
<1> QED BY <1>1, <1>2, <1>3, <1>4

(* A step of a worker that does not search. *)
LEMMA PlainMeasured ==
    ASSUME Steady, BaseInv, MeasureInv, NEW w \in Worker, ~Searching(w), Work(w), up'
    PROVE  Measuring(w)' /\ Traced'
<1>0. /\ up /\ Launch(w) /\ Sound(job[w]) /\ job[w].op # "search" /\ Control'
  <2>1. Control'
    BY BaseStep DEF BaseInv, Next
  <2> QED BY <2>1, WorkKeepsOp DEF BaseInv, Control, MeasureInv, Measuring, Searching
<1>1. ASSUME PlaceOf(job[w].pc) \in Holding PROVE trial = None /\ \A p \in Pid : Alive(p) => p = proc
  <2>1. PlaceOf("s.probe") \in Holding /\ job[w].pc # "s.probe"
    BY <1>0 DEF PlaceOf, Outside, Holding, Sound, Fits, Does, Entering, AfterCheck, QuitStep
  <2>2. trial = None
    BY <1>0, <1>1, <2>1, OneHolds DEF MeasureInv, Traced
  <2> QED BY <2>2, HostAssumption DEF MeasureInv, Traced
<1>2. Mine(w)
  BY <1>0, <1>1, WorkMine DEF Launch
<1>3. Traced'
  <2>1. job[w].pc # "s.probe"
    BY <1>0 DEF Sound, Fits, Does, Entering, AfterCheck, QuitStep
  <2> QED BY <1>2, <2>1, TracedStays DEF Mine
<1>4. job'[w].op # "search" /\ Sound(job'[w])
  BY <1>0, WorkKeepsOp DEF BaseInv, Control
<1>5. job'[w].pc \notin {"s.context", "s.halt", "s.trial", "s.spawn", "s.probe", "s.exit", "s.restore", "s.lock", "s.fin"}
  BY <1>4 DEF Sound, Fits, Does, Entering, AfterCheck, QuitStep
<1>6. Trial(w)'
  BY <1>4, <1>5 DEF Trial, Searching
<1>7. Parted(w)'
  BY QuitParts
<1> QED BY <1>2, <1>3, <1>6, <1>7 DEF Mine, Secure, Measuring, Launch

LEMMA WorkMeasure ==
    ASSUME Steady, BaseInv, MeasureInv, NEW w \in Worker, Work(w), up' PROVE MeasureInv'
<1>0. /\ ui \in UITypes /\ Arms(w) /\ \A v \in Worker \ {w} : job'[v] = job[v]
      /\ \A v \in Worker : tok[v] \in 0..cur
      /\ job'[w].op \in {job[w].op, "none", "restart", "switch"}
      /\ cur \in Nat
  <2>1. Arms(w)
    BY WorkArms DEF MeasureInv, Measuring
  <2> QED BY <2>1, WorkKeepsOp DEF BaseInv, Control, Alone, P!IInv, P!TypeOK, P!TokenInv
<1>1. OneSearch'
  <2>1. \A v \in Worker : Searching(v)' => Searching(v)
    BY <1>0 DEF Searching
  <2>2. SearchDone(w) => \A v \in Worker : ~Searching(v)'
    BY <2>1, DoneEnds DEF MeasureInv, OneSearch, Searching
  <2> QED BY <1>0, <2>1, <2>2, WorkAuto DEF MeasureInv, OneSearch
<1>2. Apart'
  <2>1. ASSUME NEW u \in Worker, NEW v \in Worker, Searching(u)', v # u, Granted(v)' PROVE tok'[v] # tok'[u]
    <3>1. Searching(u) /\ tok'[u] = tok[u]
      BY <1>0, <2>1 DEF Searching, Arms
    <3>2. CASE v # w
      BY <1>0, <2>1, <3>1, <3>2 DEF Arms, Granted, MeasureInv, Apart
    <3>3. CASE v = w
      <4>1. ~Searching(w)
        BY <2>1, <3>1, <3>3 DEF MeasureInv, OneSearch
      <4>2. (Granted(w) /\ tok'[w] = tok[w]) \/ tok'[w] = cur + 1
        BY <1>0, <2>1, <3>3, <4>1 DEF Arms
      <4>3. tok[u] \in 0..cur
        BY <1>0
      <4> QED BY <1>0, <2>1, <3>1, <3>3, <4>2, <4>3 DEF MeasureInv, Apart
    <3> QED BY <3>2, <3>3
  <2> QED BY <2>1 DEF Apart
<1>3. Measuring(w)' /\ Traced'
  <2>1. CASE ~Searching(w)
    BY <2>1, PlainMeasured
  <2>2. CASE Searching(w)
    <3>1. Leaves(w)
      BY <2>2, SearchLeaves
    <3>2. Traced'
      BY <3>1, TracedStays DEF Leaves
    <3> QED BY <3>1, <3>2 DEF Leaves, Measuring, Launch, Parted, Closing
  <2> QED BY <2>1, <2>2
<1>4. \A v \in Worker \ {w} : Measuring(v)'
  BY OthersMeasured
<1> QED BY <1>1, <1>2, <1>3, <1>4 DEF MeasureInv

(* A job begins with nothing cut off. *)
LEMMA BeginsWhole ==
    ASSUME job \in [Worker -> Jobs], NEW w \in Worker, NEW op, NEW pc, NEW s, Begin(w, op, pc, s)
    PROVE  ~job'[w].cut
<1>1. \A a, b, c, d : HasCut(IdleOf(a, b, c, d), "none", "idle", c)
  BY DEF HasCut, IdleOf
<1>2. HasCut(Idle, "none", "idle", FALSE)
  BY <1>1, Zenon DEF Idle, IdleOf
<1>3. ~Idle.cut
  BY <1>2 DEF HasCut
<1>4. HasCut([Idle EXCEPT !.op = op, !.pc = pc, !.s = s], op, pc, Idle.cut)
  BY IdleJob DEF IsIdle, HasCut, Jobs
<1>5. job'[w] = [Idle EXCEPT !.op = op, !.pc = pc, !.s = s]
  BY DEF Begin
<1> QED BY <1>3, <1>4, <1>5, Zenon DEF HasCut

(* Only a new search raises its flag, and no click lowers it. *)
LEMMA AutoRaised == ASSUME NEW u \in UITypes, NEW a, NEW b PROVE [u EXCEPT !.auto = a, !.cancel = b].auto = a
BY DEF UITypes

LEMMA AutoStays ==
    ASSUME ui \in UITypes
    PROVE  /\ \A a : /\ ui' = [ui EXCEPT !.start = a] => ui'.auto = ui.auto
                     /\ ui' = [ui EXCEPT !.apply = a] => ui'.auto = ui.auto
                     /\ ui' = [ui EXCEPT !.restore = a] => ui'.auto = ui.auto
                     /\ ui' = [ui EXCEPT !.cancel = a] => ui'.auto = ui.auto
           /\ \A a, b : /\ ui' = [ui EXCEPT !.resume = a, !.start = b] => ui'.auto = ui.auto
                        /\ ui' = [ui EXCEPT !.cancel = a, !.closing = b] => ui'.auto = ui.auto
           /\ \A a, b, c, d : ui' = [ui EXCEPT !.cancel = a, !.apply = b, !.stop = c, !.nostart = d] => ui'.auto = ui.auto
<1>0. ui \in UITypes
  OBVIOUS
<1>1. ASSUME NEW a PROVE /\ ui' = [ui EXCEPT !.start = a] => ui'.auto = ui.auto
                         /\ ui' = [ui EXCEPT !.apply = a] => ui'.auto = ui.auto
                         /\ ui' = [ui EXCEPT !.restore = a] => ui'.auto = ui.auto
                         /\ ui' = [ui EXCEPT !.cancel = a] => ui'.auto = ui.auto
  BY <1>0 DEF UITypes
<1>2. ASSUME NEW a, NEW b PROVE /\ ui' = [ui EXCEPT !.resume = a, !.start = b] => ui'.auto = ui.auto
                                /\ ui' = [ui EXCEPT !.cancel = a, !.closing = b] => ui'.auto = ui.auto
  BY <1>0 DEF UITypes
<1>3. ASSUME NEW a, NEW b, NEW c, NEW d,
             ui' = [ui EXCEPT !.cancel = a, !.apply = b, !.stop = c, !.nostart = d]
      PROVE  ui'.auto = ui.auto
  BY <1>0, <1>3 DEF UITypes
<1> QED BY <1>1, <1>2, <1>3

LEMMA BeginsAuto == ASSUME ui \in UITypes, NEW w \in Worker, BeginSearch(w, ui) \/ BeginSearch(w, [ui EXCEPT !.apply = TRUE])
                    PROVE  ui'.auto
<1>1. [ui EXCEPT !.apply = TRUE] \in UITypes
  BY Flagged, Zenon DEF FlagsAre
<1>2. ASSUME NEW u \in UITypes, ui' = [u EXCEPT !.auto = TRUE, !.cancel = FALSE] PROVE ui'.auto = TRUE
  BY <1>2, AutoRaised, Zenon
<1>3. \E u \in UITypes : ui' = [u EXCEPT !.auto = TRUE, !.cancel = FALSE]
  BY <1>1, Zenon DEF BeginSearch
<1> QED BY <1>2, <1>3

LEMMA HandlerAuto == ASSUME ui \in UITypes, NEW w \in Worker, Handler(w) PROVE ui.auto => ui'.auto
<1>0. /\ \A a : /\ ui' = [ui EXCEPT !.start = a] => ui'.auto = ui.auto
                /\ ui' = [ui EXCEPT !.apply = a] => ui'.auto = ui.auto
                /\ ui' = [ui EXCEPT !.restore = a] => ui'.auto = ui.auto
      /\ \A a, b : /\ ui' = [ui EXCEPT !.resume = a, !.start = b] => ui'.auto = ui.auto
                   /\ ui' = [ui EXCEPT !.cancel = a, !.closing = b] => ui'.auto = ui.auto
      /\ \A a, b, c, d : ui' = [ui EXCEPT !.cancel = a, !.apply = b, !.stop = c, !.nostart = d] => ui'.auto = ui.auto
  BY AutoStays
<1>1. ASSUME NEW s \in Strategy, Start(w, s) \/ Install(w, s) \/ RestoreLast(w, s) PROVE ui'.auto = ui.auto
  <2>1. UNCHANGED ui \/ ui' = [ui EXCEPT !.start = TRUE]
    BY <1>1, Zenon DEF Start, Install, RestoreLast, app
  <2> QED BY <1>0, <2>1, Zenon
<1>2. ASSUME NEW op, Stop(w, op) PROVE ui'.auto = ui.auto
  BY <1>0, <1>2, Zenon DEF Stop
<1>3. ASSUME Remove(w) \/ DiagRestart(w) \/ Toggle(w) \/ Lists(w) PROVE ui'.auto = ui.auto
  BY <1>3, Zenon DEF Remove, DiagRestart, Toggle, Lists, app
<1>4. ASSUME Search(w) \/ SimpleFix(w) PROVE ui.auto => ui'.auto
  <2>1. \/ BeginSearch(w, ui) \/ BeginSearch(w, [ui EXCEPT !.apply = TRUE])
        \/ ui' = [ui EXCEPT !.apply = TRUE]
    BY <1>4, Zenon DEF Search, SimpleFix
  <2>2. ui' = [ui EXCEPT !.apply = TRUE] => ui'.auto = ui.auto
    BY <1>0
  <2> QED BY <2>1, <2>2, BeginsAuto
<1>5. ASSUME QuitForUpdate(w) \/ \E b \in BOOLEAN : Quit(w, b) PROVE ui'.auto = ui.auto
  BY <1>0, <1>5, Zenon DEF QuitForUpdate, Quit
<1>6. ASSUME StartupRestore(w) \/ StartupResume(w) PROVE ui'.auto = ui.auto
  <2>1. ui' = [ui EXCEPT !.restore = FALSE] \/ ui' = [ui EXCEPT !.resume = None, !.start = TRUE]
    BY <1>6, Zenon DEF StartupRestore, StartupResume
  <2> QED BY <1>0, <2>1, Zenon
<1> QED BY <1>1, <1>2, <1>3, <1>4, <1>5, <1>6 DEF Handler

(* What a click gives its worker: a token that supersedes the others, unless it begins an
   update of the lists while nothing is searched. *)
Brings(w) == /\ closed' = closed
             /\ \A v \in Worker \ {w} : job'[v] = job[v] /\ tok'[v] = tok[v] /\ at'[v] = at[v]
             /\ job'[w].pc \in Opening \ {"token"} /\ at'[w] \in {"idle", "armed"}
             /\ Granted(w)' => tok'[w] = cur + 1 \/ (~ui.auto /\ job'[w].op # "search")
             /\ job'[w].op = "search" => ~ui.auto /\ ui'.auto /\ tok'[w] = cur + 1 /\ ~job'[w].cut

LEMMA HandlerArms ==
    ASSUME "toggle" \notin Ops, BaseInv, NEW w \in Worker, Handler(w) PROVE UNCHANGED <<job, ctl>> \/ Brings(w)
<1> USE DEF Click, UIFree
<1>0. /\ job \in [Worker -> Jobs] /\ cur \in 0..MaxToken /\ tok \in [Worker -> 0..MaxToken] /\ at \in [Worker -> RT!Place]
      /\ ui \in UITypes /\ name \in Strategy \cup {None} /\ ui.resume \in Strategy \cup {None} /\ None \in Strategy \cup {None}
      /\ "token" \notin {"enter", "begin", "q.close", "q.join", "download"}
  BY DEF BaseInv, Control, DataTypes, UITypes, P!IInv, P!TypeOK, P!Place, RT!Place
<1>1. ASSUME NEW op \in Operation, NEW pc \in {"enter", "begin", "q.close", "download"}, NEW s \in Strategy \cup {None},
             Begin(w, op, pc, s)
      PROVE  /\ job'[w].op = op /\ job'[w].pc \in Opening \ {"token"} /\ at[w] = "idle"
             /\ \A v \in Worker \ {w} : job'[v] = job[v]
  <2>1. Becomes(w, op, pc, "", s, 0)
    BY <1>0, <1>1, Begins, Names
  <2> QED BY <1>1, <2>1, ZenonT(60) DEF Becomes, Alone, Opening, Begin, Free
<1>2. ASSUME NEW d, RT!Request(w, d)
      PROVE  /\ closed' = closed /\ tok'[w] = cur + 1 /\ at'[w] = "armed"
             /\ \A v \in Worker \ {w} : tok'[v] = tok[v] /\ at'[v] = at[v]
  BY <1>0, <1>2 DEF RT!Request
<1>3. ASSUME NEW d, NEW op \in Operation \ {"search"}, NEW s \in Strategy \cup {None}, RT!Request(w, d),
             Begin(w, op, "enter", s)
      PROVE  Brings(w)
  BY <1>1, <1>2, <1>3 DEF Brings
<1>4. ASSUME NEW s \in Strategy, Start(w, s) \/ Install(w, s) \/ RestoreLast(w, s) PROVE Brings(w)
  <2>1. \/ RT!Request(w, "manual") /\ Begin(w, "start", "enter", s)
        \/ RT!Request(w, "service") /\ Begin(w, "install", "enter", s)
        \/ RT!Request(w, IF SvcRunning THEN "service" ELSE "manual") /\ Begin(w, "switch", "enter", s)
    BY <1>4, Zenon DEF Start, StartWith, Install, RestoreLast
  <2> QED BY <1>3, <2>1, Names
<1>5. ASSUME NEW op \in {"stop", "stopAll"}, Stop(w, op) PROVE Brings(w)
  <2>1. RT!Request(w, "stopped") /\ Begin(w, op, "enter", None)
    BY <1>5, Zenon DEF Stop
  <2> QED BY <1>0, <1>3, <2>1, Names
<1>6. ASSUME Remove(w) \/ DiagRestart(w) \/ StartupRestore(w) PROVE Brings(w)
  <2>1. \/ RT!Request(w, "stopped") /\ Begin(w, "remove", "enter", None)
        \/ RT!Request(w, desired) /\ Begin(w, "restart", "enter", None)
        \/ RT!Request(w, "service") /\ Begin(w, "restore", "enter", None)
    BY <1>6, Zenon DEF Remove, DiagRestart, StartupRestore
  <2> QED BY <1>0, <1>3, <2>1, Names
<1>7. ASSUME StartupResume(w) PROVE Brings(w)
  <2>1. RT!Request(w, "manual") /\ Begin(w, "start", "enter", ui.resume)
    BY <1>7, Zenon DEF StartupResume, StartWith
  <2> QED BY <1>0, <1>3, <2>1, Names
<1>8. ASSUME Lists(w) PROVE Brings(w)
  <2>1. ~ui.auto /\ RT!Capture(w) /\ Begin(w, "lists", "download", None)
    BY <1>8, Zenon DEF Lists
  <2>2. closed' = closed /\ at'[w] = "armed" /\ \A v \in Worker \ {w} : tok'[v] = tok[v] /\ at'[v] = at[v]
    BY <1>0, <2>1 DEF RT!Capture
  <2> QED BY <1>0, <1>1, <2>1, <2>2, Names DEF Brings
<1>9. ASSUME Search(w) \/ SimpleFix(w) PROVE UNCHANGED <<job, ctl>> \/ Brings(w)
  <2>1. ~ui.auto
    BY <1>9, Zenon DEF Search, SimpleFix
  <2>2. \/ BeginSearch(w, ui) \/ BeginSearch(w, [ui EXCEPT !.apply = TRUE])
        \/ UNCHANGED <<job, ctl>>
    BY <1>9, Zenon DEF Search, SimpleFix
  <2>3. ASSUME BeginSearch(w, ui) \/ BeginSearch(w, [ui EXCEPT !.apply = TRUE]) PROVE Brings(w)
    <3>1. RT!Request(w, desired) /\ Begin(w, "search", "begin", None)
      BY <2>3, Zenon DEF BeginSearch
    <3>2. ui'.auto /\ ~job'[w].cut
      BY <1>0, <2>3, <3>1, BeginsAuto, BeginsWhole
    <3> QED BY <1>0, <1>1, <1>2, <2>1, <3>1, <3>2, Names DEF Brings
  <2> QED BY <2>2, <2>3
<1>10. ASSUME UNCHANGED ctl \/ RT!Announce("stopped"), at[w] = "idle"
       PROVE  closed' = closed /\ UNCHANGED <<tok, at>> /\ ~Granted(w)'
  BY <1>10 DEF RT!Announce, ctl, Granted
<1>11. ASSUME NEW b \in BOOLEAN, Quit(w, b) PROVE Brings(w)
  <2>1. at[w] = "idle" /\ (UNCHANGED ctl \/ RT!Announce("stopped"))
    BY <1>11, Zenon DEF Quit, Free
  <2>2. PICK op \in {"quit", "quitStop"}, pc \in {"q.join", "q.close"} :
           job' = [job EXCEPT ![w] = [Idle EXCEPT !.op = op, !.pc = pc, !.t = cur]]
    BY <1>11, Zenon DEF Quit
  <2>3. op \in Operation /\ pc \in PC
    BY <2>2, Names
  <2>4. Becomes(w, op, pc, "", Idle.s, 0)
    BY <1>0, <2>2, <2>3, Begins, Zenon
  <2> QED BY <1>0, <1>10, <2>1, <2>4 DEF Becomes, Alone, Opening, Brings
<1>12. ASSUME QuitForUpdate(w) PROVE Brings(w)
  <2>1. Begin(w, "update", "q.close", IF ProcAlive THEN name ELSE None) /\ UNCHANGED ctl
    BY <1>12, Zenon DEF QuitForUpdate
  <2>2. (IF ProcAlive THEN name ELSE None) \in Strategy \cup {None}
    BY <1>0
  <2>3. job'[w].op = "update" /\ job'[w].pc \in Opening \ {"token"} /\ at[w] = "idle" /\ \A v \in Worker \ {w} : job'[v] = job[v]
    BY <1>1, <2>1, <2>2, Names
  <2> QED BY <1>10, <2>1, <2>3 DEF Brings
<1>13. ~Toggle(w)
  BY DEF Toggle
<1> QED BY <1>4, <1>5, <1>6, <1>7, <1>8, <1>9, <1>11, <1>12, <1>13 DEF Handler

(* What a step outside the workers leaves: the clicks, the environment, a new program. *)
LEMMA Still ==
    ASSUME BaseInv, MeasureInv, UNCHANGED <<job, tok, at, proc, trial, svc, closed>>, ui.auto => ui'.auto,
           \A p \in Pid : Alive(p)' => Alive(p), \A v \in Worker : RT!Valid(tok[v])' => RT!Valid(tok[v])
    PROVE  MeasureInv'
<1>1. OneSearch' /\ Apart' /\ Traced'
  BY DEF MeasureInv, OneSearch, Apart, Traced, Searching, Granted
<1>2. ProcAlive' => ProcAlive
  BY DEF ProcAlive, Alive, BaseInv, DataTypes, HostTypeOK
<1>3. ASSUME NEW v \in Worker PROVE Measuring(v)'
  <2>1. Measuring(v)
    BY DEF MeasureInv
  <2>2. Launch(v)'
    BY <1>2, <2>1 DEF Measuring, Launch
  <2>3. Trial(v)'
    <3>1. RT!Valid(tok[v])' => RT!Valid(tok[v])
      OBVIOUS
    <3>2. SvcRunning' = SvcRunning /\ NobodyInside' = NobodyInside /\ Searching(v)' = Searching(v)
      BY DEF SvcRunning, NobodyInside, Searching
    <3> QED BY <1>2, <2>1, <3>1, <3>2 DEF Measuring, Trial
  <2>4. Parted(v)'
    BY <2>1 DEF Measuring, Parted
  <2> QED BY <2>1, <2>2, <2>3, <2>4 DEF Measuring
<1> QED BY <1>1, <1>3 DEF MeasureInv

(* Nobody is at work: before the first click, after an exit or a crash. *)
Nobody == \A v \in Worker : job[v].pc = "idle" /\ job[v].op = "none"
LEMMA NobodyMeasures == Nobody /\ Traced => MeasureInv
BY DEF Nobody, Traced, MeasureInv, OneSearch, Apart, Searching, Measuring, Launch, Resting, Going, Trial, Parted, Closing

LEMMA GoneMeasure == Gone => MeasureInv'
<1> SUFFICES ASSUME Gone PROVE MeasureInv'
  OBVIOUS
<1>1. win' = [p \in Pid |-> None] /\ trial' = None /\ job' = [w \in Worker |-> Idle]
  BY Zenon DEF Gone
<1>2. Traced'
  BY <1>1 DEF Traced, Alive
<1>3. \A v \in Worker : job'[v].pc = "idle" /\ job'[v].op = "none"
  BY <1>1, IdleJob DEF IsIdle
<1>4. \A v \in Worker : Measuring(v)'
  BY <1>3 DEF Measuring, Launch, Resting, Going, Trial, Searching, Parted, Closing
<1>5. OneSearch' /\ Apart'
  BY <1>3 DEF OneSearch, Apart, Searching
<1> QED BY <1>2, <1>4, <1>5 DEF MeasureInv

LEMMA HandlerMeasure ==
    ASSUME "toggle" \notin Ops, BaseInv, MeasureInv, NEW w \in Worker, Handler(w) PROVE MeasureInv'
<1>0. /\ up /\ UNCHANGED host /\ (ui.auto => ui'.auto) /\ (UNCHANGED <<job, ctl>> \/ Brings(w))
      /\ cur \in Nat /\ \A v \in Worker : tok[v] \in 0..cur
  BY HandlerOpens, HandlerAuto, HandlerArms DEF BaseInv, P!IInv, P!TypeOK, P!TokenInv
<1>1. CASE UNCHANGED <<job, ctl>>
  <2>1. UNCHANGED <<tok, at, closed, cur, signalled>>
    BY <1>1 DEF ctl
  <2>2. \A v \in Worker : RT!Valid(tok[v])' => RT!Valid(tok[v])
    BY <2>1 DEF RT!Valid
  <2> QED BY <1>0, <1>1, <2>1, <2>2, Still DEF host, Alive
<1>2. CASE Brings(w)
  <2>1. UNCHANGED <<win, proc, trial, svc, closed>>
    BY <1>0, <1>2 DEF host, Brings
  <2>2. \A v \in Worker \ {w} : RT!Valid(tok[v])' => RT!Valid(tok[v])
    <3>1. CtlStep
      BY <1>0, HandlerProtocol DEF BaseInv, P!IInv, P!TypeOK, P!Mode, RT!Mode
    <3>2. \A t \in 0..cur : t = cur' /\ t \notin signalled' /\ ~closed' => RT!Valid(t)
      BY <3>1, Stales DEF RT!Valid, BaseInv
    <3> QED BY <1>0, <1>2, <3>2 DEF Brings, RT!Valid
  <2>3. OneSearch'
    BY <1>0, <1>2 DEF Brings, MeasureInv, OneSearch, Searching
  <2>4. Apart'
    <3>1. ASSUME NEW u \in Worker, NEW v \in Worker, Searching(u)', v # u, Granted(v)' PROVE tok'[v] # tok'[u]
      <4>1. CASE u = w
        BY <1>0, <1>2, <3>1, <4>1 DEF Brings, Searching
      <4>2. CASE u # w /\ v = w
        BY <1>0, <1>2, <3>1, <4>2 DEF Brings, Searching, MeasureInv, OneSearch
      <4>3. CASE u # w /\ v # w
        BY <1>2, <3>1, <4>3 DEF Brings, Searching, MeasureInv, Apart, Granted
      <4> QED BY <4>1, <4>2, <4>3
    <3> QED BY <3>1 DEF Apart
  <2>5. Traced'
    <3>1. job[w].pc # "s.probe" \/ job' = job
      BY HandlerOpens
    <3> QED BY <1>2, <2>1, <3>1 DEF MeasureInv, Traced, Alive, Brings
  <2>6. NobodyInside => NobodyInside'
    BY <1>2 DEF Brings, NobodyInside
  <2>7. ASSUME NEW v \in Worker \ {w} PROVE Measuring(v)'
    <3>1. Measuring(v) /\ job'[v] = job[v] /\ tok'[v] = tok[v]
      BY <1>2 DEF MeasureInv, Brings
    <3>2. Launch(v)'
      BY <2>1, <3>1 DEF Measuring, Launch, ProcAlive, Alive
    <3>3. Trial(v)'
      <4>1. SvcRunning' = SvcRunning /\ ProcAlive' = ProcAlive /\ Searching(v)' = Searching(v)
        BY <2>1, <3>1 DEF SvcRunning, ProcAlive, Alive, Searching
      <4> QED BY <2>2, <2>6, <3>1, <4>1 DEF Measuring, Trial
    <3>4. Parted(v)'
      BY <1>2, <2>1, <3>1 DEF Measuring, Parted, Brings, Alive
    <3> QED BY <3>1, <3>2, <3>3, <3>4 DEF Measuring
  <2>8. Measuring(w)'
    <3>1. job'[w].pc \in {"enter", "download", "begin", "q.join", "q.close"}
      BY <1>2 DEF Brings, Opening
    <3>2. job'[w].op = "search" => ~job'[w].cut
      BY <1>2 DEF Brings
    <3> QED BY <3>1, <3>2 DEF Measuring, Launch, Resting, Going, Trial, Searching, Parted, Closing
  <2> QED BY <2>3, <2>4, <2>5, <2>7, <2>8 DEF MeasureInv
<1> QED BY <1>0, <1>1, <1>2

LEMMA NextMeasure ==
    ASSUME "toggle" \notin Ops, Steady, BaseInv, MeasureInv, [Next]_vars PROVE MeasureInv'
<1>0. desired \in RT!Mode /\ ui \in UITypes /\ P!IInv /\ \A v \in Worker : tok[v] \in 0..cur
  BY DEF BaseInv, P!IInv, P!TypeOK, P!Mode, RT!Mode, P!TokenInv
<1>1. ASSUME NEW w \in Worker, Handler(w) PROVE MeasureInv'
  BY <1>1, HandlerMeasure
<1>2. ASSUME NEW w \in Worker, Work(w) PROVE MeasureInv'
  <2>1. CASE up'
    BY <1>2, <2>1, WorkMeasure
  <2>2. CASE ~up'
    BY <1>2, <2>2, OnlyExitEnds, GoneMeasure DEF Exit
  <2> QED BY <2>1, <2>2
<1>3. CASE SearchStop \/ Die \/ Foreign \/ UNCHANGED vars
  <2>1. UNCHANGED <<job, ctl, proc, trial, svc>> /\ (UNCHANGED ui \/ ui' = [ui EXCEPT !.cancel = TRUE])
    BY <1>3, Zenon DEF SearchStop, Die, Foreign, vars, host, ctl, app
  <2>2. \A p \in Pid : Alive(p)' => Alive(p)
    BY <1>3 DEF SearchStop, Die, Foreign, vars, host, Alive, BaseInv, DataTypes, HostTypeOK
  <2>3. \A v \in Worker : RT!Valid(tok[v])' => RT!Valid(tok[v])
    BY <2>1 DEF RT!Valid, ctl
  <2>4. ui' = [ui EXCEPT !.cancel = TRUE] => ui'.auto = ui.auto
    BY <1>0, AutoStays, Zenon
  <2> QED BY <2>1, <2>2, <2>3, <2>4, Still DEF ctl
<1>4. CASE AdoptService
  <2>1. UNCHANGED <<host, job, ui>> /\ RT!Announce("service")
    BY <1>4, Zenon DEF AdoptService, app
  <2>2. CtlStep /\ UNCHANGED <<tok, at, closed>>
    BY <2>1, Announcing, Modes DEF CtlStep, RT!Announce
  <2>3. \A v \in Worker : RT!Valid(tok[v])' => RT!Valid(tok[v])
    <3>1. \A t \in 0..cur : t = cur' /\ t \notin signalled' /\ ~closed' => RT!Valid(t)
      BY <1>0, <2>2, Stales DEF RT!Valid
    <3> QED BY <1>0, <2>2, <3>1 DEF RT!Valid
  <2> QED BY <2>1, <2>2, <2>3, Still DEF host, Alive
<1>5. CASE Crash
  BY <1>5, GoneMeasure DEF Crash
<1>6. CASE Boot
  <2>1. ~up /\ UNCHANGED <<host, job>>
    BY <1>6, Zenon DEF Boot
  <2>2. Nobody /\ UNCHANGED <<win, proc, trial>>
    BY <2>1, IdleJob DEF BaseInv, Control, IsIdle, Nobody, host
  <2>3. Nobody' /\ Traced'
    BY <2>1, <2>2 DEF Nobody, MeasureInv, Traced, Alive
  <2>4. (\A v \in Worker : Measuring(v)') /\ OneSearch' /\ Apart'
    BY <2>3 DEF Nobody, Measuring, Launch, Resting, Going, Trial, Searching, Parted, Closing, OneSearch, Apart
  <2> QED BY <2>3, <2>4 DEF MeasureInv
<1> QED BY <1>1, <1>2, <1>3, <1>4, <1>5, <1>6 DEF Next

LEMMA InitMeasure == Init => MeasureInv
<1> SUFFICES ASSUME Init PROVE MeasureInv
  OBVIOUS
<1>1. win = [p \in Pid |-> None] /\ trial = None /\ job = [w \in Worker |-> Idle]
  BY Zenon DEF Init
<1> HIDE DEF Init
<1> QED BY <1>1, IdleJob, NobodyMeasures DEF IsIdle, Nobody, Traced, Alive

(* While no stop fails and no worker takes over a token, all of the search's invariant holds. *)
LEMMA Measures == ASSUME "toggle" \notin Ops, Steady PROVE Spec => [](BaseInv /\ MeasureInv)
<1>1. BaseInv /\ MeasureInv /\ [Next]_vars => MeasureInv'
  BY NextMeasure
<1> QED BY <1>1, InitMeasure, BaseHolds, PTL DEF Spec

(* A strategy under trial is measured alone, whatever is started, restarted, stopped or
   clicked meanwhile, as long as processes stop when they are told to and no worker takes
   over a token that is not its own (zapret_app.pyw:2976-2986). *)
THEOREM MeasuredAlone == "toggle" \notin Ops /\ Steady => (Spec => []CleanMeasurement)
<1> SUFFICES ASSUME "toggle" \notin Ops, Steady PROVE Spec => []CleanMeasurement
  OBVIOUS
<1>1. BaseInv /\ MeasureInv => CleanMeasurement
  <2> SUFFICES ASSUME BaseInv, MeasureInv, NEW w \in Worker, job[w].pc = "s.probe"
               PROVE  ~Managed /\ \A p \in Pid : Alive(p) => p = trial
    BY DEF CleanMeasurement
  <2>1. ~SvcRunning /\ ~ProcAlive
    BY DEF MeasureInv, Measuring, Trial
  <2>2. \A p \in Pid : Alive(p) => p = trial
    BY <2>1 DEF MeasureInv, Traced, ProcAlive
  <2> QED BY <2>1, <2>2 DEF Managed
<1> QED BY <1>1, Measures, PTL

(* With searches too, a winws of the program is always one that it can stop
   (zapret_app.pyw:1774-1780, 3012-3014). *)
THEOREM SearchesOrphanNothing == "toggle" \notin Ops /\ Steady => (Spec => []NoOrphan)
<1> SUFFICES ASSUME "toggle" \notin Ops, Steady PROVE Spec => []NoOrphan
  OBVIOUS
<1>1. MeasureInv => NoOrphan
  BY DEF MeasureInv, Traced, NoOrphan
<1> QED BY <1>1, Measures, PTL

(* An exit that is to stop the bypass leaves no process of the program alive, whatever was
   under way: a search, a start, a restart (zapret_app.pyw:3240-3268). *)
THEOREM ExitStopsAll == "toggle" \notin Ops /\ Steady => (Spec => []QuitStopsAll)
<1> SUFFICES ASSUME "toggle" \notin Ops, Steady PROVE Spec => []QuitStopsAll
  OBVIOUS
<1>1. MeasureInv => QuitStopsAll
  BY DEF MeasureInv, Measuring, Parted, QuitStopsAll, At
<1> QED BY <1>1, Measures, PTL

-----------------------------------------------------------------------------
(* What a search puts back.  What each step does to the data a job keeps. *)
Recalls(j, i) == /\ j.op = i.op /\ j.s = i.s /\ j.t = i.t
                 /\ j.orig = i.orig /\ j.own = i.own /\ j.svcWas = i.svcWas
Moved(w, pc, k) == job'[w].pc = pc /\ job'[w].k = k /\ Recalls(job'[w], job[w])
MovedTo(j, i, pc, k) == j.pc = pc /\ j.k = k /\ Recalls(j, i)

LEMMA MovePuts ==
    ASSUME job \in [Worker -> Jobs], NEW w \in Worker, NEW pc, NEW k, NEW j, MovedTo(j, job[w], pc, k),
           job' = [job EXCEPT ![w] = j]
    PROVE  Moved(w, pc, k)
BY DEF MovedTo, Moved, Recalls

LEMMA Moves ==
    ASSUME job \in [Worker -> Jobs], NEW w \in Worker, NEW pc
    PROVE  /\ Goto(w, pc) => Moved(w, pc, job[w].k)
           /\ CheckThen(w, pc) => Moved(w, "check", pc)
           /\ Tried(w) => Moved(w, "s.trial", job[w].k)
           /\ \A a : job' = [job EXCEPT ![w].pc = pc, ![w].cut = a] => Moved(w, pc, job[w].k)
           /\ \A a : job' = [job EXCEPT ![w].pc = pc, ![w].complete = a] => Moved(w, pc, job[w].k)
<1>0. job[w] \in Jobs
  OBVIOUS
<1> DEFINE x == job[w].k
<1>1. MovedTo([job[w] EXCEPT !.pc = pc], job[w], pc, x)
  BY <1>0 DEF MovedTo, Recalls, Jobs
<1>2. MovedTo([job[w] EXCEPT !.pc = "check", !.k = pc], job[w], "check", pc)
  BY <1>0 DEF MovedTo, Recalls, Jobs
<1>3. MovedTo([job[w] EXCEPT !.pc = "s.trial", !.n = @ + 1], job[w], "s.trial", x)
  BY <1>0 DEF MovedTo, Recalls, Jobs
<1>4. ASSUME NEW a PROVE /\ MovedTo([job[w] EXCEPT !.pc = pc, !.cut = a], job[w], pc, x)
                         /\ MovedTo([job[w] EXCEPT !.pc = pc, !.complete = a], job[w], pc, x)
  BY <1>0 DEF MovedTo, Recalls, Jobs
<1>5. /\ Goto(w, pc) => Moved(w, pc, x)
      /\ CheckThen(w, pc) => Moved(w, "check", pc)
      /\ Tried(w) => Moved(w, "s.trial", x)
  BY <1>1, <1>2, <1>3, MovePuts, Zenon DEF Goto, CheckThen, Tried
<1>6. ASSUME NEW a PROVE /\ job' = [job EXCEPT ![w].pc = pc, ![w].cut = a] => Moved(w, pc, x)
                         /\ job' = [job EXCEPT ![w].pc = pc, ![w].complete = a] => Moved(w, pc, x)
  BY <1>4, MovePuts, ZenonT(60)
<1> QED BY <1>5, <1>6, Zenon

(* The two steps at which a search writes down what it has found. *)
Noted(j, pc, own, svcWas, orig) == j.pc = pc /\ j.op = "search" /\ j.own = own /\ j.svcWas = svcWas /\ j.orig = orig
LEMMA NotePuts ==
    ASSUME job \in [Worker -> Jobs], NEW w \in Worker, NEW pc, NEW a, NEW b, NEW c, NEW j, Noted(j, pc, a, b, c),
           job' = [job EXCEPT ![w] = j]
    PROVE  Noted(job'[w], pc, a, b, c)
BY DEF Noted

LEMMA Notes ==
    ASSUME job \in [Worker -> Jobs], NEW w \in Worker, Searching(w), NEW pc
    PROVE  \A a, b : /\ job' = [job EXCEPT ![w].pc = pc, ![w].svcWas = a, ![w].own = b]
                          => Noted(job'[w], pc, b, a, job[w].orig)
                     /\ job' = [job EXCEPT ![w].pc = pc, ![w].orig = a, ![w].oname = b]
                          => Noted(job'[w], pc, job[w].own, job[w].svcWas, a)
<1>0. job[w] \in Jobs /\ job[w].op = "search"
  BY DEF Searching
<1>1. ASSUME NEW a, NEW b
      PROVE  /\ Noted([job[w] EXCEPT !.pc = pc, !.svcWas = a, !.own = b], pc, b, a, job[w].orig)
             /\ Noted([job[w] EXCEPT !.pc = pc, !.orig = a, !.oname = b], pc, job[w].own, job[w].svcWas, a)
  BY <1>0 DEF Noted, Jobs
<1>2. ASSUME NEW a, NEW b
      PROVE  /\ job' = [job EXCEPT ![w].pc = pc, ![w].svcWas = a, ![w].own = b] => Noted(job'[w], pc, b, a, job[w].orig)
             /\ job' = [job EXCEPT ![w].pc = pc, ![w].orig = a, ![w].oname = b]
                  => Noted(job'[w], pc, job[w].own, job[w].svcWas, a)
  BY <1>1, NotePuts, ZenonT(60)
<1> QED BY <1>2, Zenon

(* Without a repair and a click on "last working strategy" nobody switches. *)
Modest == ~ui.apply /\ \A w \in Worker : job[w].op # "switch"

LEMMA ApplyStays ==
    ASSUME ui \in UITypes
    PROVE  /\ \A a : /\ ui' = [ui EXCEPT !.start = a] => ui'.apply = ui.apply
                     /\ ui' = [ui EXCEPT !.restore = a] => ui'.apply = ui.apply
                     /\ ui' = [ui EXCEPT !.cancel = a] => ui'.apply = ui.apply
           /\ \A a, b : /\ ui' = [ui EXCEPT !.resume = a, !.start = b] => ui'.apply = ui.apply
                        /\ ui' = [ui EXCEPT !.start = a, !.stop = b] => ui'.apply = ui.apply
                        /\ ui' = [ui EXCEPT !.auto = a, !.cancel = b] => ui'.apply = ui.apply
                        /\ ui' = [ui EXCEPT !.cancel = a, !.closing = b] => ui'.apply = ui.apply
           /\ \A a, b, c : /\ ui' = [ui EXCEPT !.auto = a, !.apply = b, !.cancel = c] => ui'.apply = b
           /\ \A a, b, c, d : ui' = [ui EXCEPT !.cancel = a, !.apply = b, !.stop = c, !.nostart = d] => ui'.apply = b
<1>0. ui \in UITypes
  OBVIOUS
<1>1. ASSUME NEW a PROVE /\ ui' = [ui EXCEPT !.start = a] => ui'.apply = ui.apply
                         /\ ui' = [ui EXCEPT !.restore = a] => ui'.apply = ui.apply
                         /\ ui' = [ui EXCEPT !.cancel = a] => ui'.apply = ui.apply
  BY <1>0 DEF UITypes
<1>2. ASSUME NEW a, NEW b PROVE /\ ui' = [ui EXCEPT !.resume = a, !.start = b] => ui'.apply = ui.apply
                                /\ ui' = [ui EXCEPT !.start = a, !.stop = b] => ui'.apply = ui.apply
                                /\ ui' = [ui EXCEPT !.auto = a, !.cancel = b] => ui'.apply = ui.apply
                                /\ ui' = [ui EXCEPT !.cancel = a, !.closing = b] => ui'.apply = ui.apply
  BY <1>0 DEF UITypes
<1>3. ASSUME NEW a, NEW b, NEW c, ui' = [ui EXCEPT !.auto = a, !.apply = b, !.cancel = c] PROVE ui'.apply = b
  BY <1>0, <1>3 DEF UITypes
<1>4. ASSUME NEW a, NEW b, NEW c, NEW d, ui' = [ui EXCEPT !.cancel = a, !.apply = b, !.stop = c, !.nostart = d]
      PROVE  ui'.apply = b
  BY <1>0, <1>4 DEF UITypes
<1> QED BY <1>1, <1>2, <1>3, <1>4

LEMMA OnlyDownloads == ASSUME NEW w \in Worker, Work(w), job[w].pc = "download" PROVE ListsDone(w)
<1> USE DEF At
<1>1. ~(\/ TakeToken(w) \/ Enter(w) \/ TurnAway(w) \/ InstallEpilogue(w) \/ Decide(w) \/ StopService(w) \/ StopLocal(w)
        \/ Check(w) \/ StartTest(w) \/ Raise(w) \/ Claim(w) \/ Spawn(w) \/ Persist(w) \/ HaltLocal(w) \/ SvcOff(w))
  BY DEF TakeToken, Enter, TurnAway, InstallEpilogue, Decide, StopService, StopLocal, Check, StartTest, Raise, Claim, Spawn,
     Persist, HaltLocal, SvcOff
<1>2. ~(\/ SvcConfig(w) \/ SvcOn(w) \/ InstallLeave(w) \/ RemoveService(w) \/ Unmark(w) \/ QuitJoin(w) \/ QuitClose(w)
        \/ QuitSignal(w) \/ QuitLock(w) \/ QuitStop(w) \/ Exit(w))
  BY DEF SvcConfig, SvcOn, InstallLeave, RemoveService, Unmark, QuitJoin, QuitClose, QuitSignal, QuitLock, QuitStop, Exit
<1>3. ~(\/ SearchBegin(w) \/ SearchLook(w) \/ SearchSvcOff(w) \/ SearchContext(w) \/ SearchHalt(w) \/ SearchNext(w)
        \/ SearchSpawn(w) \/ SearchProbe(w))
  BY DEF SearchBegin, SearchLook, SearchSvcOff, SearchContext, SearchHalt, SearchNext, SearchSpawn, SearchProbe
<1>4. ~(\/ SearchExit(w) \/ SearchLock(w) \/ SearchFinally(w) \/ SearchRestore(w) \/ SearchUnmark(w) \/ SearchDone(w))
  BY DEF SearchExit, SearchLock, SearchFinally, SearchRestore, SearchUnmark, SearchDone
<1> QED BY <1>1, <1>2, <1>3, <1>4 DEF Work

LEMMA WorkModest == ASSUME BaseInv, Modest, NEW w \in Worker, Work(w), up' PROVE Modest'
<1>0. job \in [Worker -> Jobs] /\ Sound(job[w]) /\ ui \in UITypes
  BY DEF BaseInv, Control
<1>1. ~ui'.apply
  <2>1. ASSUME UNCHANGED ui \/ Finish(w) \/ ui' = [ui EXCEPT !.cancel = TRUE] PROVE ui'.apply = ui.apply
    <3>1. Finish(w) => \E a, b : ui' = [ui EXCEPT !.start = a, !.stop = b]
      BY Zenon DEF Finish
    <3> QED BY <1>0, <2>1, <3>1, ApplyStays, Zenon
  <2>2. ASSUME SearchDone(w) PROVE ui'.apply = ui.apply \/ ui'.apply = FALSE
    <3>1. ui' = [ui EXCEPT !.auto = FALSE, !.apply = IF ui.closing THEN @ ELSE FALSE,
                           !.cancel = @ \/ ~RT!Valid(tok[w]) \/ ~job[w].complete]
      BY <2>2, Zenon DEF SearchDone
    <3>2. ui'.apply = IF ui.closing THEN ui.apply ELSE FALSE
      BY <1>0, <3>1, ApplyStays, Zenon
    <3> QED BY <3>2
  <2> QED BY <2>1, <2>2, WorkFlagMoves DEF Modest
<1>2. job'[w].op # "switch"
  <2>1. CASE job[w].pc = "download"
    <3>1. ListsDone(w)
      <4>1. job[w].op = "lists"
        BY <1>0, <2>1 DEF Sound, Fits, Does, Entering, AtSearch, Finally, QuitStep
      <4> QED BY <2>1, OnlyDownloads
    <3>2. job' = [job EXCEPT ![w].op = "restart", ![w].pc = "enter"] \/ Finish(w)
      BY <3>1, Zenon DEF ListsDone
    <3> QED BY <1>0, <3>2, Restarts, Ceases, Zenon DEF Becomes
  <2>2. CASE job[w].pc = "s.done"
    <3>1. Searching(w)
      BY <1>0, <2>2 DEF Searching, Sound, Fits, Does, AtSearch, Entering, QuitStep
    <3>2. SearchDone(w)
      BY <1>0, <2>2, <3>1, SearchSteps
    <3>3. job' = [job EXCEPT ![w] = Idle]
      BY <3>2, Zenon DEF SearchDone, Modest
    <3> QED BY <1>0, <3>3, Ceases DEF Becomes
  <2> QED BY <1>0, <2>1, <2>2, WorkKeepsOp DEF Modest
<1> QED BY <1>0, <1>1, <1>2, WorkKeepsOp DEF Modest, Alone

(* The hypothesis, and what a click leaves under it: nobody switches, an error is forgotten only
   with a new request, and the program is left once. *)
Gentle == Ops \cap {"toggle", "die", "fix", "restoreLast"} = {} /\ Steady
Leaver(w) == /\ ~ui.closing /\ ui'.closing
             /\ job'[w].op = "quit" => job'[w].t = cur /\ (ui.auto => job'[w].pc = "q.join")
Gives(w) == /\ job[w].pc = "idle" /\ job'[w].pc # "idle"
            /\ args' = args /\ (ui'.apply => ui.apply) /\ cur' \in {cur, cur + 1} /\ (failed' = failed \/ cur' = cur + 1)
            /\ job'[w].op # "switch" /\ (Searching(w)' => job'[w].pc = "begin")
            /\ IF job'[w].op \in Quitting THEN Leaver(w) ELSE ui'.closing = ui.closing

LEMMA BeginsQuit ==
    ASSUME job \in [Worker -> Jobs], NEW w \in Worker, NEW op \in Operation, NEW pc \in PC, NEW t \in 0..MaxToken,
           job' = [job EXCEPT ![w] = [Idle EXCEPT !.op = op, !.pc = pc, !.t = t]]
    PROVE  job'[w].op = op /\ job'[w].pc = pc /\ job'[w].t = t
<1> DEFINE Is(j, a, b, c) == j.op = a /\ j.pc = b /\ j.t = c
<1>1. Is([Idle EXCEPT !.op = op, !.pc = pc, !.t = t], op, pc, t)
  BY IdleJob DEF IsIdle, Jobs
<1>2. job'[w] = [Idle EXCEPT !.op = op, !.pc = pc, !.t = t]
  OBVIOUS
<1>3. Is(job'[w], op, pc, t)
  <2> HIDE DEF Is
  <2> QED BY <1>1, <1>2, Zenon
<1> QED BY <1>3

LEMMA HandlerGives == ASSUME Gentle, BaseInv, NEW w \in Worker, Handler(w) PROVE Gives(w)
<1> USE DEF Click
<1>0. /\ job \in [Worker -> Jobs] /\ cur \in 0..MaxToken /\ ui \in UITypes /\ None \in Strategy \cup {None}
      /\ name \in Strategy \cup {None} /\ ui.resume \in Strategy \cup {None} /\ ui.closing \in BOOLEAN
  BY DEF BaseInv, Control, DataTypes, UITypes, P!IInv, P!TypeOK
<1>1. ASSUME NEW op \in Operation, NEW pc \in {"enter", "begin", "q.close", "download"}, NEW s \in Strategy \cup {None},
             Begin(w, op, pc, s)
      PROVE  job'[w].op = op /\ job'[w].pc = pc /\ job[w].pc = "idle" /\ job'[w].pc # "idle"
  <2>1. pc \in PC
    BY Names
  <2>2. Becomes(w, op, pc, "", s, 0)
    BY <1>0, <1>1, <2>1, Begins
  <2> QED BY <1>1, <2>2 DEF Becomes, Begin, Free
<1>2. ASSUME NEW d, RT!Request(w, d) PROVE cur' = cur + 1
  BY <1>2 DEF RT!Request, RT!Supersede
<1>3. FlagsKept => ui'.closing = ui.closing
  <2>1. FlagsKept => ui' \in UITypes /\ (ui'.closing <=> ui.closing)
    BY DEF FlagsKept, FlagsAre
  <2> QED BY <1>0, <2>1 DEF UITypes
<1>4. ASSUME NEW d, NEW op \in Operation \ (Quitting \cup {"switch"}), NEW pc \in {"enter", "begin"},
             NEW s \in Strategy \cup {None}, RT!Request(w, d), Begin(w, op, pc, s), args' = args, ui'.apply => ui.apply,
             ui'.closing = ui.closing, op = "search" => pc = "begin"
      PROVE  Gives(w)
  BY <1>0, <1>1, <1>2, <1>4 DEF Gives, Searching
<1>5. ~(QuitForUpdate(w) \/ \E b \in BOOLEAN : Quit(w, b)) => ui'.closing = ui.closing
  <2>1. CASE \E op \in {"stop", "stopAll"} : FlagsAre(ui', TRUE, TRUE, ui.closing)
    BY <1>0, <2>1 DEF FlagsAre, UITypes
  <2> QED BY <1>0, <1>3, <2>1, HandlerFlags
<1>6. ASSUME NEW s \in Strategy, Start(w, s) \/ Install(w, s) PROVE Gives(w)
  <2>1. /\ \/ RT!Request(w, "manual") /\ Begin(w, "start", "enter", s)
           \/ RT!Request(w, "service") /\ Begin(w, "install", "enter", s)
        /\ args' = args /\ (UNCHANGED ui \/ ui' = [ui EXCEPT !.start = TRUE])
    BY <1>6, Zenon DEF Start, StartWith, Install, app
  <2>2. ui'.apply = ui.apply
    BY <1>0, <2>1, ApplyStays, Zenon
  <2>3. UNCHANGED ui \/ FlagsKept
    BY <1>0, <2>1, Flagged, Zenon DEF FlagsKept
  <2> QED BY <1>3, <1>4, <2>1, <2>2, <2>3, Names DEF Quitting
<1>7. ASSUME NEW op \in {"stop", "stopAll"}, Stop(w, op) PROVE Gives(w)
  <2>1. RT!Request(w, "stopped") /\ Begin(w, op, "enter", None) /\ args' = args
        /\ ui' = [ui EXCEPT !.cancel = TRUE, !.apply = FALSE, !.stop = TRUE, !.nostart = TRUE]
    BY <1>7, Zenon DEF Stop
  <2>2. ui'.apply = FALSE
    BY <1>0, <2>1, ApplyStays, Zenon
  <2>3. FlagsAre(ui', TRUE, TRUE, ui.closing)
    BY <1>0, <2>1, Flagged, Zenon
  <2>4. ui'.closing = ui.closing
    BY <1>0, <2>3 DEF FlagsAre, UITypes
  <2> QED BY <1>0, <1>4, <2>1, <2>2, <2>4, Names DEF Quitting
<1>8. ASSUME Remove(w) \/ DiagRestart(w) \/ StartupRestore(w) \/ StartupResume(w) PROVE Gives(w)
  <2>1. /\ \/ RT!Request(w, "stopped") /\ Begin(w, "remove", "enter", None)
           \/ RT!Request(w, desired) /\ Begin(w, "restart", "enter", None)
           \/ RT!Request(w, "service") /\ Begin(w, "restore", "enter", None)
           \/ RT!Request(w, "manual") /\ Begin(w, "start", "enter", ui.resume)
        /\ args' = args
        /\ \/ UNCHANGED ui \/ ui' = [ui EXCEPT !.restore = FALSE] \/ ui' = [ui EXCEPT !.resume = None, !.start = TRUE]
    BY <1>8, Zenon DEF Remove, DiagRestart, StartupRestore, StartupResume, StartWith, app
  <2>2. ui'.apply = ui.apply
    BY <1>0, <2>1, ApplyStays, Zenon
  <2>3. UNCHANGED ui \/ FlagsKept
    BY <1>0, <2>1, Flagged, Zenon DEF FlagsKept
  <2> QED BY <1>0, <1>3, <1>4, <2>1, <2>2, <2>3, Names DEF Quitting
<1>9. ASSUME Lists(w) PROVE Gives(w)
  <2>1. RT!Capture(w) /\ Begin(w, "lists", "download", None) /\ UNCHANGED <<args, ui, failed>>
    BY <1>9, Zenon DEF Lists, app, past
  <2>2. cur' = cur
    BY <2>1 DEF RT!Capture
  <2> QED BY <1>0, <1>1, <2>1, <2>2, Names DEF Gives, Quitting, Searching
<1>10. ASSUME Search(w) PROVE Gives(w)
  <2>1. /\ RT!Request(w, desired) /\ Begin(w, "search", "begin", None) /\ args' = args
        /\ ui' = [ui EXCEPT !.auto = TRUE, !.cancel = FALSE]
    BY <1>10, Zenon DEF Search, BeginSearch
  <2>2. ui'.apply = ui.apply
    BY <1>0, <2>1, ApplyStays, Zenon
  <2>3. FlagsKept
    BY <1>0, <2>1, Flagged, Zenon DEF FlagsKept
  <2> QED BY <1>0, <1>3, <1>4, <2>1, <2>2, <2>3, Names DEF Quitting
<1>11. ASSUME NEW b \in BOOLEAN, Quit(w, b) PROVE Gives(w)
  <2>1. /\ ~ui.closing /\ args' = args /\ ui' = [ui EXCEPT !.cancel = TRUE, !.closing = TRUE]
        /\ RT!Announce("stopped") \/ UNCHANGED <<ctl, failed>>
    BY <1>11, Zenon DEF Quit, past
  <2>2. ui'.apply = ui.apply
    BY <1>0, <2>1, ApplyStays, Zenon
  <2>3. ui'.closing
    <3>1. FlagsAre(ui', ui.stop, ui.nostart, TRUE)
      BY <1>0, <2>1, Flagged, Zenon
    <3> QED BY <3>1 DEF FlagsAre
  <2>4. cur' = cur + 1 \/ (cur' = cur /\ failed' = failed)
    BY <2>1 DEF RT!Announce, RT!Supersede, ctl
  <2>5. PICK op \in {"quit", "quitStop"}, pc \in {"q.join", "q.close"} :
           /\ job' = [job EXCEPT ![w] = [Idle EXCEPT !.op = op, !.pc = pc, !.t = cur]]
           /\ ui.auto => pc = "q.join"
    BY <1>11, Zenon DEF Quit
  <2>6. /\ job'[w].op \in {"quit", "quitStop"} /\ job'[w].t = cur /\ job'[w].pc # "idle" /\ job[w].pc = "idle"
        /\ ui.auto => job'[w].pc = "q.join"
    <3>1. op \in Operation /\ pc \in PC
      BY Names
    <3>2. job' = [job EXCEPT ![w] = [Idle EXCEPT !.op = op, !.pc = pc, !.t = cur]]
      BY <2>5
    <3>3. cur \in 0..MaxToken /\ job \in [Worker -> Jobs] /\ op \in Operation /\ pc \in PC
      BY <1>0, <3>1
    <3>4. job'[w].op = op /\ job'[w].pc = pc /\ job'[w].t = cur
      BY <3>2, <3>3, BeginsQuit, ZenonT(60)
    <3>5. job[w].pc = "idle"
      BY <1>11, Zenon DEF Quit, Free
    <3> QED BY <2>5, <3>4, <3>5
  <2> QED BY <1>0, <2>1, <2>2, <2>3, <2>4, <2>6 DEF Gives, Leaver, Quitting, Searching
<1>12. ASSUME QuitForUpdate(w) PROVE Gives(w)
  <2>1. /\ ~ui.closing /\ UNCHANGED <<ctl, failed, args>> /\ ui' = [ui EXCEPT !.cancel = TRUE, !.closing = TRUE]
        /\ Begin(w, "update", "q.close", IF ProcAlive THEN name ELSE None)
    BY <1>12, Zenon DEF QuitForUpdate, past
  <2>2. ui'.apply = ui.apply
    BY <1>0, <2>1, ApplyStays, Zenon
  <2>3. ui'.closing
    <3>1. FlagsAre(ui', ui.stop, ui.nostart, TRUE)
      BY <1>0, <2>1, Flagged, Zenon
    <3> QED BY <3>1 DEF FlagsAre
  <2>4. job'[w].op = "update" /\ job'[w].pc # "idle" /\ job[w].pc = "idle"
    <3>1. (IF ProcAlive THEN name ELSE None) \in Strategy \cup {None}
      BY <1>0
    <3> QED BY <1>1, <2>1, <3>1, Names
  <2> QED BY <1>0, <2>1, <2>2, <2>3, <2>4 DEF Gives, Leaver, Quitting, ctl, Searching
<1>13. ~Toggle(w) /\ ~SimpleFix(w) /\ \A s \in Strategy : ~RestoreLast(w, s)
  BY DEF Toggle, SimpleFix, RestoreLast, Gentle
<1> QED BY <1>6, <1>7, <1>8, <1>9, <1>10, <1>11, <1>12, <1>13 DEF Handler

(* What the steps of a worker do to the engine that the program calls its own. *)
LEMMA ArgsHeld ==
    ASSUME NEW w \in Worker, Work(w), PlaceOf(job[w].pc) \notin Holding, up'
    PROVE  args' = args
<1> USE DEF At, app
<1>1. CASE \/ TakeToken(w) \/ Enter(w) \/ TurnAway(w) \/ Check(w) \/ StartTest(w) \/ Raise(w)
           \/ Persist(w) \/ Decide(w) \/ InstallLeave(w) \/ InstallEpilogue(w) \/ ListsDone(w) \/ Unmark(w)
           \/ SearchBegin(w) \/ SearchLook(w)
  BY <1>1, Zenon DEF TakeToken, Enter, TurnAway, Check, StartTest, Raise, Persist, Decide, InstallLeave,
     InstallEpilogue, ListsDone, Unmark, SearchBegin, SearchLook
<1>2. CASE \/ SearchContext(w) \/ SearchNext(w) \/ SearchExit(w) \/ SearchLock(w) \/ SearchUnmark(w)
           \/ SearchDone(w) \/ QuitJoin(w) \/ QuitClose(w) \/ QuitSignal(w) \/ QuitLock(w)
  BY <1>2, Zenon DEF SearchContext, SearchNext, SearchExit, SearchLock, SearchUnmark, SearchDone, QuitJoin, QuitClose,
     QuitSignal, QuitLock
<1>3. CASE \/ Spawn(w) \/ HaltLocal(w) \/ SvcOff(w) \/ SvcConfig(w) \/ SvcOn(w) \/ RemoveService(w) \/ StopService(w)
           \/ StopLocal(w) \/ SearchSvcOff(w) \/ SearchHalt(w) \/ SearchSpawn(w) \/ SearchProbe(w)
           \/ SearchFinally(w) \/ SearchRestore(w) \/ QuitStop(w) \/ Claim(w)
  <2>1. job[w].pc \in {"spawn", "halt", "svcOff", "config", "svcOn", "remove", "stopSvc", "stopLocal", "stopLocalErr",
                       "s.svcOff", "s.halt", "s.spawn", "s.probe", "s.fin", "s.restore", "q.stop", "claim"}
    BY <1>3, Zenon DEF Spawn, HaltLocal, SvcOff, SvcConfig, SvcOn, RemoveService, StopService, StopLocal, SearchSvcOff,
       SearchHalt, SearchSpawn, SearchProbe, SearchFinally, SearchRestore, QuitStop, Claim
  <2> QED BY <2>1 DEF PlaceOf, Outside, Holding
<1>4. CASE Exit(w)
  BY <1>4, Zenon DEF Exit, Gone
<1> QED BY <1>1, <1>2, <1>3, <1>4 DEF Work

Engined(w) ==
    \/ args' = args /\ proc' = proc /\ (ProcAlive' => ProcAlive /\ win'[proc] = win[proc])
    \/ proc' = None
    \/ job[w].pc = "claim" /\ UNCHANGED host /\ args' = job[w].s
    \/ /\ win'[proc'] = args'
       /\ Searching(w) \/ (job[w].pc = "spawn" /\ args' = IF job[w].op = "restart" THEN args ELSE job[w].s)

LEMMA Engines == ASSUME BaseInv, Modest, NEW w \in Worker, Work(w), up' PROVE Engined(w)
<1> USE DEF At, app
<1>0. /\ HostTypeOK /\ proc \in Pid \cup {None} /\ trial \in Pid \cup {None} /\ None \notin Pid /\ Sound(job[w])
      /\ job[w].op # "switch"
  BY HostAssumption DEF BaseInv, DataTypes, HostTypeOK, Control, Modest
<1>1. ASSUME UNCHANGED <<win, proc, args>> PROVE Engined(w)
  BY <1>1 DEF Engined, ProcAlive, Alive
<1>2. ASSUME args' = args, proc' = proc, win' \in {win, Ended(trial)} PROVE Engined(w)
  BY <1>0, <1>2 DEF Engined, ProcAlive, Alive, Ended, HostTypeOK
<1>3. ASSUME NEW s, NEW n, Spawned(s, n) PROVE win'[proc'] = args' /\ args' = s
  BY <1>0, <1>3, NewPidIsFresh DEF Spawned, HostTypeOK
<1>4. CASE \/ TakeToken(w) \/ Enter(w) \/ TurnAway(w) \/ Check(w) \/ StartTest(w) \/ Raise(w)
           \/ Persist(w) \/ Decide(w) \/ InstallLeave(w) \/ InstallEpilogue(w) \/ ListsDone(w) \/ Unmark(w)
           \/ SearchBegin(w) \/ SearchLook(w) \/ SvcOff(w) \/ SvcConfig(w) \/ RemoveService(w)
  BY <1>1, <1>4, Zenon DEF TakeToken, Enter, TurnAway, Check, StartTest, Raise, Persist, Decide, InstallLeave,
     InstallEpilogue, ListsDone, Unmark, SearchBegin, SearchLook, SvcOff, SvcConfig, RemoveService, host
<1>5. CASE \/ SearchContext(w) \/ SearchNext(w) \/ SearchExit(w) \/ SearchLock(w) \/ SearchUnmark(w) \/ SearchSvcOff(w)
           \/ SearchDone(w) \/ QuitJoin(w) \/ QuitClose(w) \/ QuitSignal(w) \/ QuitLock(w)
  BY <1>1, <1>5, Zenon DEF SearchContext, SearchNext, SearchExit, SearchLock, SearchUnmark, SearchSvcOff, SearchDone,
     QuitJoin, QuitClose, QuitSignal, QuitLock, host
<1>6. CASE SvcOn(w)
  <2>1. UNCHANGED <<win, proc, args>>
    BY <1>0, <1>6, Zenon DEF SvcOn
  <2> QED BY <1>1, <2>1
<1>7. CASE StopService(w) \/ SearchProbe(w) \/ SearchFinally(w)
  <2>1. args' = args /\ proc' = proc /\ (win' = Ended(trial) \/ win' = win)
    BY <1>7, Zenon DEF StopService, SearchProbe, SearchFinally
  <2> QED BY <1>2, <2>1
<1>8. CASE Claim(w)
  <2>1. job[w].pc = "claim" /\ UNCHANGED host /\ args' = job[w].s
    BY <1>8, Zenon DEF Claim
  <2> QED BY <2>1 DEF Engined
<1>9. CASE Spawn(w)
  <2>1. \/ Spawned(args, name) /\ job[w].op = "restart"
        \/ Spawned(job[w].s, job[w].s) /\ job[w].op # "restart"
        \/ UNCHANGED <<win, proc, args>>
    BY <1>9, Zenon DEF Spawn, host
  <2>2. job[w].pc = "spawn"
    BY <1>9, Zenon DEF Spawn
  <2> QED BY <1>1, <1>3, <2>1, <2>2 DEF Engined
<1>10. CASE HaltLocal(w) \/ StopLocal(w) \/ SearchHalt(w)
  <2>1. proc' = None \/ UNCHANGED <<win, proc, args>>
    BY <1>10, Zenon DEF HaltLocal, StopLocal, SearchHalt, host
  <2> QED BY <1>1, <2>1 DEF Engined
<1>11. CASE SearchSpawn(w)
  <2>1. /\ args' = args /\ proc' = proc
        /\ win' = win \/ \E s \in Strategy : Fresh # {} /\ win' = [win EXCEPT ![NewPid] = s]
    BY <1>11, Zenon DEF SearchSpawn
  <2> QED BY <1>0, <1>1, <2>1, NewPidIsFresh DEF Engined, ProcAlive, Alive, HostTypeOK
<1>12. CASE SearchRestore(w)
  <2>1. Spawned(job[w].orig, job[w].oname) \/ UNCHANGED <<win, proc, args>>
    BY <1>12, Zenon DEF SearchRestore, host
  <2>2. Searching(w)
    BY <1>0, <1>12 DEF SearchRestore, Searching, Sound, Fits, Does, Entering, AtSearch, AfterCheck, QuitStep
  <2> QED BY <1>1, <1>3, <2>1, <2>2 DEF Engined
<1>13. CASE QuitStop(w)
  <2>1. proc' = None \/ (args' = args /\ proc' = proc /\ win' \in {win, Ended(trial)})
    BY <1>13 DEF QuitStop
  <2> QED BY <1>2, <2>1 DEF Engined
<1>14. ~Exit(w)
  BY Zenon DEF Exit, Gone
<1> QED BY <1>4, <1>5, <1>6, <1>7, <1>8, <1>9, <1>10, <1>11, <1>12, <1>13, <1>14 DEF Work

(* The ways to the step that spawns: a check with the current token, and before it the
   claim of a start or the stop of the process that is replaced. *)
Nears(w) ==
    /\ job'[w].op = job[w].op /\ job'[w].s = job[w].s
    /\ \/ job[w].pc = "check" /\ RT!Valid(tok[w]) /\ job[w].k = "spawn" /\ UNCHANGED <<host, args>>
       \/ job[w].pc = "claim" /\ job'[w].pc = "check" /\ args' = job[w].s
       \/ job[w].pc = "halt" /\ job'[w].pc = "check"

LEMMA SpawnPaths ==
    ASSUME BaseInv, NEW w \in Worker, Work(w), up', ~Searching(w), Going(job'[w]) = "spawn"
    PROVE  Nears(w)
<1> USE DEF At, app
<1>0. job \in [Worker -> Jobs] /\ job[w] \in Jobs /\ Sound(job[w]) /\ job[w].op # "search"
  BY DEF BaseInv, Control, Searching
<1> DEFINE Far == {"enter", "test", "stopSvc", "halt", "remove", "decide", "svcOn", "s.look", "raise", "persist", "svcOff",
                   "config", "leave", "unmark", "epilogue", "stopLocal", "stopLocalErr", "claim",
                   "q.signal", "q.resignal", "q.lock", "q.join", "q.reclose", "q.stop", "q.exit"}
<1>1. Far \subseteq PC /\ "spawn" \notin Far /\ "check" \notin Far /\ "spawn" \in PC
  BY Names
<1>2. ASSUME NEW pc \in Far, Goto(w, pc) \/ CheckThen(w, pc) PROVE Going(job'[w]) # "spawn"
  <2>1. pc \in PC
    BY <1>1
  <2>2. Becomes(w, job[w].op, pc, job[w].k, job[w].s, job[w].n) \/ Becomes(w, job[w].op, "check", pc, job[w].s, job[w].n)
    BY <1>0, <1>2, <2>1, Goes, Zenon
  <2> QED BY <2>2 DEF Becomes, Going
<1>3. Finish(w) => Going(job'[w]) # "spawn"
  BY <1>0, Ceases DEF Becomes, Going
<1>4. job' = [job EXCEPT ![w].op = "restart", ![w].pc = "enter"] => Going(job'[w]) # "spawn"
  <2>1. job' = [job EXCEPT ![w].op = "restart", ![w].pc = "enter"]
            => Becomes(w, "restart", "enter", job[w].k, job[w].s, job[w].n)
    BY <1>0, Restarts, Zenon
  <2> QED BY <2>1 DEF Becomes, Going
<1> DEFINE Off == Finish(w) \/ (\E pc \in Far : Goto(w, pc) \/ CheckThen(w, pc))
                  \/ job' = [job EXCEPT ![w].op = "restart", ![w].pc = "enter"]
<1>5. ~Off
  BY <1>2, <1>3, <1>4
<1>6. ASSUME Enter(w) PROVE Off
  <2>1. job[w].op \in {"start", "stop", "stopAll", "install", "remove", "restart", "switch", "restore"}
    <3>1. job[w].pc = "enter"
      BY <1>6 DEF Enter
    <3> QED BY <1>0, <3>1 DEF Sound, Fits, Does, Entering, AtSearch, Finally, Quitting, QuitStep
  <2>2. First[job[w].op] \in Far
    <3>1. /\ First["start"] = "test" /\ First["stop"] = "stopSvc" /\ First["stopAll"] = "stopSvc"
          /\ First["install"] = "halt" /\ First["remove"] = "remove" /\ First["restart"] = "decide"
          /\ First["switch"] = "decide" /\ First["restore"] = "svcOn"
      BY DEF First
    <3> QED BY <2>1, <3>1
  <2>3. Goto(w, First[job[w].op])
    BY <1>6, Zenon DEF Enter
  <2> QED BY <2>2, <2>3
<1>7. ASSUME TakeToken(w) \/ Raise(w) \/ Persist(w) \/ Unmark(w) \/ InstallLeave(w) \/ InstallEpilogue(w) \/ RemoveService(w)
      PROVE  Off
  <2>1. Finish(w) \/ Goto(w, "enter") \/ Goto(w, "epilogue")
    BY <1>7, Zenon DEF TakeToken, Raise, Persist, Unmark, InstallLeave, InstallEpilogue, RemoveService, Ends, Errs
  <2> QED BY <2>1
<1>8. ASSUME StartTest(w) \/ Spawn(w) \/ StopService(w) \/ StopLocal(w) \/ SvcConfig(w) PROVE Off
  <2>1. \/ Finish(w) \/ Goto(w, "raise") \/ CheckThen(w, "claim") \/ Goto(w, "persist") \/ CheckThen(w, "persist")
        \/ Goto(w, "stopLocal") \/ Goto(w, "stopLocalErr") \/ CheckThen(w, "svcOn")
    BY <1>8, Zenon DEF StartTest, Spawn, StopService, StopLocal, SvcConfig, Ends, Errs
  <2> QED BY <2>1
<1>9. ASSUME Decide(w) \/ SvcOff(w) \/ SvcOn(w) \/ ListsDone(w) PROVE Off
  <2>1. \/ Finish(w) \/ Goto(w, "halt") \/ Goto(w, "svcOff") \/ CheckThen(w, "svcOff") \/ CheckThen(w, "svcOn")
        \/ CheckThen(w, "config") \/ CheckThen(w, "leave") \/ CheckThen(w, "unmark") \/ CheckThen(w, "persist")
        \/ job' = [job EXCEPT ![w].op = "restart", ![w].pc = "enter"]
    BY <1>9 DEF Decide, SvcOff, SvcOn, ListsDone, Ends, Errs
  <2> QED BY <2>1
<1>10. ASSUME QuitJoin(w) \/ QuitClose(w) \/ QuitSignal(w) \/ QuitLock(w) \/ QuitStop(w) PROVE Off
  <2>1. \/ Goto(w, "q.reclose") \/ Goto(w, "q.signal") \/ Goto(w, "q.resignal") \/ Goto(w, "q.lock") \/ Goto(w, "q.join")
        \/ Goto(w, "q.stop") \/ Goto(w, "q.exit")
    BY <1>10 DEF QuitJoin, QuitClose, QuitSignal, QuitLock, QuitStop
  <2> QED BY <2>1
<1>11. TurnAway(w) => Off
  BY <1>0, Zenon DEF TurnAway
<1>12. ~(\/ SearchBegin(w) \/ SearchLook(w) \/ SearchSvcOff(w) \/ SearchContext(w) \/ SearchHalt(w) \/ SearchNext(w)
         \/ SearchSpawn(w) \/ SearchProbe(w) \/ SearchExit(w) \/ SearchLock(w) \/ SearchFinally(w)
         \/ SearchRestore(w) \/ SearchUnmark(w) \/ SearchDone(w))
  <2>1. job[w].pc \notin {"begin"} \cup AtSearch \cup Finally
    BY <1>0 DEF Sound, Fits, Does, AtSearch, Finally, QuitStep, AfterCheck
  <2> QED BY <2>1 DEF AtSearch, Finally, SearchBegin, SearchLook, SearchSvcOff, SearchContext, SearchHalt, SearchNext,
       SearchSpawn, SearchProbe, SearchExit, SearchLock, SearchFinally, SearchRestore, SearchUnmark, SearchDone
<1>13. ~Exit(w)
  BY Zenon DEF Exit, Gone
<1> HIDE DEF Off
<1>14. CASE Check(w)
  <2>1. /\ job[w].pc = "check" /\ UNCHANGED <<host, args>>
        /\ Finish(w) \/ (RT!Valid(tok[w]) /\ Goto(w, job[w].k))
    BY <1>14, Zenon DEF Check, Ends
  <2>2. RT!Valid(tok[w]) /\ Goto(w, job[w].k)
    BY <1>3, <2>1
  <2>3. job[w].k \in PC /\ job[w].k # "check"
    BY <1>0, <2>1, Names DEF Sound, Fits, AfterCheck
  <2>4. Becomes(w, job[w].op, job[w].k, job[w].k, job[w].s, job[w].n)
    BY <1>0, <2>2, <2>3, Goes, Zenon
  <2> QED BY <2>1, <2>2, <2>3, <2>4 DEF Becomes, Going, Nears
<1>15. CASE Claim(w)
  <2>1. job[w].pc = "claim" /\ args' = job[w].s /\ CheckThen(w, "spawn")
    BY <1>15, Zenon DEF Claim
  <2>2. Becomes(w, job[w].op, "check", "spawn", job[w].s, job[w].n)
    BY <1>0, <1>1, <2>1, Goes, Zenon
  <2> QED BY <2>1, <2>2 DEF Becomes, Nears
<1>16. CASE HaltLocal(w)
  <2>1. job[w].pc = "halt" /\ (Finish(w) \/ CheckThen(w, "spawn") \/ CheckThen(w, "svcOff"))
    BY <1>16 DEF HaltLocal, Errs
  <2>2. CheckThen(w, "spawn")
    BY <1>2, <1>3, <2>1
  <2>3. Becomes(w, job[w].op, "check", "spawn", job[w].s, job[w].n)
    BY <1>0, <1>1, <2>2, Goes, Zenon
  <2> QED BY <2>1, <2>3 DEF Becomes, Nears
<1> QED BY <1>5, <1>6, <1>7, <1>8, <1>9, <1>10, <1>11, <1>12, <1>13, <1>14, <1>15, <1>16 DEF Work

(* Tokens only go up, and an exit keeps what it wrote down when it began. *)
LEMMA Advances ==
    ASSUME BaseInv, [Next]_vars, up
    PROVE  /\ CtlStep /\ cur' \in {cur, cur + 1} /\ cur \in Nat /\ \A v \in Worker : tok[v] \in 0..cur
<1>1. CtlStep
  <2>1. ~Boot
    BY Zenon DEF Boot
  <2>2. desired \in RT!Mode
    BY DEF BaseInv, P!IInv, P!TypeOK, P!Mode, RT!Mode
  <2>3. UNCHANGED vars => UNCHANGED ctl
    BY DEF vars
  <2> QED BY <2>1, <2>2, <2>3, NextProtocol DEF CtlStep
<1>2. ASSUME NEW w, RT!Step(w) PROVE cur' \in {cur, cur + 1}
  BY <1>2 DEF RT!Step, RT!Capture, RT!Rearm, RT!Drop, RT!Enter, RT!Refuse, RT!GiveUp, RT!Lock, RT!Admit, RT!Leave,
     RT!CloseFlag, RT!CloseSignal, RT!Request, RT!RequestIfCurrent, RT!SetDesired, RT!Supersede
<1>3. cur' \in {cur, cur + 1}
  BY <1>1, <1>2 DEF CtlStep, RT!Next, RT!Announce, RT!Supersede, ctl
<1> QED BY <1>1, <1>3 DEF BaseInv, P!IInv, P!TypeOK, P!TokenInv

LEMMA QuitterKeeps ==
    ASSUME BaseInv, NEW w \in Worker, Work(w), up', job[w].op \in Quitting
    PROVE  job'[w].op = job[w].op /\ job'[w].t = job[w].t
<1>0. job \in [Worker -> Jobs] /\ Sound(job[w])
  BY DEF BaseInv, Control
<1>1. job[w].pc \in QuitStep
  BY <1>0 DEF Sound, Fits, Does, Quitting, Entering, AfterCheck, QuitStep
<1>2. \E x : Goto(w, x)
  <2>1. ~Exit(w)
    BY Zenon DEF Exit, Gone
  <2>2. QuitJoin(w) \/ QuitClose(w) \/ QuitSignal(w) \/ QuitLock(w) \/ QuitStop(w) => \E x : Goto(w, x)
    BY Zenon DEF QuitJoin, QuitClose, QuitSignal, QuitLock, QuitStop
  <2> QED BY <1>1, <2>1, <2>2, StepsOf
<1> QED BY <1>0, <1>2, Moves, Zenon DEF Moved, Recalls

LEMMA Clicks ==
    ASSUME Gentle, BaseInv, NEW w \in Worker, Handler(w)
    PROVE  Gives(w) /\ Brings(w) /\ up /\ up' /\ UNCHANGED host
<1>1. Gives(w) /\ up /\ up' /\ UNCHANGED host
  BY HandlerGives, HandlerOpens
<1>2. Brings(w)
  BY <1>1, HandlerArms DEF Gives, Gentle
<1> QED BY <1>1, <1>2

(* A search turns to the engine only after it has written down what to put back. *)
LEMMA SearchEnters ==
    ASSUME BaseInv, NEW w \in Worker, Searching(w), Work(w), up', Searching(w)', job'[w].pc \in {"enter", "s.look"}
    PROVE  (job[w].pc = "begin" /\ SearchBegin(w)) \/ (job[w].pc = "enter" /\ Enter(w))
<1>0. job \in [Worker -> Jobs] /\ Sound(job[w]) /\ job[w].op = "search"
  BY DEF BaseInv, Control, Searching
<1>1. \A pc : Goto(w, pc) => job'[w].pc = pc
  BY <1>0, CutMoves, Zenon DEF Turned
<1>2. Tried(w) => job'[w].pc = "s.trial"
  <2>1. Tried(w) => Turned(w, "s.trial", job[w].cut)
    BY <1>0, CutMoves, Zenon
  <2> QED BY <2>1 DEF Turned
<1>3. /\ \A pc, a : job' = [job EXCEPT ![w].pc = pc, ![w].cut = a] => Turned(w, pc, a)
      /\ \A pc, a : job' = [job EXCEPT ![w].pc = pc, ![w].complete = a] => Turned(w, pc, job[w].cut)
      /\ \A pc, a, b : job' = [job EXCEPT ![w].pc = pc, ![w].svcWas = a, ![w].own = b] => Turned(w, pc, job[w].cut)
      /\ \A pc : Goto(w, pc) => Turned(w, pc, job[w].cut)
  BY <1>0, CutMoves, Zenon
<1> USE DEF Fails, RestoreFails
<1>4. TurnAway(w) => job'[w].pc = "s.lock"
  <2>1. TurnAway(w) => Goto(w, "s.lock")
    BY <1>0, Zenon DEF TurnAway
  <2> QED BY <1>1, <2>1
<1>5. SearchLook(w) => job'[w].pc \in {"s.exit", "s.svcOff", "s.context"}
  <2>1. SearchLook(w) => \/ Goto(w, "s.exit")
                         \/ job' = [job EXCEPT ![w].pc = IF SvcRunning THEN "s.svcOff" ELSE "s.context",
                                               ![w].svcWas = SvcRunning, ![w].own = ProcAlive]
    BY Zenon DEF SearchLook
  <2>2. SearchLook(w) => \/ Turned(w, "s.exit", job[w].cut)
                         \/ Turned(w, IF SvcRunning THEN "s.svcOff" ELSE "s.context", job[w].cut)
    BY <1>3, <2>1, Zenon
  <2> QED BY <2>2 DEF Turned
<1>6. SearchSvcOff(w) => job'[w].pc = "s.context" \/ job'[w].pc = "s.exit"
  BY <1>1, Zenon DEF SearchSvcOff
<1>7. SearchContext(w) => \E c : Turned(w, "s.halt", c) \/ Turned(w, "s.exit", c)
  BY <1>3, Zenon DEF SearchContext
<1>8. SearchHalt(w) => job'[w].pc = "s.trial" \/ job'[w].pc = "s.exit"
  BY <1>1, Zenon DEF SearchHalt
<1>9. SearchNext(w) => \E c : Turned(w, "s.spawn", c) \/ Turned(w, "s.exit", c)
  BY <1>3, Zenon DEF SearchNext
<1>10. SearchSpawn(w) \/ SearchProbe(w) => job'[w].pc = "s.probe" \/ job'[w].pc = "s.trial" \/ job'[w].pc = "s.exit"
  BY <1>1, <1>2, Zenon DEF SearchSpawn, SearchProbe
<1>11. SearchExit(w) \/ SearchLock(w) => job'[w].pc = "s.lock" \/ job'[w].pc = "s.fin"
  BY <1>1, Zenon DEF SearchExit, SearchLock
<1>12. SearchFinally(w) => \E c : Turned(w, "s.restore", c) \/ Turned(w, "s.done", c)
  BY <1>3, Zenon DEF SearchFinally
<1>13. SearchRestore(w) \/ SearchUnmark(w) => \E c : Turned(w, "s.unmark", c) \/ Turned(w, "s.done", c)
  BY <1>3, Zenon DEF SearchRestore, SearchUnmark
<1>14. ~SearchDone(w)
  BY DoneEnds DEF Searching
<1> QED BY <1>0, <1>4, <1>5, <1>6, <1>7, <1>8, <1>9, <1>10, <1>11, <1>12, <1>13, <1>14, SearchSteps DEF Turned

(* What the program calls its own is the process that runs its active strategy, and while a
   search is about to look, it is what the search has written down. *)
ArgsTrue == (ProcAlive => win[proc] = args) /\ (~up => proc = None)
Promised == \A v \in Worker : job[v].op = "start" /\ Going(job[v]) = "spawn" => job[v].s = args
Origin == \A w \in Worker : Searching(w) /\ job[w].pc \in {"enter", "s.look"} /\ tok[w] = cur =>
             /\ ProcAlive => win[proc] = job[w].orig
             /\ \A v \in Worker : job[v].pc = "spawn" => args = job[w].orig
Owned == ArgsTrue /\ Promised /\ Origin

LEMMA WorkOwned ==
    ASSUME Gentle, BaseInv, MeasureInv, Modest, Owned, NEW w \in Worker, Work(w), up' PROVE Owned'
<1>0. /\ job \in [Worker -> Jobs] /\ Sound(job[w]) /\ up /\ Alone(w) /\ Engined(w) /\ Arms(w) /\ Launch(w)
      /\ cur' \in {cur, cur + 1} /\ cur \in Nat /\ \A v \in Worker : tok[v] \in 0..cur
      /\ at[w] = PlaceOf(job[w].pc) /\ job[w].op # "switch"
      /\ \A v \in Worker : Searching(v)' => Searching(v)
      /\ job'[w].op \in {job[w].op, "none", "restart", "switch"}
  <2>1. up /\ Alone(w) /\ job'[w].op \in {job[w].op, "none", "restart", "switch"} /\ Arms(w)
    BY WorkKeepsOp, WorkArms DEF BaseInv, Control, MeasureInv, Measuring
  <2>2. \A v \in Worker : Searching(v)' => Searching(v)
    BY <2>1 DEF Searching, Alone
  <2> QED BY <2>1, <2>2, Engines, Advances DEF BaseInv, Control, MeasureInv, Measuring, Modest, Next
<1>1. job[w].pc = "claim" /\ UNCHANGED host => ~ProcAlive'
  BY <1>0 DEF Launch, Resting, Going, ProcAlive, Alive, host
<1>2. ArgsTrue'
  BY <1>0, <1>1 DEF Engined, Owned, ArgsTrue, ProcAlive, Alive
<1>3. ASSUME NEW v \in Worker \ {w}, Going(job[v]) = "spawn" PROVE UNCHANGED host /\ args' = args
  <2>1. PlaceOf(job[v].pc) \in Holding
    BY <1>3 DEF Going, PlaceOf, Outside, Holding
  <2>2. PlaceOf(job[w].pc) \notin Holding
    BY <1>0, <2>1, OneHolds
  <2> QED BY <2>2, HostHeld, ArgsHeld
<1>4. Promised'
  <2> SUFFICES ASSUME NEW v \in Worker, job'[v].op = "start", Going(job'[v]) = "spawn" PROVE job'[v].s = args'
    BY DEF Promised, Going
  <2>1. CASE v # w
    <3>1. job'[v] = job[v]
      BY <1>0, <2>1 DEF Alone
    <3> QED BY <1>3, <2>1, <3>1 DEF Owned, Promised
  <2>2. CASE v = w
    <3>1. job[w].op = "start" /\ ~Searching(w)
      BY <1>0, <2>2 DEF Searching
    <3>2. Nears(w)
      BY <2>2, <3>1, SpawnPaths
    <3>3. job[w].pc # "halt"
      BY <1>0, <3>1 DEF Sound, Fits, Does, AtSearch, Finally, QuitStep, Entering, Quitting
    <3>4. job[w].pc = "check" /\ job[w].k = "spawn" => job[w].s = args
      BY <3>1 DEF Owned, Promised, Going
    <3> QED BY <2>2, <3>2, <3>3, <3>4 DEF Nears
  <2> QED BY <2>1, <2>2
<1>5. Origin'
  <2> SUFFICES ASSUME NEW u \in Worker, Searching(u)', job'[u].pc \in {"enter", "s.look"}, tok'[u] = cur'
               PROVE  /\ ProcAlive' => win'[proc'] = job'[u].orig
                      /\ \A v \in Worker : job'[v].pc = "spawn" => args' = job'[u].orig
    BY DEF Origin
  <2>1. Searching(u) /\ tok[u] = cur /\ cur' = cur
    BY <1>0 DEF Arms, Searching
  <2>2. CASE u = w
    <3>1. CASE job[w].pc = "begin" /\ SearchBegin(w)
      <4>1. /\ job' = [job EXCEPT ![w].pc = "enter", ![w].orig = args, ![w].oname = name] /\ UNCHANGED <<host, args>>
        BY <3>1, Zenon DEF SearchBegin, app
      <4>2. job'[w].orig = args
        <5>1. Noted(job'[w], "enter", job[w].own, job[w].svcWas, args)
          BY <1>0, <2>1, <2>2, <4>1, Notes, Zenon
        <5> QED BY <5>1 DEF Noted
      <4> QED BY <2>2, <4>1, <4>2 DEF Owned, ArgsTrue, ProcAlive, Alive, host
    <3>2. CASE job[w].pc = "enter" /\ Enter(w)
      <4>1. UNCHANGED <<host, args>> /\ Goto(w, First[job[w].op])
        BY <3>2, Zenon DEF Enter, app
      <4>2. job'[w].orig = job[w].orig
        BY <1>0, <4>1, Moves, Zenon DEF Moved, Recalls
      <4>3. /\ ProcAlive => win[proc] = job[w].orig
            /\ \A v \in Worker : job[v].pc = "spawn" => args = job[w].orig
        BY <2>1, <2>2, <3>2 DEF Owned, Origin
      <4>4. \A v \in Worker : job'[v].pc = "spawn" => job[v].pc = "spawn"
        BY <1>0, <2>2 DEF Alone
      <4> QED BY <2>2, <4>1, <4>2, <4>3, <4>4 DEF ProcAlive, Alive, host
    <3> QED BY <2>1, <2>2, <3>1, <3>2, SearchEnters
  <2>3. CASE u # w
    <3>1. job'[u] = job[u] /\ ~Searching(w)
      BY <1>0, <2>1, <2>3 DEF Alone, MeasureInv, OneSearch
    <3>2. /\ ProcAlive => win[proc] = job[u].orig
          /\ \A v \in Worker : job[v].pc = "spawn" => args = job[u].orig
      BY <2>1, <3>1 DEF Owned, Origin
    <3>3. job'[w].pc # "spawn"
      <4> SUFFICES ASSUME job'[w].pc = "spawn" PROVE FALSE
        OBVIOUS
      <4>1. Nears(w)
        BY <3>1, SpawnPaths DEF Going
      <4>2. job[w].pc = "check" /\ RT!Valid(tok[w])
        BY <4>1 DEF Nears
      <4>3. Granted(w) /\ tok[w] = tok[u]
        BY <1>0, <2>1, <4>2 DEF Granted, RT!Valid, PlaceOf, Outside
      <4> QED BY <2>1, <2>3, <4>3 DEF MeasureInv, Apart
    <3>4. \A v \in Worker : job'[v].pc = "spawn" => args' = job[u].orig
      <4> SUFFICES ASSUME NEW v \in Worker, job'[v].pc = "spawn" PROVE args' = job[u].orig
        OBVIOUS
      <4>1. v # w /\ job[v].pc = "spawn"
        BY <1>0, <3>3 DEF Alone
      <4> QED BY <1>3, <3>2, <4>1 DEF Going
    <3>5. ProcAlive' => win'[proc'] = job[u].orig
      <4>1. CASE job[w].pc = "spawn" /\ win'[proc'] = args' /\ args' = IF job[w].op = "restart" THEN args ELSE job[w].s
        <5>1. job[w].op \in {"start", "restart"}
          BY <1>0, <4>1 DEF Sound, Fits, Does, AtSearch, Finally, QuitStep, Entering, Quitting
        <5>2. job[w].op = "start" => job[w].s = args
          BY <4>1 DEF Owned, Promised, Going
        <5> QED BY <3>2, <4>1, <5>1, <5>2
      <4> QED BY <1>0, <1>1, <3>1, <3>2, <4>1 DEF Engined, ProcAlive, Alive
    <3> QED BY <3>1, <3>4, <3>5
  <2> QED BY <2>2, <2>3
<1> QED BY <1>2, <1>4, <1>5 DEF Owned

LEMMA HandlerOwned ==
    ASSUME Gentle, BaseInv, Owned, NEW w \in Worker, Handler(w) PROVE Owned'
<1>0. Gives(w) /\ Brings(w) /\ up' /\ UNCHANGED host /\ cur \in Nat /\ \A v \in Worker : tok[v] \in 0..cur
  BY Clicks DEF BaseInv, P!IInv, P!TypeOK, P!TokenInv
<1>1. args' = args /\ (ProcAlive' <=> ProcAlive) /\ win' = win /\ proc' = proc
  BY <1>0 DEF Gives, host, ProcAlive, Alive
<1>2. Going(job'[w]) # "spawn" /\ \A v \in Worker : job'[v].pc = "spawn" => job[v].pc = "spawn"
  BY <1>0 DEF Brings, Opening, Going
<1>3. ArgsTrue' /\ Promised'
  BY <1>0, <1>1, <1>2 DEF Owned, ArgsTrue, Promised, Brings
<1>4. Origin'
  <2> SUFFICES ASSUME NEW u \in Worker, Searching(u)', job'[u].pc \in {"enter", "s.look"}, tok'[u] = cur'
               PROVE  /\ ProcAlive' => win'[proc'] = job'[u].orig
                      /\ \A v \in Worker : job'[v].pc = "spawn" => args' = job'[u].orig
    BY DEF Origin
  <2>1. u # w
    BY <1>0 DEF Gives
  <2>2. Searching(u) /\ job'[u] = job[u] /\ tok[u] = cur
    BY <1>0, <2>1 DEF Brings, Searching, Gives
  <2> QED BY <1>1, <1>2, <2>2 DEF Owned, Origin
<1> QED BY <1>3, <1>4 DEF Owned

(* An exit: one at most, of which every search that was there when it began has been waited
   for before the controller is closed. *)
OneQuit == /\ closed => ui.closing
           /\ \A v, w \in Worker : job[w].op \in Quitting => ui.closing /\ (job[v].op \in Quitting => v = w)
Timely == \A v \in Worker : job[v].op = "quit" => job[v].t <= cur
Order == \A v, w \in Worker : job[v].op = "quit" /\ Searching(w) /\ tok[w] <= job[v].t /\ job[w].pc # "s.done"
                                 => job[v].pc = "q.join" /\ ~closed
Exits == OneQuit /\ Timely /\ Order

LEMMA Dated == ASSUME NEW j \in Jobs PROVE j.t \in Nat
<1>1. j.t \in 0..MaxToken
  BY Zenon DEF Jobs
<1> QED BY <1>1, ControllerAssumption

LEMMA WorkExits ==
    ASSUME BaseInv, MeasureInv, Signals, Exits, NEW w \in Worker, Work(w), up'
    PROVE  /\ Exits'
           /\ \A v \in Worker : job'[v].op \in Quitting => job[v].op = job'[v].op /\ job[v].t = job'[v].t
<1>0. /\ job \in [Worker -> Jobs] /\ job' \in [Worker -> Jobs] /\ Sound(job[w]) /\ up /\ Alone(w) /\ Arms(w)
      /\ CtlStep /\ cur' \in {cur, cur + 1} /\ cur \in Nat /\ (\A v \in Worker : tok[v] \in 0..cur) /\ Control'
      /\ job'[w].op \in {job[w].op, "none", "restart", "switch"}
  <2>1. up /\ Alone(w) /\ job'[w].op \in {job[w].op, "none", "restart", "switch"} /\ Arms(w)
    BY WorkKeepsOp, WorkArms DEF BaseInv, Control, MeasureInv, Measuring
  <2>2. Control'
    BY BaseStep DEF BaseInv, Next
  <2> QED BY <2>1, <2>2, Advances DEF BaseInv, Control, Next
<1>1. \A v \in Worker : job'[v].op \in Quitting => job[v].op = job'[v].op /\ job[v].t = job'[v].t
  <2>1. job'[w].op \in Quitting => job[w].op = job'[w].op
    BY <1>0 DEF Quitting
  <2> QED BY <1>0, <2>1, QuitterKeeps DEF Alone
<1>2. ui.closing => ui'.closing
  BY WorkFlags DEF FlagsKept, FlagsOver, FlagsAre, BaseInv
<1>3. closed' => closed \/ \E u \in Worker : job'[u].pc \in {"q.signal", "q.resignal"} /\ job'[u].op \in Quitting
  <2>1. closed' => closed \/ \E u \in Worker : at'[u] = "closing"
    BY <1>0, CtlSignals DEF BaseInv
  <2>2. ASSUME NEW u \in Worker, at'[u] = "closing"
        PROVE  job'[u].pc \in {"q.signal", "q.resignal"} /\ job'[u].op \in Quitting
    <3>1. PlaceOf(job'[u].pc) = "closing" /\ Sound(job'[u])
      BY <1>0, <2>2 DEF Control
    <3>2. job'[u].pc \in {"q.signal", "q.resignal"}
      BY <3>1 DEF PlaceOf, Outside
    <3> QED BY <3>1, <3>2 DEF Sound, Fits, Does, AtSearch, Finally, Entering, AfterCheck
  <2> QED BY <2>1, <2>2
<1>4. OneQuit'
  BY <1>1, <1>2, <1>3 DEF Exits, OneQuit
<1>5. Timely'
  <2> SUFFICES ASSUME NEW v \in Worker, job'[v].op = "quit" PROVE job'[v].t <= cur'
    BY DEF Timely
  <2>1. job[v].op = "quit" /\ job[v].t = job'[v].t
    BY <1>1 DEF Quitting
  <2>2. job[v].t \in Nat
    <3>1. job[v] \in Jobs
      BY <1>0
    <3> QED BY <3>1, Dated
  <2> QED BY <1>0, <2>1, <2>2 DEF Exits, Timely
<1>6. Order'
  <2> SUFFICES ASSUME NEW v \in Worker, NEW u \in Worker, job'[v].op = "quit", Searching(u)', tok'[u] <= job'[v].t,
                      job'[u].pc # "s.done"
               PROVE  job'[v].pc = "q.join" /\ ~closed'
    BY DEF Order
  <2>1. Searching(u) /\ tok'[u] = tok[u]
    BY <1>0 DEF Searching, Alone, Arms
  <2>2. job[v].op = "quit" /\ job[v].t = job'[v].t
    BY <1>1 DEF Quitting
  <2>3. job[u].pc # "s.done"
    <3>1. u = w => ~SearchDone(w)
      BY DoneEnds DEF Searching
    <3>2. u = w => job[u].pc # "s.done"
      BY <1>0, <2>1, <3>1, SearchSteps
    <3> QED BY <1>0, <3>2 DEF Alone
  <2>4. job[v].pc = "q.join" /\ ~closed
    BY <2>1, <2>2, <2>3 DEF Exits, Order
  <2>5. v # w
    <3> SUFFICES ASSUME v = w PROVE FALSE
      OBVIOUS
    <3>1. QuitJoin(w) \/ QuitClose(w) \/ QuitSignal(w) \/ QuitLock(w) \/ QuitStop(w) \/ Exit(w)
      BY <2>4, StepsOf DEF QuitStep
    <3>2. QuitJoin(w)
      BY <2>4, <3>1 DEF At, QuitClose, QuitSignal, QuitLock, QuitStop, Exit
    <3> QED BY <2>1, <2>3, <3>2 DEF QuitJoin, Searching
  <2>6. job'[v].pc = "q.join"
    BY <1>0, <2>4, <2>5 DEF Alone
  <2> QED BY <1>3, <1>4, <2>4, <2>6 DEF OneQuit, Quitting
<1> QED BY <1>1, <1>4, <1>5, <1>6 DEF Exits

LEMMA HandlerExits ==
    ASSUME Gentle, BaseInv, MeasureInv, Exits, NEW w \in Worker, Handler(w) PROVE Exits'
<1>0. /\ Gives(w) /\ Brings(w) /\ cur \in Nat /\ cur' \in {cur, cur + 1} /\ \A v \in Worker : job[v].t \in Nat
      /\ ui.closing => ui'.closing
  <2>1. Gives(w) /\ Brings(w) /\ cur \in Nat /\ \A v \in Worker : job[v] \in Jobs
    BY Clicks DEF BaseInv, Control, P!IInv, P!TypeOK
  <2>2. \A v \in Worker : job[v].t \in Nat
    BY <2>1, Dated
  <2> QED BY <2>1, <2>2 DEF Gives, Leaver
<1>1. OneQuit'
  BY <1>0 DEF Exits, OneQuit, Brings, Gives, Leaver
<1>2. Timely'
  <2> SUFFICES ASSUME NEW v \in Worker, job'[v].op = "quit" PROVE job'[v].t <= cur'
    BY DEF Timely
  <2>1. CASE v = w
    BY <1>0, <2>1 DEF Gives, Leaver, Quitting
  <2>2. CASE v # w
    BY <1>0, <2>2 DEF Brings, Exits, Timely
  <2> QED BY <2>1, <2>2
<1>3. Order'
  <2> SUFFICES ASSUME NEW v \in Worker, NEW u \in Worker, job'[v].op = "quit", Searching(u)', tok'[u] <= job'[v].t,
                      job'[u].pc # "s.done"
               PROVE  job'[v].pc = "q.join" /\ ~closed'
    BY DEF Order
  <2>1. CASE v = w
    <3>1. u # w
      BY <2>1 DEF Searching
    <3>2. ui.auto
      BY <1>0, <3>1 DEF Brings, Searching, MeasureInv, OneSearch
    <3>3. Leaver(w)
      BY <1>0, <2>1 DEF Gives, Quitting
    <3> QED BY <1>0, <2>1, <3>2, <3>3 DEF Leaver, Exits, OneQuit, Brings
  <2>2. CASE v # w
    <3>1. job'[v] = job[v] /\ job[v].t <= cur
      BY <1>0, <2>2 DEF Brings, Exits, Timely
    <3>2. u # w
      BY <1>0, <3>1 DEF Brings, Searching
    <3> QED BY <1>0, <3>1, <3>2 DEF Brings, Searching, Exits, Order
  <2> QED BY <2>1, <2>2
<1> QED BY <1>1, <1>2, <1>3 DEF Exits

(* What happens without the workers and the clicks. *)
LEMMA OtherSteps ==
    ASSUME "die" \notin Ops, BaseInv, SearchStop \/ AdoptService \/ Die \/ Foreign \/ UNCHANGED vars
    PROVE  /\ UNCHANGED <<job, tok, at, closed, args, up, win, proc, trial, svc, failed>>
           /\ ui'.closing = ui.closing /\ ui'.apply = ui.apply
           /\ cur' = cur \/ cur' = cur + 1
<1>0. ui \in UITypes /\ ~Die
  BY DEF BaseInv, Die
<1>1. /\ UNCHANGED <<job, args, up, win, proc, trial, svc, failed>> /\ (UNCHANGED ui \/ ui' = [ui EXCEPT !.cancel = TRUE])
      /\ UNCHANGED ctl \/ RT!Announce("service")
  BY <1>0, Zenon DEF SearchStop, AdoptService, Foreign, vars, past, app, host
<1>2. UNCHANGED <<tok, at, closed>> /\ (cur' = cur \/ cur' = cur + 1)
  BY <1>1 DEF RT!Announce, RT!Supersede, ctl
<1>3. ui' = [ui EXCEPT !.cancel = TRUE] => ui'.apply = ui.apply
  BY <1>0, ApplyStays, Zenon
<1>4. ui' = [ui EXCEPT !.cancel = TRUE] => ui'.closing = ui.closing
  BY <1>0 DEF UITypes
<1> QED BY <1>1, <1>2, <1>3, <1>4

(* What a search that nobody superseded, and that has met no error, has kept and done. *)
Awaited(w) == job[w].pc = "s.done" /\ \E v \in Worker : job[v].op = "quit" /\ tok[w] <= job[v].t
Cutting == {"s.halt", "s.trial", "s.spawn", "s.probe", "s.exit", "s.lock", "s.fin", "s.restore"}
Faithful(w) ==
    /\ job[w].pc \in {"s.svcOff", "s.context"} \cup Cutting => (job[w].own => job[w].orig # None)
    /\ job[w].pc \in Cutting => job[w].cut
    /\ job[w].pc = "s.unmark" => job[w].svcWas /\ SvcRunning
    /\ job[w].pc = "s.done" => Restored(w)
    /\ job[w].pc \in Finally => NobodyInside
Undisturbed(w) == Searching(w) /\ tok[w] = cur /\ ~failed /\ (closed => Awaited(w))
KeepInv == Modest /\ Owned /\ Exits /\ \A w \in Worker : Undisturbed(w) => Faithful(w)

(* It was so before the step: tokens and errors are not taken back, and an exit that closes the
   controller has waited for the search. *)
LEMMA UndisturbedWas ==
    ASSUME BaseInv, MeasureInv, Signals, Exits, NEW w \in Worker, Work(w), up', NEW u \in Worker, Undisturbed(u)'
    PROVE  Undisturbed(u) /\ tok'[u] = tok[u] /\ cur' = cur
<1>0. /\ up /\ Alone(w) /\ Arms(w) /\ CtlStep /\ cur' \in {cur, cur + 1} /\ cur \in Nat
      /\ (\A v \in Worker : tok[v] \in 0..cur) /\ job'[w].op \in {job[w].op, "none", "restart", "switch"}
  <2>1. up /\ Alone(w) /\ job'[w].op \in {job[w].op, "none", "restart", "switch"} /\ Arms(w)
    BY WorkKeepsOp, WorkArms DEF BaseInv, Control, MeasureInv, Measuring
  <2> QED BY <2>1, Advances DEF Next
<1>1. Searching(u) /\ tok'[u] = tok[u]
  BY <1>0 DEF Undisturbed, Searching, Alone, Arms
<1>2. tok[u] = cur /\ cur' = cur
  BY <1>0, <1>1 DEF Undisturbed
<1>3. ~failed
  BY FailuresStay DEF Undisturbed
<1>4. ASSUME closed PROVE Awaited(u)
  <2>1. closed'
    BY <1>0, <1>4, ClosedStays
  <2>2. Awaited(u)'
    BY <2>1 DEF Undisturbed
  <2>3. PICK v \in Worker : job'[v].op = "quit" /\ tok'[u] <= job'[v].t
    BY <2>2 DEF Awaited
  <2>4. job[v].op = "quit" /\ tok[u] <= job[v].t
    BY <1>1, <2>3, WorkExits DEF Quitting
  <2>5. job[u].pc = "s.done"
    BY <1>1, <1>4, <2>4 DEF Exits, Order
  <2> QED BY <2>4, <2>5 DEF Awaited
<1> QED BY <1>1, <1>2, <1>3, <1>4 DEF Undisturbed

LEMMA SearchFaithful ==
    ASSUME Gentle, BaseInv, MeasureInv, Signals, Owned, NEW w \in Worker, Work(w), up', Undisturbed(w), Undisturbed(w)',
           Faithful(w)
    PROVE  Faithful(w)'
<1>0. /\ job \in [Worker -> Jobs] /\ job[w] \in Jobs /\ Sound(job[w]) /\ HostTypeOK /\ up /\ Arms(w) /\ Control'
      /\ Searching(w) /\ job[w].op = "search" /\ ~failed' /\ at[w] = PlaceOf(job[w].pc) /\ None \notin Pid
      /\ at'[w] = PlaceOf(job'[w].pc) /\ \A v \in Worker : at[v] = PlaceOf(job[v].pc)
  <2>1. up /\ Arms(w)
    BY WorkKeepsOp, WorkArms DEF BaseInv, Control, MeasureInv, Measuring
  <2>2. Control'
    BY BaseStep DEF BaseInv, Next
  <2> QED BY <2>1, <2>2, HostAssumption DEF BaseInv, Control, DataTypes, Undisturbed, Searching
<1>1. job[w].pc # "s.done" => RT!Valid(tok[w])
  BY DEF Undisturbed, Awaited, Signals, RT!Valid
<1> DEFINE Same(pc) == Turned(w, pc, job[w].cut) /\ Recalls(job'[w], job[w])
<1>2. /\ \A pc : Goto(w, pc) => Turned(w, pc, job[w].cut)
      /\ Tried(w) => Turned(w, "s.trial", job[w].cut)
      /\ \A pc, a : job' = [job EXCEPT ![w].pc = pc, ![w].complete = a] => Turned(w, pc, job[w].cut)
      /\ \A pc, a : job' = [job EXCEPT ![w].pc = pc, ![w].cut = a] => Turned(w, pc, a)
  BY <1>0, CutMoves, Zenon
<1>3. /\ \A pc : Goto(w, pc) => Moved(w, pc, job[w].k)
      /\ Tried(w) => Moved(w, "s.trial", job[w].k)
      /\ \A pc, a : job' = [job EXCEPT ![w].pc = pc, ![w].complete = a] => Moved(w, pc, job[w].k)
      /\ \A pc, a : job' = [job EXCEPT ![w].pc = pc, ![w].cut = a] => Moved(w, pc, job[w].k)
  BY <1>0, Moves, Zenon
<1>4. \A pc : Moved(w, pc, job[w].k) => Recalls(job'[w], job[w])
  BY DEF Moved
<1>5. /\ \A pc : Goto(w, pc) => Same(pc)
      /\ Tried(w) => Same("s.trial")
      /\ \A pc, a : job' = [job EXCEPT ![w].pc = pc, ![w].complete = a] => Same(pc)
      /\ \A pc, a : job' = [job EXCEPT ![w].pc = pc, ![w].cut = a] => Turned(w, pc, a) /\ Recalls(job'[w], job[w])
  BY <1>2, <1>3, <1>4, Zenon
<1> HIDE DEF Same
<1>6. ASSUME at'[w] # "inside", NobodyInside \/ job[w].pc = "s.exit" PROVE NobodyInside'
  <2>1. PlaceOf("s.exit") = "inside"
    BY DEF PlaceOf, Outside
  <2>2. \A v \in Worker \ {w} : at[v] # "inside"
    BY <1>0, <1>6, <2>1, OneHolds DEF NobodyInside, Holding
  <2> QED BY <1>0, <1>6, <2>2 DEF NobodyInside, Arms
<1>7. \A pc \in Finally : PlaceOf(pc) # "inside"
  BY DEF Finally, PlaceOf, Outside
<1> USE DEF At, Fails, RestoreFails, Reports
<1>8. CASE job[w].pc = "begin" /\ SearchBegin(w)
  <2>1. Turned(w, "enter", job[w].cut)
    BY <1>0, <1>8, CutMoves, Zenon DEF SearchBegin
  <2> QED BY <2>1 DEF Turned, Faithful, Cutting, Finally
<1>9. CASE job[w].pc = "enter" /\ (Enter(w) \/ TurnAway(w))
  <2>1. ~TurnAway(w)
    <3>1. TurnAway(w) => RT!Refuse(w)
      BY <1>0 DEF TurnAway
    <3> QED BY <1>1, <1>9, <3>1 DEF RT!Refuse, RT!GiveUp
  <2>2. Goto(w, First[job[w].op]) /\ First["search"] = "s.look"
    BY <1>9, <2>1 DEF Enter, First
  <2>3. Same("s.look")
    BY <1>0, <1>5, <2>2
  <2> QED BY <2>3 DEF Same, Turned, Faithful, Cutting, Finally
<1>10. CASE job[w].pc = "s.look" /\ SearchLook(w)
  <2>1. job' = [job EXCEPT ![w].pc = IF SvcRunning THEN "s.svcOff" ELSE "s.context", ![w].svcWas = SvcRunning,
                           ![w].own = ProcAlive]
    BY <1>0, <1>10, Zenon DEF SearchLook
  <2>2. Noted(job'[w], IF SvcRunning THEN "s.svcOff" ELSE "s.context", ProcAlive, SvcRunning, job[w].orig)
    BY <1>0, <2>1, Notes, Zenon
  <2>3. ProcAlive => job[w].orig # None
    BY <1>10 DEF Undisturbed, Owned, Origin, ProcAlive, Alive
  <2> QED BY <2>2, <2>3 DEF Noted, Faithful, Cutting, Finally
<1>11. CASE job[w].pc = "s.svcOff" /\ SearchSvcOff(w)
  <2>1. Same("s.context")
    BY <1>0, <1>5, <1>11, Zenon DEF SearchSvcOff
  <2> QED BY <1>11, <2>1 DEF Same, Turned, Recalls, Faithful, Cutting, Finally
<1>12. CASE job[w].pc = "s.context" /\ SearchContext(w)
  <2>1. Turned(w, "s.halt", TRUE) /\ Recalls(job'[w], job[w])
    BY <1>0, <1>5, <1>12, Zenon DEF SearchContext
  <2> QED BY <1>12, <2>1 DEF Turned, Recalls, Faithful, Cutting, Finally
<1>13. CASE \/ job[w].pc = "s.halt" /\ SearchHalt(w)
            \/ job[w].pc = "s.trial" /\ SearchNext(w)
            \/ job[w].pc = "s.spawn" /\ SearchSpawn(w)
            \/ job[w].pc = "s.probe" /\ SearchProbe(w)
  <2>1. Same("s.trial") \/ Same("s.exit") \/ Same("s.spawn") \/ Same("s.probe")
    BY <1>0, <1>5, <1>13, Zenon DEF SearchHalt, SearchNext, SearchSpawn, SearchProbe
  <2> QED BY <1>13, <2>1 DEF Same, Turned, Recalls, Faithful, Cutting, Finally
<1>14. CASE (job[w].pc = "s.exit" /\ SearchExit(w)) \/ (job[w].pc = "s.lock" /\ SearchLock(w))
  <2>1. Same("s.lock") \/ Same("s.fin")
    BY <1>5, <1>14, Zenon DEF SearchExit, SearchLock
  <2>2. NobodyInside'
    BY <1>0, <1>6, <1>7, <1>14, <2>1 DEF Same, Turned, Finally, Faithful
  <2> QED BY <1>14, <2>1, <2>2 DEF Same, Turned, Recalls, Faithful, Cutting, Finally
<1>15. CASE job[w].pc = "s.fin" /\ SearchFinally(w)
  <2>1. Same("s.restore")
    BY <1>0, <1>1, <1>5, <1>15, Zenon DEF SearchFinally
  <2>2. NobodyInside'
    BY <1>0, <1>6, <1>7, <1>15, <2>1 DEF Same, Turned, Finally, Faithful
  <2> QED BY <1>15, <2>1, <2>2 DEF Same, Turned, Recalls, Faithful, Cutting, Finally
<1>16. CASE job[w].pc = "s.restore" /\ SearchRestore(w)
  <2>1. job[w].cut /\ (job[w].own => job[w].orig # None)
    BY <1>16 DEF Faithful, Cutting
  <2>2. \/ job[w].svcWas /\ SvcStarts /\ Goto(w, "s.unmark")
        \/ ~job[w].svcWas /\ Spawned(job[w].orig, job[w].oname) /\ job[w].orig # None /\ Goto(w, "s.done")
        \/ ~job[w].svcWas /\ ~job[w].own /\ Goto(w, "s.done")
    BY <1>0, <1>16, <2>1 DEF SearchRestore
  <2>3. Same("s.unmark") \/ Same("s.done")
    BY <1>5, <2>2
  <2>4. NobodyInside'
    BY <1>0, <1>6, <1>7, <1>16, <2>3 DEF Same, Turned, Finally, Faithful
  <2>5. CASE job[w].svcWas /\ SvcStarts /\ Goto(w, "s.unmark")
    <3>1. SvcRunning' /\ Same("s.unmark")
      BY <1>5, <2>5 DEF SvcStarts, SvcRunning
    <3> QED BY <2>4, <2>5, <3>1 DEF Same, Turned, Recalls, Faithful, Cutting, Finally
  <2>6. CASE ~job[w].svcWas /\ Spawned(job[w].orig, job[w].oname) /\ job[w].orig # None /\ Goto(w, "s.done")
    <3>1. ProcAlive' /\ win'[proc'] = job[w].orig /\ Same("s.done")
      BY <1>0, <1>5, <2>6, NewPidIsFresh DEF Spawned, ProcAlive, Alive, HostTypeOK
    <3> QED BY <2>4, <2>6, <3>1 DEF Same, Turned, Recalls, Faithful, Cutting, Finally, Restored
  <2>7. CASE ~job[w].svcWas /\ ~job[w].own /\ Goto(w, "s.done")
    <3>1. Same("s.done")
      BY <1>5, <2>7
    <3> QED BY <2>4, <2>7, <3>1 DEF Same, Turned, Recalls, Faithful, Cutting, Finally, Restored
  <2> QED BY <2>2, <2>5, <2>6, <2>7
<1>17. CASE job[w].pc = "s.unmark" /\ SearchUnmark(w)
  <2>1. Same("s.done") /\ UNCHANGED host
    BY <1>5, <1>17, Zenon DEF SearchUnmark
  <2>2. NobodyInside'
    BY <1>0, <1>6, <1>7, <1>17, <2>1 DEF Same, Turned, Finally, Faithful
  <2>3. job[w].svcWas /\ SvcRunning'
    BY <1>17, <2>1 DEF Faithful, SvcRunning, host
  <2> QED BY <2>1, <2>2, <2>3 DEF Same, Turned, Recalls, Faithful, Cutting, Finally, Restored
<1>18. ~SearchDone(w)
  BY DoneEnds DEF Undisturbed, Searching
<1>19. \/ job[w].pc = "begin" /\ SearchBegin(w)
       \/ job[w].pc = "enter" /\ (Enter(w) \/ TurnAway(w))
       \/ job[w].pc = "s.look" /\ SearchLook(w)
       \/ job[w].pc = "s.svcOff" /\ SearchSvcOff(w)
       \/ job[w].pc = "s.context" /\ SearchContext(w)
       \/ job[w].pc = "s.halt" /\ SearchHalt(w)
       \/ job[w].pc = "s.trial" /\ SearchNext(w)
       \/ job[w].pc = "s.spawn" /\ SearchSpawn(w)
       \/ job[w].pc = "s.probe" /\ SearchProbe(w)
       \/ job[w].pc = "s.exit" /\ SearchExit(w)
       \/ job[w].pc = "s.lock" /\ SearchLock(w)
       \/ job[w].pc = "s.fin" /\ SearchFinally(w)
       \/ job[w].pc = "s.restore" /\ SearchRestore(w)
       \/ job[w].pc = "s.unmark" /\ SearchUnmark(w)
       \/ job[w].pc = "s.done" /\ SearchDone(w)
  BY <1>0, SearchSteps, Zenon
<1> QED BY <1>8, <1>9, <1>10, <1>11, <1>12, <1>13, <1>14, <1>15, <1>16, <1>17, <1>18, <1>19, Zenon

(* A step of w as a search of another worker sees it: whoever comes into the controller has
   another token, and after its last step only the exit that has waited for it still acts. *)
LEMMA OthersFaithful ==
    ASSUME Gentle, BaseInv, MeasureInv, Exits, NEW w \in Worker, Work(w), up', NEW u \in Worker \ {w}, ~failed',
           Undisturbed(u), Faithful(u)
    PROVE  Faithful(u)'
<1>0. /\ up /\ Alone(w) /\ Arms(w) /\ job'[u] = job[u] /\ HostTypeOK /\ Sound(job[w]) /\ None \notin Pid
      /\ (\A v \in Worker : at[v] = PlaceOf(job[v].pc)) /\ Searching(u) /\ tok[u] = cur /\ Parted(w)
  <2>1. up /\ Alone(w) /\ Arms(w)
    BY WorkKeepsOp, WorkArms DEF BaseInv, Control, MeasureInv, Measuring
  <2> QED BY <2>1, HostAssumption DEF BaseInv, Control, DataTypes, Undisturbed, MeasureInv, Measuring, Alone
<1>1. job[u].pc \in Finally => NobodyInside'
  <2> SUFFICES ASSUME job[u].pc \in Finally, NEW v \in Worker, at'[v] = "inside" PROVE FALSE
    BY DEF NobodyInside
  <2>1. at[v] # "inside"
    BY DEF Faithful, NobodyInside
  <2>2. v = w /\ at[w] = "armed" /\ RT!Valid(tok[w])
    BY <1>0, <2>1 DEF Arms
  <2>3. tok[w] # tok[u]
    BY <1>0, <2>2 DEF MeasureInv, Apart, Granted
  <2> QED BY <1>0, <2>2, <2>3 DEF RT!Valid
<1>2. job[u].pc = "s.unmark" => job[u].svcWas /\ SvcRunning'
  <2> SUFFICES ASSUME job[u].pc = "s.unmark" PROVE job[u].svcWas /\ SvcRunning'
    OBVIOUS
  <2>1. PlaceOf("s.unmark") \in Holding
    BY DEF PlaceOf, Outside, Holding
  <2>2. UNCHANGED host
    BY <1>0, <2>1, OneHolds, HostHeld
  <2> QED BY <2>2 DEF Faithful, SvcRunning, host
<1>3. job[u].pc = "s.done" => Restored(u)'
  <2> SUFFICES ASSUME job[u].pc = "s.done" PROVE Restored(u)'
    OBVIOUS
  <2>1. Restored(u) /\ NobodyInside
    BY DEF Faithful, Finally
  <2>2. win' = win /\ proc' = proc /\ svc' = svc
    <3>1. CASE PlaceOf(job[w].pc) \notin Holding
      BY <3>1, HostHeld DEF host
    <3>2. CASE PlaceOf(job[w].pc) \in Holding
      <4>1. PlaceOf(job[w].pc) # "inside"
        BY <1>0, <2>1 DEF NobodyInside
      <4>2. job[w].pc \in {"s.fin", "s.restore", "s.unmark", "q.stop"}
        BY <3>2, <4>1 DEF PlaceOf, Holding
      <4>3. ~Searching(w)
        BY <1>0 DEF MeasureInv, OneSearch
      <4>4. job[w].pc = "q.stop"
        BY <1>0, <4>2, <4>3 DEF Sound, Fits, Does, Searching, Entering, AfterCheck, AtSearch, Finally, QuitStep
      <4>5. job[w].op \in Quitting
        BY <1>0, <4>4 DEF Sound, Fits, Does, Entering, AfterCheck, AtSearch, Finally
      <4>6. closed
        BY <1>0, <4>4 DEF Parted, Closing
      <4>7. job[w].op = "quit"
        <5>1. PICK v \in Worker : job[v].op = "quit"
          BY <4>6 DEF Undisturbed, Awaited
        <5> QED BY <4>5, <5>1 DEF Exits, OneQuit, Quitting
      <4>8. trial = None
        <5>1. PlaceOf("s.probe") \in Holding
          BY DEF PlaceOf, Outside, Holding
        <5> QED BY <1>0, <3>2, <4>4, <5>1, OneHolds DEF MeasureInv, Traced
      <4>9. QuitStop(w)
        <5>1. QuitJoin(w) \/ QuitClose(w) \/ QuitSignal(w) \/ QuitLock(w) \/ QuitStop(w) \/ Exit(w)
          BY <4>4, StepsOf DEF QuitStep
        <5> QED BY <4>4, <5>1 DEF At, QuitClose, QuitSignal, QuitLock, QuitJoin, Exit
      <4>10. ~MayFail("stop") /\ Ended(trial) = win
        BY <1>0, <4>8 DEF Gentle, Steady, MayFail, Ended
      <4> QED BY <4>7, <4>9, <4>10 DEF QuitStop, StopFails
    <3> QED BY <3>1, <3>2
  <2> QED BY <1>0, <2>1, <2>2 DEF Restored, ProcAlive, Alive, SvcRunning
<1> QED BY <1>0, <1>1, <1>2, <1>3 DEF Faithful

LEMMA WorkKeeps ==
    ASSUME Gentle, BaseInv, MeasureInv, Signals, KeepInv, NEW w \in Worker, Work(w), up' PROVE KeepInv'
<1>1. Modest' /\ Owned' /\ Exits'
  BY WorkModest, WorkOwned, WorkExits DEF KeepInv
<1>2. ASSUME NEW u \in Worker, Undisturbed(u)' PROVE Faithful(u)'
  <2>1. Undisturbed(u) /\ Faithful(u) /\ ~failed'
    BY <1>2, UndisturbedWas DEF KeepInv, Undisturbed
  <2> QED BY <1>2, <2>1, SearchFaithful, OthersFaithful DEF KeepInv
<1> QED BY <1>1, <1>2 DEF KeepInv

LEMMA HandlerKeeps ==
    ASSUME Gentle, BaseInv, MeasureInv, KeepInv, NEW w \in Worker, Handler(w) PROVE KeepInv'
<1>0. /\ Gives(w) /\ Brings(w) /\ UNCHANGED host /\ (\A v \in Worker : tok[v] \in 0..cur) /\ cur \in Nat
      /\ job \in [Worker -> Jobs]
  BY Clicks DEF BaseInv, Control, P!IInv, P!TypeOK, P!TokenInv
<1>1. Modest'
  BY <1>0 DEF KeepInv, Modest, Gives, Brings
<1>2. Owned' /\ Exits'
  BY HandlerOwned, HandlerExits DEF KeepInv
<1>3. ASSUME NEW u \in Worker, Undisturbed(u)' PROVE Faithful(u)'
  <2>1. CASE u = w
    <3>1. job'[u].pc = "begin"
      BY <1>0, <1>3, <2>1 DEF Undisturbed, Searching, Gives
    <3> QED BY <3>1 DEF Faithful, Cutting, Finally
  <2>2. CASE u # w
    <3>1. job'[u] = job[u] /\ tok'[u] = tok[u] /\ closed' = closed
      BY <1>0, <2>2 DEF Brings
    <3>2. cur' = cur /\ failed' = failed
      BY <1>0, <1>3, <3>1 DEF Undisturbed, Gives
    <3>3. closed => Awaited(u)
      <4> SUFFICES ASSUME closed PROVE Awaited(u)
        OBVIOUS
      <4>1. job'[w].op # "quit"
        BY <1>0 DEF Gives, Leaver, Quitting, KeepInv, Exits, OneQuit
      <4>2. PICK v \in Worker : job'[v].op = "quit" /\ tok'[u] <= job'[v].t
        BY <1>3, <3>1 DEF Undisturbed, Awaited
      <4>3. job[u].pc = "s.done"
        BY <1>3, <3>1 DEF Undisturbed, Awaited
      <4> QED BY <1>0, <3>1, <4>1, <4>2, <4>3 DEF Awaited, Brings
    <3>4. Faithful(u)
      BY <1>3, <3>1, <3>2, <3>3 DEF Undisturbed, Searching, KeepInv
    <3>5. NobodyInside => NobodyInside'
      BY <1>0 DEF NobodyInside, Brings
    <3> QED BY <1>0, <3>1, <3>4, <3>5 DEF Faithful, Restored, ProcAlive, Alive, SvcRunning, host
  <2> QED BY <2>1, <2>2
<1> QED BY <1>1, <1>2, <1>3 DEF KeepInv

(* Where nothing is under way there is nothing to put back. *)
LEMMA NobodyKeeps == ASSUME Nobody, ~ui.apply, closed => ui.closing, ArgsTrue PROVE KeepInv
BY DEF Nobody, KeepInv, Modest, Owned, Promised, Origin, Exits, OneQuit, Timely, Order, Undisturbed, Searching, Going,
   Quitting

LEMMA OthersKeep ==
    ASSUME Gentle, BaseInv, KeepInv, SearchStop \/ AdoptService \/ Die \/ Foreign \/ UNCHANGED vars
    PROVE  KeepInv'
<1>0. /\ UNCHANGED <<job, tok, at, closed, args, up, win, proc, trial, svc, failed>>
      /\ ui'.closing = ui.closing /\ ui'.apply = ui.apply
      /\ cur' = cur \/ cur' = cur + 1
      /\ cur \in Nat /\ (\A v \in Worker : tok[v] \in 0..cur) /\ \A v \in Worker : job[v].t \in Nat
  <2>1. \A v \in Worker : job[v] \in Jobs
    BY DEF BaseInv, Control
  <2>2. \A v \in Worker : job[v].t \in Nat
    BY <2>1, Dated
  <2> QED BY <2>2, OtherSteps DEF Gentle, BaseInv, P!IInv, P!TypeOK, P!TokenInv
<1>1. Modest' /\ ArgsTrue' /\ Promised'
  BY <1>0 DEF KeepInv, Modest, Owned, ArgsTrue, Promised, ProcAlive, Alive
<1>2. Origin'
  BY <1>0 DEF KeepInv, Owned, Origin, Searching, ProcAlive, Alive
<1>3. Exits'
  BY <1>0 DEF KeepInv, Exits, OneQuit, Timely, Order, Searching
<1>4. ASSUME NEW u \in Worker, Undisturbed(u)' PROVE Faithful(u)'
  <2>1. cur' = cur /\ Undisturbed(u)
    BY <1>0, <1>4 DEF Undisturbed, Searching, Awaited
  <2> QED BY <1>0, <2>1 DEF KeepInv, Faithful, Restored, ProcAlive, Alive, SvcRunning, NobodyInside
<1> QED BY <1>1, <1>2, <1>3, <1>4 DEF KeepInv, Owned

LEMMA GoneKeeps == ASSUME KeepInv, Gone PROVE KeepInv'
<1>1. /\ job' = [w \in Worker |-> Idle] /\ proc' = None /\ ~up'
      /\ ui' = ui /\ closed' = closed /\ win' = [p \in Pid |-> None]
  BY Zenon DEF Gone, app, ctl
<1>2. Nobody'
  BY <1>1, IdleJob DEF IsIdle, Nobody
<1>3. ArgsTrue'
  BY <1>1, HostAssumption DEF ArgsTrue, ProcAlive, Alive
<1> QED BY <1>1, <1>2, <1>3 DEF Nobody, KeepInv, Modest, Owned, Promised, Origin, Exits, OneQuit, Timely, Order, Undisturbed, Searching,
     Going, Quitting

LEMMA BootKeeps == ASSUME BaseInv, KeepInv, Boot PROVE KeepInv'
<1>1. /\ ~up /\ UNCHANGED <<host, job>> /\ closed' = FALSE
      /\ ui' = [Flags EXCEPT !.restore = marker, !.resume = resume]
  BY Zenon DEF Boot
<1>2. Nobody /\ proc' = None /\ win' = win
  BY <1>1, IdleJob DEF BaseInv, Control, IsIdle, Nobody, KeepInv, Owned, ArgsTrue, host
<1>3. Nobody' /\ ArgsTrue'
  BY <1>1, <1>2, HostAssumption DEF Nobody, ArgsTrue, ProcAlive, Alive
<1>4. ~ui'.apply
  BY <1>1 DEF Flags
<1> QED BY <1>1, <1>3, <1>4 DEF Nobody, KeepInv, Modest, Owned, Promised, Origin, Exits, OneQuit, Timely, Order, Undisturbed, Searching,
     Going, Quitting

LEMMA NextKeep ==
    ASSUME Gentle, BaseInv, MeasureInv, Signals, KeepInv, [Next]_vars PROVE KeepInv'
<1>1. ASSUME NEW w \in Worker, Handler(w) PROVE KeepInv'
  BY <1>1, HandlerKeeps
<1>2. ASSUME NEW w \in Worker, Work(w) PROVE KeepInv'
  <2>1. CASE up'
    BY <1>2, <2>1, WorkKeeps
  <2>2. CASE ~up'
    <3>1. Exit(w)
      BY <1>2, <2>2, OnlyExitEnds
    <3> QED BY <3>1, GoneKeeps DEF Exit
  <2> QED BY <2>1, <2>2
<1>3. ASSUME SearchStop \/ AdoptService \/ Die \/ Foreign \/ UNCHANGED vars PROVE KeepInv'
  BY <1>3, OthersKeep
<1>4. CASE Crash
  BY <1>4, GoneKeeps DEF Crash
<1>5. CASE Boot
  BY <1>5, BootKeeps
<1> QED BY <1>1, <1>2, <1>3, <1>4, <1>5 DEF Next

LEMMA InitKeep == Init => KeepInv
<1> SUFFICES ASSUME Init PROVE KeepInv
  OBVIOUS
<1>1. /\ job = [w \in Worker |-> Idle] /\ proc = None /\ win = [p \in Pid |-> None] /\ CtlInit
      /\ ui = Flags
  BY Zenon DEF Init
<1> HIDE DEF Init
<1>2. ~ui.apply /\ ~closed
  BY <1>1 DEF Flags, CtlInit, RT!Init
<1>3. Nobody /\ ArgsTrue
  BY <1>1, IdleJob, HostAssumption DEF IsIdle, Nobody, ArgsTrue, ProcAlive, Alive
<1> QED BY <1>2, <1>3, NobodyKeeps

LEMMA Keeps == ASSUME Gentle PROVE Spec => [](BaseInv /\ MeasureInv /\ KeepInv)
<1>0. "toggle" \notin Ops /\ Steady
  BY DEF Gentle
<1>1. Init => Signals /\ Parting
  <2> SUFFICES ASSUME Init PROVE Signals /\ Parting
    OBVIOUS
  <2>1. CtlInit
    BY Zenon DEF Init
  <2> HIDE DEF Init
  <2> QED BY <2>1 DEF CtlInit, RT!Init, Signals, Parting
<1>2. BaseInv /\ Signals /\ Parting /\ [Next]_vars => Signals' /\ Parting'
  BY NextSignals
<1>3. BaseInv /\ MeasureInv /\ Signals /\ KeepInv /\ [Next]_vars => KeepInv'
  BY NextKeep
<1>4. Spec => [](BaseInv /\ MeasureInv)
  BY <1>0, Measures
<1> QED BY <1>1, <1>2, <1>3, <1>4, InitKeep, PTL DEF Spec

(* A search that was stopped, finished or cut short by an error puts back what it found:
   the service if it ran, or our winws with its strategy, unless a later command took its
   token or an error is shown.  This holds whatever is started, installed, removed, restarted
   or clicked meanwhile, as long as every stop and context succeeds, nothing dies by itself, no
   worker takes over a token that is not its own and nobody makes the program switch by the
   one-click fix or "last working strategy" (zapret_app.pyw:2935-3030). *)
THEOREM SearchPutsBack == Gentle => (Spec => []SearchRestores)
<1> SUFFICES ASSUME Gentle PROVE Spec => []SearchRestores
  OBVIOUS
<1>1. BaseInv /\ MeasureInv /\ KeepInv => SearchRestores
  <2> SUFFICES ASSUME BaseInv, MeasureInv, KeepInv, NEW w \in Worker, job[w].pc = "s.done", RT!Valid(tok[w]), ~failed
               PROVE  Restored(w)
    BY DEF SearchRestores
  <2>1. Searching(w)
    <3>1. Sound(job[w])
      BY DEF BaseInv, Control
    <3> QED BY <3>1 DEF Searching, Sound, Fits, Does, AtSearch, Entering, QuitStep
  <2>2. Undisturbed(w)
    BY <2>1 DEF Undisturbed, RT!Valid
  <2> QED BY <2>2 DEF KeepInv, Faithful
<1> QED BY <1>1, Keeps, PTL

(* What the user chose for the bypass when leaving is what becomes of it: an exit that stops it
   leaves nothing alive, and an exit that keeps it waits for a search that was under way to put
   back what it had stopped, under the same hypothesis (zapret_app.pyw:3234-3268). *)
THEOREM LeavingIsHonoured == Gentle => (Spec => []ExitIsHonoured)
<1> SUFFICES ASSUME Gentle PROVE Spec => []ExitIsHonoured
  OBVIOUS
<1>1. MeasureInv => QuitStopsAll
  BY DEF MeasureInv, Measuring, Parted, QuitStopsAll, At
<1>2. BaseInv /\ MeasureInv /\ KeepInv => QuitKeeps
  <2> SUFFICES ASSUME BaseInv, MeasureInv, KeepInv, NEW v \in Worker, NEW w \in Worker, job[w].op = "quit", ~failed,
                      job[v].pc = "s.done", tok[v] = cur, tok[v] <= job[w].t
               PROVE  Restored(v)
    BY DEF QuitKeeps, At
  <2>1. Searching(v)
    <3>1. Sound(job[v])
      BY DEF BaseInv, Control
    <3> QED BY <3>1 DEF Searching, Sound, Fits, Does, AtSearch, Entering, QuitStep
  <2>2. Undisturbed(v)
    BY <2>1 DEF Undisturbed, Awaited
  <2> QED BY <2>2 DEF KeepInv, Faithful
<1>3. BaseInv /\ MeasureInv /\ KeepInv => ExitIsHonoured
  BY <1>1, <1>2 DEF ExitIsHonoured
<1> QED BY <1>3, Keeps, PTL
=============================================================================
