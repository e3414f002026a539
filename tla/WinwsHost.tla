----------------------------- MODULE WinwsHost -----------------------------
(***************************************************************************)
(* The process and service layer of zapret_core.py (891-1073): winws.exe   *)
(* processes spawned by the GUI, the Windows service "zapret", and winws   *)
(* instances of other programs.  Every operation is an action that either  *)
(* succeeds or, when its name is in Faults, fails the way the code reports *)
(* a failure (an exception, or ok = False).                                *)
(***************************************************************************)
EXTENDS Naturals, FiniteSets

CONSTANTS Pid,        \* identities for processes of this GUI alive at a time
          Strategy,   \* presets
          None,       \* Python's None
          Faults      \* which OS operations may fail

FaultKinds == {"stop", "spawn", "service", "context"}

ASSUME HostAssumption == /\ None \notin Strategy \cup Pid
                         /\ Faults \subseteq FaultKinds

VARIABLES win,      \* the strategy each live process runs, None when it is dead
          proc,     \* app.proc
          trial,    \* app.runtime.trial
          svc,      \* "absent", "stopped" or "running"
          svcRuns,  \* the strategy in the service's command line
          foreign   \* another program's winws.exe is running

host == <<win, proc, trial, svc, svcRuns, foreign>>

Alive(p)     == p # None /\ win[p] # None
ProcAlive    == Alive(proc)                 \* proc and proc.poll() is None
SvcRunning   == svc = "running"             \* service_running()
WinwsRunning == SvcRunning \/ foreign \/ \E p \in Pid : Alive(p)
Managed      == ProcAlive \/ SvcRunning     \* _managed_bypass_running()

(* A process identity that nothing refers to any more. *)
Fresh == {p \in Pid : win[p] = None /\ p # proc /\ p # trial}
NewPid == CHOOSE p \in Fresh : TRUE

MayFail(kind) == kind \in Faults

(* win after stop_process(p) succeeded; p may be None or already dead. *)
Ended(p) == IF p = None THEN win ELSE [win EXCEPT ![p] = None]
StopFails(p) == MayFail("stop") /\ Alive(p)

(* set_service_running(False): nothing to do unless it runs. *)
SvcStops      == svc' = IF SvcRunning THEN "stopped" ELSE svc
SvcStopFails  == MayFail("service") /\ SvcRunning
(* set_service_running(True), and "sc start". *)
SvcStarts     == svc # "absent" /\ svc' = "running"
SvcStartFails == ~SvcRunning /\ (svc = "absent" \/ MayFail("service"))

HostTypeOK == /\ win \in [Pid -> Strategy \cup {None}]
              /\ proc \in Pid \cup {None} /\ trial \in Pid \cup {None}
              /\ svc \in {"absent", "stopped", "running"}
              /\ svcRuns \in Strategy \cup {None}
              /\ foreign \in BOOLEAN
=============================================================================
