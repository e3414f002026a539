------------------------- MODULE RuntimeController -------------------------
(***************************************************************************)
(* zapret_runtime.py: the object every operation on the bypass goes        *)
(* through.  A request supersedes the previous one by replacing the token; *)
(* a worker thread acts inside transition(token), which takes the lock and *)
(* refuses a token that is no longer the current one.                      *)
(*                                                                         *)
(* Tokens are threading.Event objects compared with "is"; a worker keeps a *)
(* reference to its own, so an identity is never reused: they are numbers. *)
(* valid() reads three fields without a lock.  A token is signalled before *)
(* it is replaced and neither that nor "closed" is ever undone, so when    *)
(* valid() answers True the answer was right when is_set() was read: one   *)
(* atomic test stands for the three reads.                                 *)
(***************************************************************************)
EXTENDS Naturals

CONSTANTS Worker,     \* threads that use the controller
          NoWorker,   \* the lock is free
          MaxToken    \* bound: how many requests are made after start-up

ASSUME WorkerAssumption == NoWorker \notin Worker
ASSUME TokenAssumption  == MaxToken \in Nat

Mode == {"stopped", "manual", "service"}

VARIABLES cur,        \* self.token
          signalled,  \* the tokens whose set() was called
          closed,     \* self.closed
          desired,    \* self.desired
          owner,      \* the thread that holds self.lock
          busy,       \* self.busy
          tok,        \* the token each worker was given
          at,         \* where each worker is
          entered     \* history: the token last admitted to act

ctl == <<cur, signalled, closed, desired, owner, busy, tok, at, entered>>

(***************************************************************************)
(* "idle"     not using the controller                                     *)
(* "armed"    has a token, outside the lock                                *)
(* "inside"   in the body of transition(token)                             *)
(* "locked"   in "with runtime.lock", no token test yet                    *)
(* "admitted" in "with runtime.lock", after valid(token) answered True     *)
(* "closing"  between the two statements of close()                        *)
(***************************************************************************)
Place == {"idle", "armed", "inside", "locked", "admitted", "closing"}
Held  == {"inside", "locked", "admitted"}

(* Mutants of valid(): the flag, and the token, is not looked at. *)
ValidIgnoringClose(t) == t = cur /\ t \notin signalled
ValidIgnoringToken(t) == t <= cur /\ ~closed

Valid(t) == t = cur /\ t \notin signalled /\ ~closed

Acting(w) == at[w] \in {"inside", "admitted"}

Init == /\ cur = 0 /\ signalled = {} /\ closed = FALSE
        /\ desired = "stopped"
        /\ owner = NoWorker /\ busy = FALSE
        /\ tok = [w \in Worker |-> 0]
        /\ at = [w \in Worker |-> "idle"]
        /\ entered = 0

-----------------------------------------------------------------------------
(* Mutants of request(): nobody is woken; None is stored as the mode. *)
SupersedeSilently(d) == /\ cur < MaxToken
                        /\ cur' = cur + 1 /\ desired' = d
                        /\ UNCHANGED signalled
SupersedeStoringNone(d) == /\ cur < MaxToken
                           /\ signalled' = signalled \cup {cur} /\ cur' = cur + 1
                           /\ desired' = IF d = desired THEN "none" ELSE d

(* The body of request(): d is the new desired mode, or the present one when
   the caller passes None.  It runs under _state_lock. *)
Supersede(d) == /\ cur < MaxToken
                /\ signalled' = signalled \cup {cur}
                /\ cur' = cur + 1
                /\ desired' = d

(* request(d): the handler asks for a token and hands it to worker w. *)
Request(w, d) == /\ at[w] = "idle"
                 /\ Supersede(d)
                 /\ tok' = [tok EXCEPT ![w] = cur + 1]
                 /\ at' = [at EXCEPT ![w] = "armed"]
                 /\ UNCHANGED <<closed, owner, busy, entered>>

(* request(d) whose token no worker waits on: the status refresh that finds the
   service running, and the quit handler. *)
Announce(d) == Supersede(d) /\ UNCHANGED <<closed, owner, busy, tok, at, entered>>

(* token = runtime.token, by a worker that supersedes nobody. *)
Capture(w) == /\ at[w] = "idle"
              /\ tok' = [tok EXCEPT ![w] = cur]
              /\ at' = [at EXCEPT ![w] = "armed"]
              /\ UNCHANGED <<cur, signalled, closed, desired, owner, busy, entered>>

(* A worker that kept its token comes back with it. *)
Rearm(w) == /\ at[w] = "idle"
            /\ at' = [at EXCEPT ![w] = "armed"]
            /\ UNCHANGED <<cur, signalled, closed, desired, owner, busy, tok, entered>>

(* A worker returns without acting. *)
Drop(w) == /\ at[w] = "armed"
           /\ at' = [at EXCEPT ![w] = "idle"]
           /\ UNCHANGED <<cur, signalled, closed, desired, owner, busy, tok, entered>>

(* request(d, expected=token) when the token is still the current one. *)
RequestIfCurrent(w, d) == /\ at[w] \in {"idle", "armed"}
                          /\ tok[w] = cur
                          /\ Supersede(d)
                          /\ tok' = [tok EXCEPT ![w] = cur + 1]
                          /\ at' = [at EXCEPT ![w] = "armed"]
                          /\ UNCHANGED <<closed, owner, busy, entered>>

(* request(d, expected=token) answers None; wait(token, s) answers False. *)
GiveUp(w) == ~Valid(tok[w]) /\ Drop(w)

(* Mutants of transition(): it enters beside the holder of the lock; it checks the
   token before it takes the lock, and not after. *)
EnterUnlocked(w) == /\ at[w] = "armed" /\ Valid(tok[w])
                    /\ owner' = w /\ busy' = TRUE
                    /\ at' = [at EXCEPT ![w] = "inside"]
                    /\ entered' = tok[w]
                    /\ UNCHANGED <<cur, signalled, closed, desired, tok>>
EnterUnchecked(w) == /\ at[w] = "armed" /\ owner = NoWorker
                     /\ owner' = w /\ busy' = TRUE
                     /\ at' = [at EXCEPT ![w] = "inside"]
                     /\ entered' = tok[w]
                     /\ UNCHANGED <<cur, signalled, closed, desired, tok>>

(* transition(token): take the lock, check the token, set busy. *)
Enter(w) == /\ at[w] = "armed"
            /\ owner = NoWorker
            /\ Valid(tok[w])
            /\ owner' = w
            /\ busy' = TRUE
            /\ at' = [at EXCEPT ![w] = "inside"]
            /\ entered' = tok[w]
            /\ UNCHANGED <<cur, signalled, closed, desired, tok>>

(* transition(token) with a stale token: Superseded, the lock is released. *)
Refuse(w) == owner = NoWorker /\ GiveUp(w)

(* "with runtime.lock" of code that must run whoever the current token is. *)
Lock(w) == /\ at[w] = "idle"
           /\ owner = NoWorker
           /\ owner' = w
           /\ at' = [at EXCEPT ![w] = "locked"]
           /\ UNCHANGED <<cur, signalled, closed, desired, busy, tok, entered>>

(* valid(token) answered True under the bare lock. *)
Admit(w) == /\ at[w] = "locked"
            /\ Valid(tok[w])
            /\ at' = [at EXCEPT ![w] = "admitted"]
            /\ entered' = tok[w]
            /\ UNCHANGED <<cur, signalled, closed, desired, owner, busy, tok>>

(* Mutant of set_desired(): a superseded worker writes too. *)
SetDesiredAnyway(w, d) == /\ at[w] = "inside" /\ desired' = d
                          /\ UNCHANGED <<cur, signalled, closed, owner, busy, tok, at, entered>>

SetDesired(w, d) == /\ at[w] = "inside"
                    /\ desired' = IF Valid(tok[w]) THEN d ELSE desired
                    /\ UNCHANGED <<cur, signalled, closed, owner, busy, tok, at, entered>>

(* Mutant: the lock is not released on the way out. *)
LeaveLocked(w) == /\ at[w] \in Held
                  /\ busy' = IF at[w] = "inside" THEN FALSE ELSE busy
                  /\ at' = [at EXCEPT ![w] = "idle"]
                  /\ UNCHANGED <<cur, signalled, closed, desired, owner, tok, entered>>

(* The end of either block, reached normally or by an exception. *)
Leave(w) == /\ at[w] \in Held
            /\ owner' = NoWorker
            /\ busy' = IF at[w] = "inside" THEN FALSE ELSE busy
            /\ at' = [at EXCEPT ![w] = "idle"]
            /\ UNCHANGED <<cur, signalled, closed, desired, tok, entered>>

(* close() takes no lock: a request can come between its two statements. *)
CloseFlag(w) == /\ at[w] = "idle"
                /\ closed' = TRUE
                /\ at' = [at EXCEPT ![w] = "closing"]
                /\ UNCHANGED <<cur, signalled, desired, owner, busy, tok, entered>>

CloseSignal(w) == /\ at[w] = "closing"
                  /\ signalled' = signalled \cup {cur}
                  /\ at' = [at EXCEPT ![w] = "idle"]
                  /\ UNCHANGED <<cur, closed, desired, owner, busy, tok, entered>>

Step(w) == \/ Capture(w) \/ Rearm(w) \/ Drop(w) \/ GiveUp(w) \/ Enter(w) \/ Refuse(w)
           \/ Lock(w) \/ Admit(w) \/ Leave(w) \/ CloseFlag(w) \/ CloseSignal(w)
           \/ \E d \in Mode : Request(w, d) \/ RequestIfCurrent(w, d) \/ SetDesired(w, d)

Next == \/ \E w \in Worker : Step(w)
        \/ \E d \in Mode : Announce(d)

Spec == Init /\ [][Next]_ctl

(***************************************************************************)
(* Fairness.  A worker that holds the lock runs bounded OS calls and       *)
(* leaves; a worker blocked on the lock gets it if it keeps being free     *)
(* (the lock has no queue, hence strong fairness); a worker with a stale   *)
(* token is woken by the event.  Nobody is obliged to make a request.      *)
(***************************************************************************)
Fairness == \A w \in Worker : /\ WF_ctl(Leave(w))
                              /\ SF_ctl(Enter(w))
                              /\ SF_ctl(Refuse(w))
                              /\ WF_ctl(CloseSignal(w))

FairSpec == Spec /\ Fairness
-----------------------------------------------------------------------------
TypeOK == /\ cur \in 0..MaxToken
          /\ signalled \subseteq 0..MaxToken
          /\ closed \in BOOLEAN /\ busy \in BOOLEAN
          /\ desired \in Mode
          /\ owner \in Worker \cup {NoWorker}
          /\ tok \in [Worker -> 0..MaxToken]
          /\ at \in [Worker -> Place]
          /\ entered \in 0..MaxToken

(* Processes and the service are changed by one thread at a time, and busy,
   which the watchdog and the health check read without the lock
   (zapret_app.pyw:1979, 2412), is up exactly while a transition is under way. *)
Serialised == /\ \A v, w \in Worker : at[v] \in Held /\ at[w] \in Held => v = w
              /\ busy <=> \E w \in Worker : at[w] = "inside"

(* A worker sleeping in wait() on a token that was replaced is woken: every
   token but the current one is signalled (zapret_runtime.py:24-25, 53). *)
StaleTokensSignalled == \A w \in Worker : tok[w] # cur => tok[w] \in signalled

(* Once a later request was admitted, nothing requested before it is ever
   admitted again, however long its worker waited for the lock. *)
NewestWins == [][entered' >= entered]_ctl

(* The desired mode is changed by a new request, or by the worker that acts for
   the current one: a superseded start cannot overwrite a later stop. *)
DesiredFollowsNewest ==
    [][desired' # desired => \/ cur' = cur + 1
                             \/ \E w \in Worker : /\ owner = w /\ tok[w] = cur
                                                  /\ ~closed]_ctl

(* After close() has set the flag nobody is admitted any more. *)
ClosedIsFinal ==
    [][closed => closed' /\ \A w \in Worker : Acting(w)' => Acting(w)]_ctl

(* The worker of the newest request is admitted, unless it is itself superseded
   or the program closes: no older worker keeps the lock for ever. *)
NewestIsServed ==
    \A w \in Worker : (at[w] = "armed" /\ tok[w] = cur) ~>
                      (at[w] # "armed" \/ tok[w] # cur \/ closed)

(* The controller implements the latest-intent specification. *)
Abstract == INSTANCE LatestIntent WITH
                latest   <- cur,
                admitted <- entered,
                acting   <- \E w \in Worker : Acting(w),
                shut     <- closed
ImplementsLatestIntent == Abstract!Spec
=============================================================================
