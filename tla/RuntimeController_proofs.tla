----------------------- MODULE RuntimeController_proofs -----------------------
(***************************************************************************)
(* What RuntimeController guarantees for any set of threads and any number *)
(* of requests.  The inductive invariant IInv adds to the type invariant   *)
(* who holds the lock, and how tokens are ordered: every replaced token is *)
(* signalled, and no worker has a token, or was admitted with one, that is *)
(* later than the current one.                                             *)
(***************************************************************************)
EXTENDS RuntimeController, TLAPS

LockInv  == \A w \in Worker : at[w] \in Held <=> owner = w
BusyInv  == busy <=> \E w \in Worker : at[w] = "inside"
TokenInv == /\ \A t \in 0..MaxToken : t < cur => t \in signalled
            /\ \A w \in Worker : tok[w] <= cur
            /\ entered <= cur

IInv == TypeOK /\ LockInv /\ BusyInv /\ TokenInv

-----------------------------------------------------------------------------
(* The controller starts with nobody in it and one token, not signalled. *)
LEMMA InitIInv == Init => IInv
<1> SUFFICES ASSUME Init PROVE IInv
  OBVIOUS
<1> USE WorkerAssumption, TokenAssumption DEF Init
<1>1. TypeOK
  <2>1. cur \in 0..MaxToken /\ entered \in 0..MaxToken /\ signalled \subseteq 0..MaxToken
    OBVIOUS
  <2>2. closed \in BOOLEAN /\ busy \in BOOLEAN
    OBVIOUS
  <2>3. desired \in Mode /\ owner \in Worker \cup {NoWorker}
    BY DEF Mode
  <2>4. tok \in [Worker -> 0..MaxToken] /\ at \in [Worker -> Place]
    BY DEF Place
  <2> QED BY <2>1, <2>2, <2>3, <2>4 DEF TypeOK
<1>2. LockInv
  BY DEF LockInv, Held
<1>3. BusyInv
  <2>1. ~busy
    OBVIOUS
  <2>2. \A w \in Worker : at[w] # "inside"
    OBVIOUS
  <2> QED BY <2>1, <2>2 DEF BusyInv
<1>4. TokenInv
  BY DEF TokenInv
<1> QED BY <1>1, <1>2, <1>3, <1>4 DEF IInv

(* The same of the next state, for a program that is started again. *)
LEMMA RestartIInv == Init' => IInv'
BY InitIInv, PTL

(* A request, whoever waits on its token, keeps every part of the invariant. *)
LEMMA RequestIInv ==
    ASSUME IInv, NEW w \in Worker, NEW d \in Mode, Request(w, d) \/ RequestIfCurrent(w, d)
    PROVE  IInv'
<1> USE WorkerAssumption, TokenAssumption DEF Request, RequestIfCurrent, Supersede, IInv
<1>1. TypeOK'
  <2>0. cur < MaxToken /\ cur' = cur + 1 /\ signalled' = signalled \cup {cur}
    OBVIOUS
  <2>1. cur' \in 0..MaxToken /\ signalled' \subseteq 0..MaxToken
    BY <2>0 DEF TypeOK
  <2>2. tok' \in [Worker -> 0..MaxToken] /\ at' \in [Worker -> Place]
    BY <2>1 DEF TypeOK, Place
  <2>3. desired' \in Mode
    OBVIOUS
  <2>4. UNCHANGED <<closed, owner, busy, entered>>
    OBVIOUS
  <2> QED BY <2>1, <2>2, <2>3, <2>4 DEF TypeOK
<1>2. LockInv'
  BY DEF TypeOK, LockInv, Held
<1>3. BusyInv'
  <2>1. \A v \in Worker : at'[v] = "inside" <=> at[v] = "inside"
    BY DEF TypeOK
  <2>2. busy' = busy
    OBVIOUS
  <2> QED BY <2>1, <2>2 DEF BusyInv
<1>4. TokenInv'
  BY DEF TypeOK, TokenInv
<1> QED BY <1>1, <1>2, <1>3, <1>4 DEF IInv

LEMMA AnnounceIInv == ASSUME IInv, NEW d \in Mode, Announce(d) PROVE IInv'
BY WorkerAssumption, TokenAssumption
   DEF Announce, Supersede, IInv, TypeOK, LockInv, BusyInv, TokenInv, Mode, Place, Held

(* Every step of the controller keeps the invariant. *)
LEMMA NextIInv == IInv /\ [Next]_ctl => IInv'
<1> SUFFICES ASSUME IInv, [Next]_ctl PROVE IInv'
  OBVIOUS
<1> USE WorkerAssumption, TokenAssumption
<1>1. ASSUME NEW w \in Worker, Capture(w) PROVE IInv'
  BY <1>1 DEF Capture, IInv, TypeOK, LockInv, BusyInv, TokenInv, Place, Held
<1>2. ASSUME NEW w \in Worker, Rearm(w) PROVE IInv'
  BY <1>2 DEF Rearm, IInv, TypeOK, LockInv, BusyInv, TokenInv, Place, Held
<1>3. ASSUME NEW w \in Worker, Drop(w) PROVE IInv'
  BY <1>3 DEF Drop, IInv, TypeOK, LockInv, BusyInv, TokenInv, Place, Held
<1>4. ASSUME NEW w \in Worker, Enter(w) PROVE IInv'
  BY <1>4 DEF Enter, Valid, IInv, TypeOK, LockInv, BusyInv, TokenInv, Place, Held
<1>5. ASSUME NEW w \in Worker, Lock(w) PROVE IInv'
  BY <1>5 DEF Lock, IInv, TypeOK, LockInv, BusyInv, TokenInv, Place, Held
<1>6. ASSUME NEW w \in Worker, Admit(w) PROVE IInv'
  BY <1>6 DEF Admit, Valid, IInv, TypeOK, LockInv, BusyInv, TokenInv, Place, Held
<1>7. ASSUME NEW w \in Worker, Leave(w) PROVE IInv'
  BY <1>7 DEF Leave, IInv, TypeOK, LockInv, BusyInv, TokenInv, Place, Held
<1>8. ASSUME NEW w \in Worker, CloseFlag(w) PROVE IInv'
  BY <1>8 DEF CloseFlag, IInv, TypeOK, LockInv, BusyInv, TokenInv, Place, Held
<1>9. ASSUME NEW w \in Worker, CloseSignal(w) PROVE IInv'
  BY <1>9 DEF CloseSignal, IInv, TypeOK, LockInv, BusyInv, TokenInv, Place, Held
<1>10. ASSUME NEW w \in Worker, NEW d \in Mode, SetDesired(w, d) PROVE IInv'
  BY <1>10 DEF SetDesired, IInv, TypeOK, LockInv, BusyInv, TokenInv, Place, Held
<1>11. CASE UNCHANGED ctl
  BY <1>11 DEF ctl, IInv, TypeOK, LockInv, BusyInv, TokenInv
<1> QED
  BY <1>1, <1>2, <1>3, <1>4, <1>5, <1>6, <1>7, <1>8, <1>9, <1>10, <1>11,
     RequestIInv, AnnounceIInv DEF Next, Step, GiveUp, Refuse

LEMMA SpecIInv == Spec => []IInv
BY InitIInv, NextIInv, PTL DEF Spec

-----------------------------------------------------------------------------
(* The fields of the controller and the threads' places stay what the code's
   assignments make them. *)
THEOREM Typed == Spec => []TypeOK
<1>1. IInv => TypeOK
  BY DEF IInv
<1> QED BY <1>1, SpecIInv, PTL

(* At most one thread changes the bypass, and busy says whether one does in a
   transition: RuntimeController.transition, zapret_runtime.py:43-50. *)
THEOREM OneAtATime == Spec => []Serialised
<1>1. IInv => Serialised
  BY DEF IInv, LockInv, BusyInv, Serialised, Held
<1> QED BY <1>1, SpecIInv, PTL

(* Whoever sleeps on a superseded token is woken: request(), :24-25. *)
THEOREM NobodySleepsOn == Spec => []StaleTokensSignalled
<1>1. IInv => StaleTokensSignalled
  BY TokenAssumption DEF IInv, TypeOK, TokenInv, StaleTokensSignalled
<1> QED BY <1>1, SpecIInv, PTL

(* A request is never admitted after a later one was. *)
THEOREM LaterRequestsWin == Spec => NewestWins
<1>1. IInv /\ [Next]_ctl => [entered' >= entered]_ctl
  <2> SUFFICES ASSUME IInv, Next PROVE entered' >= entered
    BY DEF ctl
  <2>1. entered \in Nat /\ cur \in Nat /\ entered <= cur
    BY TokenAssumption DEF IInv, TypeOK, TokenInv
  <2>2. entered' = entered \/ entered' = cur
    BY DEF Next, Step, Request, RequestIfCurrent, Announce, Capture, Rearm, Drop, GiveUp,
           Enter, Refuse, Lock, Admit, Leave, CloseFlag, CloseSignal, SetDesired, Valid
  <2> QED BY <2>1, <2>2
<1> QED BY <1>1, SpecIInv, PTL DEF Spec, NewestWins

(* Only the latest request, and the worker that acts for it, changes the desired
   mode: set_desired(), zapret_runtime.py:33-36. *)
THEOREM OnlyTheNewestDecides == Spec => DesiredFollowsNewest
<1> DEFINE A == desired' # desired => \/ cur' = cur + 1
                                      \/ \E w \in Worker : /\ owner = w /\ tok[w] = cur
                                                           /\ ~closed
<1>1. IInv /\ [Next]_ctl => [A]_ctl
  <2> SUFFICES ASSUME IInv, Next PROVE A
    BY DEF ctl
  <2>1. ASSUME NEW w \in Worker, NEW d \in Mode, SetDesired(w, d) PROVE A
    BY <2>1 DEF SetDesired, Valid, IInv, LockInv, Held
  <2>2. (\A w \in Worker : \A d \in Mode : ~SetDesired(w, d)) => desired' = desired \/ cur' = cur + 1
    BY DEF Next, Step, Request, RequestIfCurrent, Announce, Supersede, Capture, Rearm, Drop,
           GiveUp, Enter, Refuse, Lock, Admit, Leave, CloseFlag, CloseSignal
  <2>3. CASE \E w \in Worker : \E d \in Mode : SetDesired(w, d)
    BY <2>1, <2>3
  <2>4. CASE \A w \in Worker : \A d \in Mode : ~SetDesired(w, d)
    BY <2>2, <2>4
  <2> QED BY <2>3, <2>4
<1> QED BY <1>1, SpecIInv, PTL DEF Spec, DesiredFollowsNewest

(* Nobody begins to act once close() has set the flag. *)
THEOREM NobodyActsAfterClose == Spec => ClosedIsFinal
<1> DEFINE A == closed => closed' /\ \A w \in Worker : Acting(w)' => Acting(w)
<1>1. IInv /\ [Next]_ctl => [A]_ctl
  <2> SUFFICES ASSUME IInv, Next, closed
               PROVE  closed' /\ \A w \in Worker : Acting(w)' => Acting(w)
    BY DEF ctl
  <2>1. closed'
    BY DEF Next, Step, Request, RequestIfCurrent, Announce, Capture, Rearm, Drop, GiveUp,
           Enter, Refuse, Lock, Admit, Leave, CloseFlag, CloseSignal, SetDesired
  <2>2. at \in [Worker -> Place]
    BY DEF IInv, TypeOK
  <2>3. ASSUME NEW w \in Worker, Acting(w)' PROVE Acting(w)
    BY <2>2, <2>3
       DEF Acting, Next, Step, Request, RequestIfCurrent, Announce, Capture, Rearm, Drop,
           GiveUp, Enter, Refuse, Lock, Admit, Leave, CloseFlag, CloseSignal, SetDesired, Valid
  <2> QED BY <2>1, <2>3
<1> QED BY <1>1, SpecIInv, PTL DEF Spec, ClosedIsFinal

-----------------------------------------------------------------------------
(* Nobody acts while the lock is free, and the thread that leaves it is the only
   one that may have been acting. *)
LEMMA ActingHoldsLock == IInv => \A w \in Worker : Acting(w) => owner = w
BY DEF IInv, LockInv, Acting, Held

(* The controller implements the latest-intent specification: a request expresses
   an intent, the token test that succeeds under the lock admits it, the end of the
   block finishes it, and the first statement of close() shuts. *)
THEOREM Implements == Spec => ImplementsLatestIntent
<1>1. Init => Abstract!Init
  BY DEF Init, Abstract!Init, Acting
<1>2. IInv /\ [Next]_ctl => [Abstract!Next]_(Abstract!vars)
  <2> SUFFICES ASSUME IInv, [Next]_ctl PROVE Abstract!Next \/ UNCHANGED Abstract!vars
    OBVIOUS
  <2> USE DEF Abstract!Next, Abstract!vars
  <2>0. at \in [Worker -> Place] /\ \A w \in Worker : Acting(w) => owner = w
    BY ActingHoldsLock DEF IInv, TypeOK
  <2>1. ASSUME NEW w \in Worker, Capture(w) \/ Rearm(w) \/ Drop(w) \/ Lock(w) \/ CloseSignal(w)
        PROVE  UNCHANGED Abstract!vars
    <3>1. UNCHANGED <<cur, entered, closed>>
      BY <2>1 DEF Capture, Rearm, Drop, Lock, CloseSignal
    <3>2. \A v \in Worker : Acting(v)' <=> Acting(v)
      BY <2>0, <2>1 DEF Capture, Rearm, Drop, Lock, CloseSignal, Acting
    <3> QED BY <3>1, <3>2
  <2>2. ASSUME NEW w \in Worker, NEW d \in Mode, Request(w, d) \/ RequestIfCurrent(w, d)
        PROVE  Abstract!Express
    <3>1. cur' = cur + 1 /\ UNCHANGED <<entered, closed>>
      BY <2>2 DEF Request, RequestIfCurrent, Supersede
    <3>2. \A v \in Worker : Acting(v)' <=> Acting(v)
      BY <2>0, <2>2 DEF Request, RequestIfCurrent, Acting
    <3> QED BY <3>1, <3>2 DEF Abstract!Express
  <2>3. ASSUME NEW d \in Mode, Announce(d) PROVE Abstract!Express
    BY <2>3 DEF Announce, Supersede, Abstract!Express, Acting
  <2>4. ASSUME NEW w \in Worker, Enter(w) \/ Admit(w) PROVE Abstract!Admit
    <3>1. \A v \in Worker : ~Acting(v)
      BY <2>0, <2>4, WorkerAssumption DEF Enter, Admit, Acting, IInv, LockInv, Held
    <3>2. Acting(w)'
      BY <2>0, <2>4 DEF Enter, Admit, Acting
    <3>3. ~closed /\ entered' = cur /\ UNCHANGED <<cur, closed>>
      BY <2>4 DEF Enter, Admit, Valid
    <3> QED BY <3>1, <3>2, <3>3 DEF Abstract!Admit
  <2>5. ASSUME NEW w \in Worker, Leave(w) PROVE Abstract!Finish \/ UNCHANGED Abstract!vars
    <3>1. \A v \in Worker : ~Acting(v)'
      BY <2>0, <2>5 DEF Leave, Acting, IInv, LockInv, Held
    <3>2. UNCHANGED <<cur, entered, closed>>
      BY <2>5 DEF Leave
    <3> QED BY <3>1, <3>2 DEF Abstract!Finish
  <2>6. ASSUME NEW w \in Worker, CloseFlag(w) PROVE Abstract!Shut \/ UNCHANGED Abstract!vars
    <3>1. \A v \in Worker : Acting(v)' <=> Acting(v)
      BY <2>0, <2>6 DEF CloseFlag, Acting
    <3>2. closed' = TRUE /\ closed \in BOOLEAN /\ UNCHANGED <<cur, entered>>
      BY <2>6 DEF CloseFlag, IInv, TypeOK
    <3> QED BY <3>1, <3>2 DEF Abstract!Shut
  <2>7. ASSUME NEW w \in Worker, NEW d \in Mode, SetDesired(w, d) PROVE UNCHANGED Abstract!vars
    BY <2>7 DEF SetDesired, Acting
  <2>8. CASE UNCHANGED ctl
    BY <2>8 DEF ctl, Acting
  <2> QED
    BY <2>1, <2>2, <2>3, <2>4, <2>5, <2>6, <2>7, <2>8 DEF Next, Step, GiveUp, Refuse
<1> QED BY <1>1, <1>2, SpecIInv, PTL DEF Spec, ImplementsLatestIntent, Abstract!Spec
=============================================================================
