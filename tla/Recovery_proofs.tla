-------------------------- MODULE Recovery_proofs --------------------------
(***************************************************************************)
(* The watchdog's safety, for any services, any pool of strategies and any *)
(* number of requests and events: a stop survives a recovery, a switch     *)
(* that nobody interrupted ends with the original strategy or with the one *)
(* it saved, the restarts in vain are bounded, and the health shown is the *)
(* present request's.  The inductive invariant is RecoveryInv.             *)
(***************************************************************************)
EXTENDS Recovery, Listing_proofs

(* The threads, and what the controller keeps of them. *)
Both == {Dog, User}

Control == /\ cur \in 0..MaxToken /\ signalled \subseteq 0..MaxToken /\ entered \in 0..MaxToken
           /\ desired \in {"stopped", "manual", "service"} /\ busy \in BOOLEAN /\ owner \in Both \cup {NoWorker}
           /\ tok \in [Both -> 0..MaxToken] /\ at \in [Both -> {"idle", "armed", "inside"}]
           /\ closed = FALSE /\ \A t \in signalled : t < cur
           /\ \A w \in Both : tok[w] <= cur /\ (at[w] = "inside" <=> owner = w)
           /\ busy <=> owner # NoWorker

(* The types of what the watchdog and the commands work with. *)
Values == /\ runs \in Some /\ installed \in Some /\ active \in Some /\ saved \in Strategy
          /\ goal \in Some /\ orig \in Some /\ cands \in Seq(Strategy)
          /\ job \in Some \cup {"stop", "refused"} /\ tried \subseteq Strategy
          /\ sw \in BOOLEAN /\ undo \in BOOLEAN /\ offline \in BOOLEAN /\ overtaken \in BOOLEAN
          /\ recBusy \in BOOLEAN

Counters == /\ failures \in [Service -> 0..Threshold] /\ healthy \in 0..1
            /\ delay \in Nat /\ fruitless \in Nat /\ exhausted \in Nat \cup {None}

(* Where the watchdog is says what it holds: the lock inside a restart or a switch
   (2023-2040, 2127-2144), recovery_busy in _recover, and its token outside the loop's head. *)
Placing == /\ pc \in DogPlace
           /\ recBusy <=> pc \notin {"loop", "sleep", "look", "managed", "probe"}
           /\ at[Dog] = "idle" <=> pc \in {"loop", "settle"}
           /\ at[Dog] = "inside" <=> pc \in {"halt", "spawn"}
           /\ at[User] = "idle" <=> job = None
           /\ job = "refused" => at[User] = "inside"
           /\ episode = tok[Dog]

(* Why a stop stays: after it the mode is "stopped", and the watchdog's token is an old
   one from the moment it leaves wait(), so that it may not spawn. *)
Stopping == /\ stopped => /\ desired = "stopped" /\ job \in {None, "stop"}
                          /\ pc \notin {"loop", "sleep"} => tok[Dog] # cur
            /\ job = "stop" => stopped /\ tok[User] = cur
            /\ StopSurvivesRecovery

(* Which places belong to a switch and which to a restart; a restart or switch that was
   superseded inside the lock has an old token. *)
Switching == /\ pc \in {"delay", "verify"} => ~sw
             /\ pc \in {"pick", "measure", "commit", "finally", "raised"} => sw
             /\ sw /\ pc \in {"enter", "halt", "spawn", "settle", "measure", "commit", "finally"} => goal \in Strategy
             /\ sw /\ pc \in {"pick", "enter", "halt", "spawn", "settle", "measure", "commit", "finally"} => orig \in Strategy
             /\ pc = "settle" => /\ outcome \in {"error", "superseded", "spawned"}
                                 /\ outcome = "superseded" => tok[Dog] # cur

(* What an uninterrupted switch has made of the strategy that runs, place by place. *)
Walking == sw /\ tok[Dog] = cur /\ ~overtaken =>
              /\ pc = "settle" /\ outcome = "spawned" => active = IF undo THEN orig ELSE goal
              /\ pc \in {"measure", "commit"} => active = goal
              /\ pc = "pick" => Original = orig
              /\ pc = "over" => active \in {orig, saved}

(* The restarts in vain are fewer than the delays that were begun; outside the restarts
   there are none, or they are over for this token, or the token is an old one. *)
Restarting == pc = "delay" \/ (~sw /\ pc \in {"enter", "halt", "spawn", "settle", "verify"})

Retrying == IF Restarting
            THEN delay <= Delays /\ (IF pc = "delay" THEN fruitless <= delay ELSE fruitless < delay)
            ELSE fruitless <= Delays /\ (fruitless = 0 \/ exhausted = tok[Dog] \/ tok[Dog] # cur)

(* The inductive invariant. *)
RecoveryInv == /\ Control /\ Values /\ Counters /\ Placing /\ Stopping
               /\ Switching /\ Walking /\ Retrying /\ HealthIsCurrent

(* What the provers need of the controller, without its invariant; a token is valid
   exactly when it is the current one, for nobody closes the program here. *)
Flat == /\ cur \in Nat /\ tok[Dog] \in Nat /\ tok[User] \in Nat /\ desired \in {"stopped", "manual", "service"}
        /\ tok[Dog] <= cur /\ tok[User] <= cur
        /\ tok \in [Both -> Nat] /\ at \in [Both -> {"idle", "armed", "inside"}]
        /\ (Live <=> tok[Dog] = cur)
        /\ (RT!Valid(tok[Dog]) <=> tok[Dog] = cur) /\ (RT!Valid(tok[User]) <=> tok[User] = cur)

(* Control says so. *)
LEMMA Facts == Control => Flat
<1> SUFFICES ASSUME Control PROVE Flat
  OBVIOUS
<1> USE RecoveryAssumption
<1>1. /\ cur \in Nat /\ tok \in [Both -> Nat] /\ desired \in {"stopped", "manual", "service"}
      /\ at \in [Both -> {"idle", "armed", "inside"}] /\ \A t \in signalled : t \in Nat
  BY DEF Control
<1>3. tok[Dog] \in Nat /\ tok[User] \in Nat /\ tok[Dog] <= cur /\ tok[User] <= cur
  BY <1>1 DEF Control, Both
<1>5. cur \notin signalled /\ closed = FALSE
  BY <1>1 DEF Control
<1>6. \A t \in Nat : RT!Valid(t) <=> t = cur
  BY <1>5 DEF RT!Valid
<1> QED
  BY <1>1, <1>3, <1>6 DEF Flat, Live, Mine

(* The same of the next state. *)
LEMMA FactsNext == Control' => Flat'
BY Facts, PTL

(* Failures are counted up to the threshold. *)
LEMMA CountsTypes ==
  ASSUME Counters, NEW ok \in SUBSET Service PROVE Counts(ok) \in [Service -> 0..Threshold]
<1>1. \A s \in Service : failures[s] \in 0..Threshold
  BY DEF Counters
<1>2. \A s \in Service :
        (IF s \in ok THEN 0 ELSE IF failures[s] < Threshold THEN failures[s] + 1 ELSE Threshold) \in 0..Threshold
  BY <1>1 DEF Threshold
<1> QED
  BY <1>2 DEF Counts

(* Each operation of the controller keeps Control. *)
LEMMA Captures == ASSUME Control, NEW w \in Both, RT!Capture(w) PROVE Control' /\ Flat'
<1> USE RecoveryAssumption DEF Both
<1>4. \A v \in Both : tok'[v] <= cur' /\ (at'[v] = "inside" <=> owner' = v)
  BY DEF Control, RT!Capture
<1>1. /\ cur' \in 0..MaxToken /\ signalled' \subseteq 0..MaxToken /\ entered' \in 0..MaxToken
      /\ desired' \in {"stopped", "manual", "service"} /\ busy' \in BOOLEAN /\ owner' \in {Dog, User, NoWorker}
  BY DEF Control, RT!Mode, RT!Capture
<1>2. tok' \in [Both -> 0..MaxToken] /\ at' \in [Both -> {"idle", "armed", "inside"}]
  BY <1>1 DEF Control, RT!Capture
<1>3. closed' = FALSE /\ \A t \in signalled' : t < cur'
  BY DEF Control, RT!Capture
<1>5. busy' <=> owner' # NoWorker
  BY DEF Control, RT!Capture
<1>6. Control'
  BY <1>1, <1>2, <1>3, <1>4, <1>5 DEF Control
<1> QED
  BY <1>6, FactsNext

(* A thread comes back with its token. *)
LEMMA Rearms == ASSUME Control, NEW w \in Both, RT!Rearm(w) PROVE Control' /\ Flat'
<1> USE RecoveryAssumption DEF Both
<1>4. \A v \in Both : tok'[v] <= cur' /\ (at'[v] = "inside" <=> owner' = v)
  BY DEF Control, RT!Rearm
<1>1. /\ cur' \in 0..MaxToken /\ signalled' \subseteq 0..MaxToken /\ entered' \in 0..MaxToken
      /\ desired' \in {"stopped", "manual", "service"} /\ busy' \in BOOLEAN /\ owner' \in {Dog, User, NoWorker}
  BY DEF Control, RT!Mode, RT!Rearm
<1>2. tok' \in [Both -> 0..MaxToken] /\ at' \in [Both -> {"idle", "armed", "inside"}]
  BY <1>1 DEF Control, RT!Rearm
<1>3. closed' = FALSE /\ \A t \in signalled' : t < cur'
  BY DEF Control, RT!Rearm
<1>5. busy' <=> owner' # NoWorker
  BY DEF Control, RT!Rearm
<1>6. Control'
  BY <1>1, <1>2, <1>3, <1>4, <1>5 DEF Control
<1> QED
  BY <1>6, FactsNext

(* A thread leaves without having acted. *)
LEMMA Drops == ASSUME Control, NEW w \in Both, RT!Drop(w) PROVE Control' /\ Flat'
<1> USE RecoveryAssumption DEF Both
<1>4. \A v \in Both : tok'[v] <= cur' /\ (at'[v] = "inside" <=> owner' = v)
  BY DEF Control, RT!Drop
<1>1. /\ cur' \in 0..MaxToken /\ signalled' \subseteq 0..MaxToken /\ entered' \in 0..MaxToken
      /\ desired' \in {"stopped", "manual", "service"} /\ busy' \in BOOLEAN /\ owner' \in {Dog, User, NoWorker}
  BY DEF Control, RT!Mode, RT!Drop
<1>2. tok' \in [Both -> 0..MaxToken] /\ at' \in [Both -> {"idle", "armed", "inside"}]
  BY <1>1 DEF Control, RT!Drop
<1>3. closed' = FALSE /\ \A t \in signalled' : t < cur'
  BY DEF Control, RT!Drop
<1>5. busy' <=> owner' # NoWorker
  BY DEF Control, RT!Drop
<1>6. Control'
  BY <1>1, <1>2, <1>3, <1>4, <1>5 DEF Control
<1> QED
  BY <1>6, FactsNext

(* A request, by a command or by the watchdog that saw another network. *)
LEMMA Requests ==
    ASSUME Control, NEW w \in Both, NEW d \in RT!Mode, RT!Request(w, d) \/ RT!RequestIfCurrent(w, d)
    PROVE  Control' /\ Flat'
<1> USE RecoveryAssumption DEF Both
<1>0. /\ cur \in 0..MaxToken /\ cur < MaxToken /\ cur' = cur + 1 /\ signalled' = signalled \cup {cur}
      /\ desired' = d /\ entered' = entered /\ owner' = owner /\ busy' = busy /\ closed' = closed
      /\ tok' = [tok EXCEPT ![w] = cur + 1] /\ at' = [at EXCEPT ![w] = "armed"] /\ at[w] # "inside"
  <2>1. ~RT!RequestIfCurrent(w, d) \/ at[w] # "inside"
    BY DEF RT!RequestIfCurrent
  <2> QED
    BY DEF Control, RT!Request, RT!RequestIfCurrent, RT!Supersede
<1>1. /\ cur' \in 0..MaxToken /\ signalled' \subseteq 0..MaxToken /\ entered' \in 0..MaxToken
      /\ desired' \in {"stopped", "manual", "service"} /\ busy' \in BOOLEAN /\ owner' \in {Dog, User, NoWorker}
  <2>1. cur' \in 0..MaxToken
    BY <1>0
  <2>2. signalled' \subseteq 0..MaxToken /\ entered' \in 0..MaxToken
    BY <1>0 DEF Control
  <2>3. desired' \in {"stopped", "manual", "service"} /\ busy' \in BOOLEAN /\ owner' \in {Dog, User, NoWorker}
    BY <1>0 DEF Control, RT!Mode
  <2> QED
    BY <2>1, <2>2, <2>3
<1>2. tok' \in [Both -> 0..MaxToken] /\ at' \in [Both -> {"idle", "armed", "inside"}]
  <2>1. cur + 1 \in 0..MaxToken
    BY <1>0, <1>1
  <2> QED
    BY <1>0, <2>1 DEF Control
<1>3. closed' = FALSE /\ \A t \in signalled' : t < cur'
  <2>1. cur \in Nat /\ \A t \in signalled : t \in 0..MaxToken
    BY <1>0 DEF Control
  <2>2. closed = FALSE /\ \A t \in signalled : t < cur
    BY DEF Control
  <2>3. \A t \in signalled : t < cur + 1
    BY <2>1, <2>2
  <2> QED
    BY <1>0, <2>1, <2>2
<1>4. \A v \in Both : tok'[v] <= cur' /\ (at'[v] = "inside" <=> owner' = v)
  <2>1. \A v \in Both : tok[v] <= cur /\ tok[v] \in Nat /\ (at[v] = "inside" <=> owner = v)
    BY DEF Control
  <2>2. \A v \in Both : tok'[v] \in {tok[v], cur + 1} /\ (at'[v] = "inside" <=> at[v] = "inside")
    BY <1>0 DEF Control
  <2> QED
    BY <1>0, <2>1, <2>2
<1>5. busy' <=> owner' # NoWorker
  BY <1>0 DEF Control
<1>6. Control'
  BY <1>1, <1>2, <1>3, <1>4, <1>5 DEF Control
<1> QED
  BY <1>6, FactsNext

(* transition() admits. *)
LEMMA Enters == ASSUME Control, NEW w \in Both, RT!Enter(w) PROVE Control' /\ Flat'
<1> USE RecoveryAssumption DEF Both
<1>4. \A v \in Both : tok'[v] <= cur' /\ (at'[v] = "inside" <=> owner' = v)
  <2>1. \A v \in Both : tok'[v] <= cur'
    BY DEF Control, RT!Enter
  <2>2. \A v \in Both : at[v] = "inside" <=> owner = v
    BY DEF Control
  <2>3. at \in [Both -> {"idle", "armed", "inside"}]
    BY DEF Control
  <2> QED
    BY <2>1, <2>2, <2>3 DEF RT!Enter
<1>1. /\ cur' \in 0..MaxToken /\ signalled' \subseteq 0..MaxToken /\ entered' \in 0..MaxToken
      /\ desired' \in {"stopped", "manual", "service"} /\ busy' \in BOOLEAN /\ owner' \in {Dog, User, NoWorker}
  BY DEF Control, RT!Mode, RT!Enter
<1>2. tok' \in [Both -> 0..MaxToken] /\ at' \in [Both -> {"idle", "armed", "inside"}]
  BY <1>1 DEF Control, RT!Enter
<1>3. closed' = FALSE /\ \A t \in signalled' : t < cur'
  BY DEF Control, RT!Enter
<1>5. busy' <=> owner' # NoWorker
  BY DEF Control, RT!Enter
<1>6. Control'
  BY <1>1, <1>2, <1>3, <1>4, <1>5 DEF Control
<1> QED
  BY <1>6, FactsNext

(* transition() ends. *)
LEMMA Leaves == ASSUME Control, NEW w \in Both, RT!Leave(w) PROVE Control' /\ Flat'
<1> USE RecoveryAssumption DEF Both
<1>4. \A v \in Both : tok'[v] <= cur' /\ (at'[v] = "inside" <=> owner' = v)
  <2>1. \A v \in Both : tok'[v] <= cur'
    BY DEF Control, RT!Leave, RT!Held
  <2>2. \A v \in Both : at[v] = "inside" <=> owner = v
    BY DEF Control
  <2>3. at \in [Both -> {"idle", "armed", "inside"}]
    BY DEF Control
  <2> QED
    BY <2>1, <2>2, <2>3 DEF RT!Leave, RT!Held
<1>1. /\ cur' \in 0..MaxToken /\ signalled' \subseteq 0..MaxToken /\ entered' \in 0..MaxToken
      /\ desired' \in {"stopped", "manual", "service"} /\ busy' \in BOOLEAN /\ owner' \in {Dog, User, NoWorker}
  BY DEF Control, RT!Leave
<1>2. tok' \in [Both -> 0..MaxToken] /\ at' \in [Both -> {"idle", "armed", "inside"}]
  BY DEF Control, RT!Leave
<1>3. closed' = FALSE /\ \A t \in signalled' : t < cur'
  BY DEF Control, RT!Leave, RT!Held
<1>5. busy' <=> owner' # NoWorker
  BY DEF Control, RT!Leave, RT!Held
<1>6. Control'
  BY <1>1, <1>2, <1>3, <1>4, <1>5 DEF Control
<1> QED
  BY <1>6, FactsNext

(* The admitted thread sets the mode. *)
LEMMA Sets == ASSUME Control, NEW w \in Both, NEW d \in RT!Mode, RT!SetDesired(w, d) PROVE Control' /\ Flat'
<1> USE RecoveryAssumption DEF Both
<1>4. \A v \in Both : tok'[v] <= cur' /\ (at'[v] = "inside" <=> owner' = v)
  BY DEF Control, RT!SetDesired
<1>1. /\ cur' \in 0..MaxToken /\ signalled' \subseteq 0..MaxToken /\ entered' \in 0..MaxToken
      /\ desired' \in {"stopped", "manual", "service"} /\ busy' \in BOOLEAN /\ owner' \in {Dog, User, NoWorker}
  BY DEF Control, RT!Mode, RT!SetDesired
<1>2. tok' \in [Both -> 0..MaxToken] /\ at' \in [Both -> {"idle", "armed", "inside"}]
  BY <1>1 DEF Control, RT!SetDesired
<1>3. closed' = FALSE /\ \A t \in signalled' : t < cur'
  BY DEF Control, RT!SetDesired
<1>5. busy' <=> owner' # NoWorker
  BY DEF Control, RT!SetDesired
<1>6. Control'
  BY <1>1, <1>2, <1>3, <1>4, <1>5 DEF Control
<1> QED
  BY <1>6, FactsNext

(* A step that leaves the controller alone. *)
LEMMA Stays == ASSUME Control, UNCHANGED ctl PROVE Control' /\ Flat'
<1> USE RecoveryAssumption DEF Both
<1>4. \A v \in Both : tok'[v] <= cur' /\ (at'[v] = "inside" <=> owner' = v)
  BY DEF Control, ctl
<1>1. /\ cur' \in 0..MaxToken /\ signalled' \subseteq 0..MaxToken /\ entered' \in 0..MaxToken
      /\ desired' \in {"stopped", "manual", "service"} /\ busy' \in BOOLEAN /\ owner' \in {Dog, User, NoWorker}
  BY DEF Control, RT!Mode, ctl
<1>2. tok' \in [Both -> 0..MaxToken] /\ at' \in [Both -> {"idle", "armed", "inside"}]
  BY <1>1 DEF Control, ctl
<1>3. closed' = FALSE /\ \A t \in signalled' : t < cur'
  BY DEF Control, ctl
<1>5. busy' <=> owner' # NoWorker
  BY DEF Control, ctl
<1>6. Control'
  BY <1>1, <1>2, <1>3, <1>4, <1>5 DEF Control
<1> QED
  BY <1>6, FactsNext

(* A program that runs some time after a start. *)
LEMMA InitInv == Init => RecoveryInv
<1> SUFFICES ASSUME Init PROVE RecoveryInv
  OBVIOUS
<1> USE RecoveryAssumption DEF Init
<1>1. Pool[1] \in Strategy /\ <<>> \in Seq(Strategy)
  OBVIOUS
<1>3. Control
  <2>1. tok \in [Both -> 0..MaxToken] /\ at \in [Both -> {"idle", "armed", "inside"}]
    BY DEF Both
  <2>2. cur \in 0..MaxToken /\ entered \in 0..MaxToken /\ desired \in {"stopped", "manual", "service"}
    OBVIOUS
  <2>3. /\ \A t \in signalled : t < cur
        /\ \A w \in Both : tok[w] <= cur /\ (at[w] = "inside" <=> owner = w)
    BY <2>2 DEF Both
  <2> QED
    BY <2>1, <2>3 DEF Control
<1>4. Values
  BY <1>1 DEF Values, Some
<1>5. Counters /\ Placing
  BY DEF Counters, Placing, DogPlace, Threshold
<1>6. Stopping /\ Switching /\ Walking /\ Retrying /\ HealthIsCurrent
  BY DEF Stopping, StopSurvivesRecovery, Switching, Walking, Retrying, Restarting, HealthIsCurrent, Delays
<1> QED
  BY <1>3, <1>4, <1>5, <1>6 DEF RecoveryInv

(* The end of _recover, from wherever it returns. *)
LEMMA OverKeeps ==
  ASSUME RecoveryInv, Over, pc \in {"over", "raised", "recover", "pick", "delay"},
         pc = "delay" => tok[Dog] # cur, pc = "recover" => fruitless = 0 \/ exhausted = tok[Dog] \/ tok[Dog] # cur
  PROVE  RecoveryInv'
<1> USE RecoveryAssumption DEF Over, Continue
<1>0. /\ Control /\ Values /\ Counters /\ Placing /\ Stopping
      /\ Switching /\ Walking /\ Retrying /\ HealthIsCurrent /\ Flat
  BY Facts DEF RecoveryInv
<1>1. Control' /\ Flat'
  BY <1>0, Drops DEF Both
<1>2. /\ at' = [at EXCEPT ![Dog] = "idle"] /\ pc' = "loop"
      /\ cur' = cur /\ desired' = desired /\ tok' = tok /\ owner' = owner /\ busy' = busy
  BY DEF RT!Drop
<1>3. Values'
  <2>1. <<>> \in Seq(Strategy) /\ None \in Some
    BY DEF Some
  <2> QED
    BY <1>0, <2>1 DEF Values
<1>4. Counters'
  BY <1>0 DEF Counters, Threshold
<1>5. Placing'
  BY <1>0, <1>2 DEF Placing, DogPlace, Flat, Both
<1>6. Stopping'
  BY <1>0, <1>2 DEF Stopping, StopSurvivesRecovery
<1>7. Switching' /\ Walking'
  BY <1>2 DEF Switching, Walking, Original
<1>8. Retrying'
  BY <1>0, <1>2 DEF Retrying, Restarting, Counters, Delays
<1>9. HealthIsCurrent'
  BY <1>0, <1>2 DEF HealthIsCurrent, ui
<1> QED
  BY <1>1, <1>3, <1>4, <1>5, <1>6, <1>7, <1>8, <1>9 DEF RecoveryInv

(* Every step of the watchdog, of the commands, of the health check and of the world. *)
LEMMA StepInv == RecoveryInv /\ [Next]_vars => RecoveryInv'
<1> SUFFICES ASSUME RecoveryInv, [Next]_vars PROVE RecoveryInv'
  OBVIOUS
<1> USE RecoveryAssumption
<1>0. /\ Control /\ Values /\ Counters /\ Placing /\ Stopping
      /\ Switching /\ Walking /\ Retrying /\ HealthIsCurrent /\ Flat
  BY Facts DEF RecoveryInv
<1>1. CASE Begin
  <2>1. Control' /\ Flat'
    BY <1>0, <1>1, Captures DEF Begin, Both
  <2>2. cur' = cur /\ desired' = desired /\ tok'[Dog] = cur /\ tok'[User] = tok[User] /\ at'[User] = at[User]
          /\ at'[Dog] = "armed"
    BY <1>0, <1>1 DEF Begin, RT!Capture, Flat, Both
  <2>3. Values'
    BY <1>0, <1>1 DEF Begin, bypass, walk, Values
  <2>4. Counters'
    BY <1>0, <1>1 DEF Begin, Forget, walk, Counters, Threshold
  <2>5. Placing'
    BY <1>0, <1>1, <2>2 DEF Begin, bypass, Placing, DogPlace
  <2>6. Stopping'
    BY <1>0, <1>1, <2>2 DEF Begin, bypass, Stopping, StopSurvivesRecovery
  <2>7. Switching'
    BY <1>1 DEF Begin, Switching
  <2>8. Walking'
    BY <1>1 DEF Begin, Walking, Original
  <2>9. Retrying'
    BY <1>0, <1>1, <2>2 DEF Begin, Retrying, Restarting, Delays, Placing
  <2>10. HealthIsCurrent'
    BY <1>0, <1>1, <2>2 DEF Begin, ui, HealthIsCurrent
  <2> QED
    BY <2>1, <2>3, <2>4, <2>5, <2>6, <2>7, <2>8, <2>9, <2>10 DEF RecoveryInv
<1>2. CASE Sleep
  <2>1. Control' /\ Flat'
    BY <1>0, <1>2, Drops, Stays DEF Sleep, Continue, Both
  <2>2. tok' = tok /\ cur' = cur /\ desired' = desired /\ at'[User] = at[User]
          /\ at'[Dog] = IF pc' = "loop" THEN "idle" ELSE at[Dog]
    BY <1>0, <1>2 DEF Sleep, Continue, RT!Drop, ctl, Flat, Both
  <2>3. Values'
    BY <1>0, <1>2 DEF Sleep, bypass, walk, memory, Values
  <2>4. Counters'
    BY <1>0, <1>2 DEF Sleep, Forget, walk, memory, Counters, Threshold
  <2>5. Placing'
    BY <1>0, <1>2, <2>2 DEF Sleep, Continue, bypass, memory, Placing, DogPlace
  <2>6. Stopping'
    BY <1>0, <1>2, <2>2 DEF Sleep, Continue, bypass, Stopping, StopSurvivesRecovery
  <2>7. Switching'
    BY <1>2 DEF Sleep, Continue, Switching
  <2>8. Walking'
    BY <1>2 DEF Sleep, Continue, Walking, Original
  <2>9. Retrying'
    BY <1>0, <1>2, <2>2 DEF Sleep, Continue, memory, Retrying, Restarting
  <2>10. HealthIsCurrent'
    BY <1>0, <1>2, <2>2 DEF Sleep, ui, HealthIsCurrent
  <2> QED
    BY <2>1, <2>3, <2>4, <2>5, <2>6, <2>7, <2>8, <2>9, <2>10 DEF RecoveryInv
<1>3. CASE LookNetwork
  <2>1. Control' /\ Flat'
    BY <1>0, <1>3, Stays DEF LookNetwork
  <2>2. tok' = tok /\ cur' = cur /\ desired' = desired /\ at'[User] = at[User] /\ at'[Dog] = at[Dog]
    BY <1>3 DEF LookNetwork, ctl
  <2>3. Values'
    BY <1>0, <1>3 DEF LookNetwork, bypass, walk, memory, Values
  <2>4. Counters'
    BY <1>0, <1>3 DEF LookNetwork, walk, memory, Counters
  <2>5. Placing'
    BY <1>0, <1>3, <2>2 DEF LookNetwork, bypass, memory, Placing, DogPlace
  <2>6. Stopping'
    BY <1>0, <1>3, <2>2 DEF LookNetwork, bypass, Stopping, StopSurvivesRecovery
  <2>7. Switching'
    BY <1>3 DEF LookNetwork, Switching
  <2>8. Walking'
    BY <1>3 DEF LookNetwork, Walking, Original
  <2>9. Retrying'
    BY <1>0, <1>3, <2>2 DEF LookNetwork, memory, Retrying, Restarting
  <2>10. HealthIsCurrent'
    BY <1>0, <1>3, <2>2 DEF LookNetwork, ui, HealthIsCurrent
  <2> QED
    BY <2>1, <2>3, <2>4, <2>5, <2>6, <2>7, <2>8, <2>9, <2>10 DEF RecoveryInv
<1>4. CASE LookMoved
  <2>1. CASE RT!RequestIfCurrent(Dog, desired)
    <3>0. /\ tok[Dog] = cur /\ pc' = "managed" /\ pc = "look" /\ posted' = TRUE /\ fruitless' = 0 /\ episode' = cur + 1
          /\ stopped' = stopped /\ job' = job /\ runs' = runs /\ recBusy' = recBusy /\ sw' = sw
      BY <1>4, <2>1 DEF LookMoved, RT!RequestIfCurrent, Mine, bypass, walk
    <3>1. Control' /\ Flat'
      BY <1>0, <2>1, Requests DEF Both, Flat, RT!Mode
    <3>2. cur' = cur + 1 /\ tok'[Dog] = cur' /\ tok'[User] = tok[User] /\ at'[User] = at[User]
            /\ at'[Dog] = "armed" /\ desired' = desired
      BY <1>0, <2>1 DEF RT!RequestIfCurrent, RT!Supersede, Flat, Both
    <3>3. Values'
      BY <1>0, <1>4, <3>0 DEF LookMoved, Continue, bypass, walk, Values
    <3>4. Counters'
      BY <1>0, <1>4, <3>0 DEF LookMoved, Continue, Forget, walk, Counters, Threshold
    <3>5. Placing'
      BY <1>0, <3>0, <3>2 DEF Placing, DogPlace
    <3>6. Stopping'
      BY <1>0, <3>0 DEF Stopping, StopSurvivesRecovery
    <3>7. Switching'
      BY <3>0 DEF Switching
    <3>8. Walking'
      BY <3>0 DEF Walking, Original
    <3>9. Retrying'
      BY <3>0 DEF Retrying, Restarting, Delays
    <3>10. HealthIsCurrent'
      BY <3>0 DEF HealthIsCurrent
    <3> QED
      BY <3>1, <3>3, <3>4, <3>5, <3>6, <3>7, <3>8, <3>9, <3>10 DEF RecoveryInv
  <2>2. CASE ~RT!RequestIfCurrent(Dog, desired)
    <3>1. Control' /\ Flat'
      BY <1>0, <1>4, <2>2, Drops DEF LookMoved, Continue, Both
    <3>2. tok' = tok /\ cur' = cur /\ desired' = desired /\ at'[User] = at[User] /\ at'[Dog] = "idle"
      BY <1>0, <1>4, <2>2 DEF LookMoved, Continue, RT!Drop, Flat, Both
    <3>3. Values'
      BY <1>0, <1>4 DEF LookMoved, bypass, walk, memory, Values
    <3>4. Counters'
      BY <1>0, <1>4, <2>2 DEF LookMoved, walk, count, memory, Counters
    <3>5. Placing'
      BY <1>0, <1>4, <2>2, <3>2 DEF LookMoved, Continue, bypass, count, memory, Placing, DogPlace
    <3>6. Stopping'
      BY <1>0, <1>4, <3>2 DEF LookMoved, bypass, Stopping, StopSurvivesRecovery
    <3>7. Switching'
      BY <1>4 DEF LookMoved, Continue, Switching
    <3>8. Walking'
      BY <1>4 DEF LookMoved, Continue, Walking, Original
    <3>9. Retrying'
      BY <1>0, <1>4, <2>2, <3>2 DEF LookMoved, Continue, memory, Retrying, Restarting
    <3>10. HealthIsCurrent'
      BY <1>0, <1>4, <3>2 DEF LookMoved, ui, HealthIsCurrent
    <3> QED
      BY <3>1, <3>3, <3>4, <3>5, <3>6, <3>7, <3>8, <3>9, <3>10 DEF RecoveryInv
  <2> QED
    BY <2>1, <2>2
<1>5. CASE Managed
  <2>1. Control' /\ Flat'
    BY <1>0, <1>5, Stays DEF Managed
  <2>2. tok' = tok /\ cur' = cur /\ desired' = desired /\ at'[User] = at[User] /\ at'[Dog] = at[Dog]
    BY <1>5 DEF Managed, ctl
  <2>3. Values'
    BY <1>0, <1>5 DEF Managed, Recover, bypass, walk, Values, Switching
  <2>4. Counters'
    BY <1>0, <1>5 DEF Managed, Recover, walk, count, Counters
  <2>5. Placing'
    BY <1>0, <1>5, <2>2 DEF Managed, Recover, bypass, count, Placing, DogPlace
  <2>6. Stopping'
    BY <1>0, <1>5, <2>2 DEF Managed, bypass, Stopping, StopSurvivesRecovery
  <2>7. Switching'
    BY <1>5 DEF Managed, Recover, Switching
  <2>8. Walking'
    BY <1>5 DEF Managed, Recover, Walking, Original
  <2>9. Retrying'
    BY <1>0, <1>5, <2>2 DEF Managed, Recover, Retrying, Restarting
  <2>10. HealthIsCurrent'
    BY <1>0, <1>5, <2>2 DEF Managed, Recover, ui, HealthIsCurrent
  <2> QED
    BY <2>1, <2>3, <2>4, <2>5, <2>6, <2>7, <2>8, <2>9, <2>10 DEF RecoveryInv
<1>6. CASE Probe
  <2>1. Control' /\ Flat'
    BY <1>0, <1>6, Stays, Drops DEF Probe, Probed, Continue, Both
  <2>2. tok' = tok /\ cur' = cur /\ desired' = desired /\ at'[User] = at[User]
          /\ at'[Dog] = IF pc' = "loop" THEN "idle" ELSE at[Dog]
    BY <1>0, <1>6 DEF Probe, Probed, Recover, Continue, RT!Drop, ctl, Flat, Both
  <2>3. Values'
    <3>1. tried' \subseteq Strategy
      BY <1>0, <1>6 DEF Probe, Probed, memory, Values
    <3>2. /\ runs' = runs /\ installed' = installed /\ active' = active /\ saved' = saved /\ job' = job
          /\ goal' = goal /\ orig' = orig /\ cands' = cands /\ undo' = undo /\ offline' = offline
          /\ overtaken' = overtaken
      BY <1>6 DEF Probe, Probed, Recover, bypass, walk, count, memory, ui
    <3>3. sw' \in {sw, TRUE} /\ recBusy' \in {recBusy, TRUE}
      BY <1>6, Zenon DEF Probe, Probed, Recover, bypass, walk, count, memory, ui
    <3>4. sw' \in BOOLEAN /\ recBusy' \in BOOLEAN
      BY <1>0, <3>3 DEF Values
    <3> QED
      BY <1>0, <3>1, <3>2, <3>4 DEF Values
  <2>4. Counters'
    BY <1>0, <1>6, CountsTypes DEF Probe, Probed, Recover, walk, count, memory, Counters
  <2>5. Placing'
    BY <1>0, <1>6, <2>2 DEF Probe, Probed, Recover, Continue, bypass, count, memory, Placing, DogPlace
  <2>6. Stopping'
    BY <1>0, <1>6, <2>2 DEF Probe, Probed, Recover, bypass, Stopping, StopSurvivesRecovery
  <2>7. Switching'
    BY <1>6 DEF Probe, Probed, Recover, Continue, Switching
  <2>8. Walking'
    BY <1>6 DEF Probe, Probed, Recover, Continue, Walking, Original
  <2>9. Retrying'
    BY <1>0, <1>6, <2>2 DEF Probe, Probed, Recover, Continue, memory, Retrying, Restarting
  <2>10. HealthIsCurrent'
    BY <1>0, <1>6, <2>2 DEF Probe, Probed, Recover, ui, HealthIsCurrent
  <2> QED
    BY <2>1, <2>3, <2>4, <2>5, <2>6, <2>7, <2>8, <2>9, <2>10 DEF RecoveryInv
<1>7. CASE Impl
  <2>1. CASE (desired = "stopped" \/ ~Live \/ Spent) /\ Over
    BY <1>0, <1>7, <2>1, OverKeeps DEF Impl, Retrying, Restarting
  <2>2. CASE ~((desired = "stopped" \/ ~Live \/ Spent) /\ Over)
    <3>0. /\ tok[Dog] = cur /\ ~stopped /\ orig' \in Strategy /\ orig' = Original /\ Original' = Original
          /\ cands' \in Seq(Strategy) /\ (sw \/ exhausted # tok[Dog])
          /\ delay' = 0 /\ pc = "recover" /\ pc' = IF sw THEN "pick" ELSE "delay"
          /\ stopped' = stopped /\ job' = job /\ runs' = runs /\ sw' = sw /\ fruitless' = fruitless /\ exhausted' = exhausted
      <4>1. tok[Dog] = cur /\ ~stopped
        BY <1>0, <1>7, <2>2 DEF Impl, Flat, Stopping
      <4>2. orig' \in Strategy /\ orig' = Original /\ Original' = Original /\ cands' = Kept(Pool, Strategy \ ({orig'} \cup tried))
        BY <1>0, <1>7, <2>2 DEF Impl, Values, Original, Some, bypass
      <4>3. cands' \in Seq(Strategy)
        BY <4>2, KeptIsPart
      <4>4. /\ sw \/ exhausted # tok[Dog]
            /\ delay' = 0 /\ pc = "recover" /\ pc' = IF sw THEN "pick" ELSE "delay"
            /\ stopped' = stopped /\ job' = job /\ runs' = runs /\ sw' = sw /\ fruitless' = fruitless
                    /\ exhausted' = exhausted
        BY <1>7, <2>2 DEF Impl, Spent, Mine, bypass, memory
      <4> QED
        BY <4>1, <4>2, <4>3, <4>4
    <3>1. Control' /\ Flat'
      BY <1>0, <1>7, <2>2, Stays DEF Impl
    <3>2. tok' = tok /\ cur' = cur /\ desired' = desired /\ at'[User] = at[User] /\ at'[Dog] = at[Dog]
      BY <1>7, <2>2 DEF Impl, ctl
    <3>3. Values'
      BY <1>0, <1>7, <2>2, <3>0 DEF Impl, bypass, memory, Values, Some
    <3>4. Counters'
      BY <1>0, <1>7, <2>2, <3>0 DEF Impl, count, Counters
    <3>5. Placing'
      BY <1>0, <1>7, <2>2, <3>0, <3>2 DEF Impl, count, memory, Placing, DogPlace
    <3>6. Stopping'
      BY <1>0, <3>0 DEF Stopping, StopSurvivesRecovery
    <3>7. Switching'
      BY <3>0 DEF Switching
    <3>8. Walking'
      BY <3>0 DEF Walking
    <3>9. Retrying'
      BY <1>0, <3>0, <3>2 DEF Retrying, Restarting
    <3>10. HealthIsCurrent'
      BY <1>0, <1>7, <2>2, <3>2 DEF Impl, ui, HealthIsCurrent
    <3> QED
      BY <3>1, <3>3, <3>4, <3>5, <3>6, <3>7, <3>8, <3>9, <3>10 DEF RecoveryInv
  <2> QED
    BY <2>1, <2>2
<1>8. CASE Pick
  <2>1. CASE (~Live \/ cands = <<>>) /\ Over
    BY <1>8, <2>1, OverKeeps DEF Pick
  <2>2. CASE ~((~Live \/ cands = <<>>) /\ Over)
    <3>0. /\ tok[Dog] = cur /\ ~stopped /\ goal' \in Strategy /\ cands' \in Seq(Strategy) /\ pc = "pick" /\ pc' = "enter"
          /\ stopped' = stopped /\ job' = job /\ runs' = runs /\ sw' = sw /\ orig' = orig
      <4>1. tok[Dog] = cur /\ ~stopped /\ cands # <<>>
        BY <1>0, <1>8, <2>2 DEF Pick, Flat, Stopping
      <4>2. Head(cands) \in Strategy /\ Tail(cands) \in Seq(Strategy)
        BY <1>0, <4>1 DEF Values
      <4> QED
        BY <4>1, <4>2, <1>8, <2>2 DEF Pick, bypass
    <3>1. Control' /\ Flat'
      BY <1>0, <1>8, <2>2, Stays DEF Pick
    <3>2. tok' = tok /\ cur' = cur /\ desired' = desired /\ at'[User] = at[User] /\ at'[Dog] = at[Dog]
      BY <1>8, <2>2 DEF Pick, ctl
    <3>3. Values'
      BY <1>0, <1>8, <2>2, <3>0, <3>1, <3>2 DEF Pick, bypass, walk, count, memory, ui, Values, Some, Switching
    <3>4. Counters'
      BY <1>0, <1>8, <2>2 DEF Pick, count, memory, Counters
    <3>5. Placing'
      BY <1>0, <1>8, <2>2, <3>0, <3>2 DEF Pick, count, memory, Placing, DogPlace
    <3>6. Stopping'
      BY <1>0, <3>0 DEF Stopping, StopSurvivesRecovery
    <3>7. Switching'
      BY <1>0, <3>0 DEF Switching
    <3>8. Walking'
      BY <3>0 DEF Walking, Original
    <3>9. Retrying'
      BY <1>0, <1>8, <2>2, <3>2 DEF Pick, memory, Retrying, Restarting, Switching
    <3>10. HealthIsCurrent'
      BY <1>0, <1>8, <2>2, <3>2 DEF Pick, ui, HealthIsCurrent
    <3> QED
      BY <3>1, <3>3, <3>4, <3>5, <3>6, <3>7, <3>8, <3>9, <3>10 DEF RecoveryInv
  <2> QED
    BY <2>1, <2>2
<1>9. CASE Delay
  <2>1. CASE ~Live /\ Over
    BY <1>0, <1>9, <2>1, OverKeeps DEF Delay, Flat
  <2>2. CASE ~(~Live /\ Over)
    <3>0. /\ tok[Dog] = cur /\ ~stopped /\ pc = "delay" /\ fruitless' = fruitless /\ sw' = sw
          /\ stopped' = stopped /\ job' = job /\ runs' = runs
          /\ \/ delay < Delays /\ delay' = delay + 1 /\ pc' = "enter"
             \/ delay' = delay /\ delay = Delays /\ exhausted' = tok[Dog] /\ pc' = "over"
      BY <1>0, <1>9, <2>2 DEF Delay, Flat, Stopping, bypass, walk, memory, Mine
    <3>1. Control' /\ Flat'
      BY <1>0, <1>9, <2>2, Stays DEF Delay
    <3>2. tok' = tok /\ cur' = cur /\ desired' = desired /\ at'[User] = at[User] /\ at'[Dog] = at[Dog]
      BY <1>9, <2>2 DEF Delay, ctl
    <3>3. Values'
      BY <1>0, <1>9, <2>2 DEF Delay, bypass, walk, memory, Values
    <3>4. Counters'
      BY <1>0, <1>9, <3>0 DEF Delay, count, memory, Counters, Flat
    <3>5. Placing'
      BY <1>0, <1>9, <2>2, <3>0, <3>2 DEF Delay, count, memory, Placing, DogPlace
    <3>6. Stopping'
      BY <1>0, <3>0 DEF Stopping, StopSurvivesRecovery
    <3>7. Switching'
      BY <1>0, <3>0 DEF Switching
    <3>8. Walking'
      BY <1>0, <3>0 DEF Walking, Original, Switching
    <3>9. Retrying'
      BY <1>0, <3>0, <3>2 DEF Retrying, Restarting, Delays, Counters, Switching
    <3>10. HealthIsCurrent'
      BY <1>0, <1>9, <2>2, <3>2 DEF Delay, ui, HealthIsCurrent
    <3> QED
      BY <3>1, <3>3, <3>4, <3>5, <3>6, <3>7, <3>8, <3>9, <3>10 DEF RecoveryInv
  <2> QED
    BY <2>1, <2>2
<1>10. CASE Enter
  <2>1. Control' /\ Flat'
    BY <1>0, <1>10, Enters, Stays DEF Enter, Both
  <2>2. tok' = tok /\ cur' = cur /\ desired' = desired /\ at'[User] = at[User]
          /\ at'[Dog] = IF pc' = "halt" THEN "inside" ELSE at[Dog]
    BY <1>0, <1>10 DEF Enter, RT!Enter, ctl, Flat, Both
  <2>3. Values'
    BY <1>0, <1>10 DEF Enter, bypass, memory, Values
  <2>4. Counters'
    BY <1>0, <1>10 DEF Enter, count, memory, Counters
  <2>5. Placing'
    BY <1>0, <1>10, <2>2 DEF Enter, bypass, count, memory, Placing, DogPlace
  <2>6. Stopping'
    BY <1>0, <1>10, <2>2 DEF Enter, bypass, Stopping, StopSurvivesRecovery
  <2>7. Switching'
    BY <1>0, <1>10 DEF Enter, Switching
  <2>8. Walking'
    BY <1>0, <1>10, <2>2 DEF Enter, Walking, Original, Flat
  <2>9. Retrying'
    BY <1>0, <1>10, <2>2 DEF Enter, memory, Retrying, Restarting, Delays, Counters, Flat
  <2>10. HealthIsCurrent'
    BY <1>0, <1>10, <2>2 DEF Enter, HealthIsCurrent
  <2> QED
    BY <2>1, <2>3, <2>4, <2>5, <2>6, <2>7, <2>8, <2>9, <2>10 DEF RecoveryInv
<1>11. CASE Halt
  <2>1. Control' /\ Flat'
    BY <1>0, <1>11, Leaves, Stays DEF Halt, LeaveWith, Both
  <2>2. tok' = tok /\ cur' = cur /\ desired' = desired /\ at'[User] = at[User]
          /\ at'[Dog] = IF pc' = "settle" THEN "idle" ELSE at[Dog]
    BY <1>0, <1>11 DEF Halt, LeaveWith, RT!Leave, ctl, Flat, Both
  <2>3. Values'
    BY <1>0, <1>11 DEF Halt, LeaveWith, walk, memory, Values, Some
  <2>4. Counters'
    BY <1>0, <1>11 DEF Halt, LeaveWith, walk, count, memory, Counters
  <2>5. Placing'
    BY <1>0, <1>11, <2>2 DEF Halt, LeaveWith, count, memory, Placing, DogPlace
  <2>6. Stopping'
    BY <1>0, <1>11, <2>2 DEF Halt, Stopping, StopSurvivesRecovery
  <2>7. Switching'
    BY <1>0, <1>11 DEF Halt, LeaveWith, walk, Switching
  <2>8. Walking'
    BY <1>11 DEF Halt, LeaveWith, Walking, Original
  <2>9. Retrying'
    BY <1>0, <1>11, <2>2 DEF Halt, LeaveWith, walk, memory, Retrying, Restarting
  <2>10. HealthIsCurrent'
    BY <1>0, <1>11, <2>2 DEF Halt, ui, HealthIsCurrent
  <2> QED
    BY <2>1, <2>3, <2>4, <2>5, <2>6, <2>7, <2>8, <2>9, <2>10 DEF RecoveryInv
<1>12. CASE Spawn
  <2>0. /\ Live => tok[Dog] = cur /\ ~stopped
        /\ Target \in Some /\ (sw => Target = IF undo THEN orig ELSE goal)
        /\ sw' = sw /\ undo' = undo /\ orig' = orig /\ goal' = goal /\ overtaken' = overtaken /\ pc' = "settle"
        /\ sw /\ outcome' = "spawned" => active' = Target
    <3>1. Live => tok[Dog] = cur /\ ~stopped
      BY <1>0, <1>12 DEF Spawn, Flat, Stopping
    <3>2. Target \in Some /\ (sw => Target = IF undo THEN orig ELSE goal)
      BY <1>0 DEF Target, Values
    <3>3. /\ sw' = sw /\ undo' = undo /\ orig' = orig /\ goal' = goal /\ overtaken' = overtaken /\ pc' = "settle"
          /\ sw /\ outcome' = "spawned" => active' = Target
      BY <1>12 DEF Spawn, LeaveWith, bypass
    <3> QED
      BY <3>1, <3>2, <3>3
  <2>1. Control' /\ Flat'
    BY <1>0, <1>12, Leaves DEF Spawn, LeaveWith, Both
  <2>2. tok' = tok /\ cur' = cur /\ desired' = desired /\ at'[User] = at[User] /\ at'[Dog] = "idle"
    BY <1>0, <1>12 DEF Spawn, LeaveWith, RT!Leave, Flat, Both
  <2>3. Values'
    BY <1>0, <1>12, <2>0 DEF Spawn, LeaveWith, bypass, memory, Values
  <2>4. Counters'
    BY <1>0, <1>12 DEF Spawn, LeaveWith, count, memory, Counters
  <2>5. Placing'
    BY <1>0, <1>12, <2>0, <2>2 DEF Spawn, bypass, count, memory, Placing, DogPlace
  <2>6. Stopping'
    BY <1>0, <1>12, <2>0, <2>2 DEF Spawn, bypass, Stopping, StopSurvivesRecovery
  <2>7. Switching'
    BY <1>0, <1>12, <2>2 DEF Spawn, LeaveWith, Switching, Flat
  <2>8. Walking'
    BY <2>0 DEF Walking, Original
  <2>9. Retrying'
    BY <1>0, <1>12, <2>2 DEF Spawn, LeaveWith, memory, Retrying, Restarting
  <2>10. HealthIsCurrent'
    BY <1>0, <1>12, <2>2 DEF Spawn, ui, HealthIsCurrent
  <2> QED
    BY <2>1, <2>3, <2>4, <2>5, <2>6, <2>7, <2>8, <2>9, <2>10 DEF RecoveryInv
<1>13. CASE Settle
  <2>1. Control' /\ Flat'
    BY <1>0, <1>13, Rearms DEF Settle, Both
  <2>2. tok' = tok /\ cur' = cur /\ desired' = desired /\ at'[User] = at[User] /\ at'[Dog] = "armed"
    BY <1>0, <1>13 DEF Settle, RT!Rearm, Flat, Both
  <2>3. Values'
    BY <1>0, <1>13 DEF Settle, Blamed, bypass, Values, Switching
  <2>4. Counters'
    BY <1>0, <1>13 DEF Settle, count, Counters
  <2>5. Placing'
    BY <1>0, <1>13, <2>2 DEF Settle, bypass, count, Placing, DogPlace
  <2>6. Stopping'
    BY <1>0, <1>13, <2>2 DEF Settle, bypass, Stopping, StopSurvivesRecovery
  <2>7. Switching'
    BY <1>0, <1>13 DEF Settle, Switching
  <2>8. Walking'
    BY <1>0, <1>13, <2>2 DEF Settle, CutShort, Up, bypass, Walking, Original, Switching, Flat
  <2>9. Retrying'
    BY <1>0, <1>13, <2>2 DEF Settle, CutShort, Retrying, Restarting, Delays, Counters, Switching, Flat
  <2>10. HealthIsCurrent'
    BY <1>0, <1>13, <2>2 DEF Settle, ui, HealthIsCurrent
  <2> QED
    BY <2>1, <2>3, <2>4, <2>5, <2>6, <2>7, <2>8, <2>9, <2>10 DEF RecoveryInv
<1>14. CASE Verify
  <2>1. Control' /\ Flat'
    BY <1>0, <1>14, Stays DEF Verify
  <2>2. tok' = tok /\ cur' = cur /\ desired' = desired /\ at'[User] = at[User] /\ at'[Dog] = at[Dog]
    BY <1>14 DEF Verify, ctl
  <2>3. Values'
    BY <1>0, <1>14 DEF Verify, bypass, walk, Values
  <2>4. Counters'
    BY <1>0, <1>14 DEF Verify, walk, count, Counters
  <2>5. Placing'
    BY <1>0, <1>14, <2>2 DEF Verify, bypass, count, Placing, DogPlace
  <2>6. Stopping'
    BY <1>0, <1>14, <2>2 DEF Verify, bypass, Stopping, StopSurvivesRecovery
  <2>7. Switching'
    BY <1>0, <1>14 DEF Verify, walk, Switching
  <2>8. Walking'
    BY <1>0, <1>14 DEF Verify, walk, Walking, Original, Switching
  <2>9. Retrying'
    BY <1>0, <1>14, <2>2 DEF Verify, walk, Retrying, Restarting, Delays, Counters, Switching, Flat
  <2>10. HealthIsCurrent'
    BY <1>0, <1>14, <2>2 DEF Verify, ui, HealthIsCurrent
  <2> QED
    BY <2>1, <2>3, <2>4, <2>5, <2>6, <2>7, <2>8, <2>9, <2>10 DEF RecoveryInv
<1>15. CASE Measure
  <2>1. Control' /\ Flat'
    BY <1>0, <1>15, Stays DEF Measure
  <2>2. tok' = tok /\ cur' = cur /\ desired' = desired /\ at'[User] = at[User] /\ at'[Dog] = at[Dog]
    BY <1>15 DEF Measure, ctl
  <2>3. Values'
    BY <1>0, <1>15 DEF Measure, bypass, memory, Values
  <2>4. Counters'
    BY <1>0, <1>15 DEF Measure, count, memory, Counters
  <2>5. Placing'
    BY <1>0, <1>15, <2>2 DEF Measure, bypass, count, memory, Placing, DogPlace
  <2>6. Stopping'
    BY <1>0, <1>15, <2>2 DEF Measure, bypass, Stopping, StopSurvivesRecovery
  <2>7. Switching'
    BY <1>0, <1>15 DEF Measure, Switching
  <2>8. Walking'
    BY <1>0, <1>15, <2>2 DEF Measure, bypass, Walking, Original, Flat
  <2>9. Retrying'
    BY <1>0, <1>15, <2>2 DEF Measure, memory, Retrying, Restarting
  <2>10. HealthIsCurrent'
    BY <1>0, <1>15, <2>2 DEF Measure, ui, HealthIsCurrent
  <2> QED
    BY <2>1, <2>3, <2>4, <2>5, <2>6, <2>7, <2>8, <2>9, <2>10 DEF RecoveryInv
<1>16. CASE Commit
  <2>1. Control' /\ Flat'
    BY <1>0, <1>16, Stays DEF Commit
  <2>2. tok' = tok /\ cur' = cur /\ desired' = desired /\ at'[User] = at[User] /\ at'[Dog] = at[Dog]
    BY <1>16 DEF Commit, ctl
  <2>3. Values'
    BY <1>0, <1>16 DEF Commit, walk, memory, Values, Switching
  <2>4. Counters'
    BY <1>0, <1>16 DEF Commit, walk, count, memory, Counters
  <2>5. Placing'
    BY <1>0, <1>16, <2>2 DEF Commit, count, memory, Placing, DogPlace
  <2>6. Stopping'
    BY <1>0, <1>16, <2>2 DEF Commit, Stopping, StopSurvivesRecovery
  <2>7. Switching'
    BY <1>16 DEF Commit, Switching
  <2>8. Walking'
    BY <1>0, <1>16, <2>2 DEF Commit, walk, Walking, Original
  <2>9. Retrying'
    BY <1>0, <1>16, <2>2 DEF Commit, memory, Retrying, Restarting
  <2>10. HealthIsCurrent'
    BY <1>0, <1>16, <2>2 DEF Commit, ui, HealthIsCurrent
  <2> QED
    BY <2>1, <2>3, <2>4, <2>5, <2>6, <2>7, <2>8, <2>9, <2>10 DEF RecoveryInv
<1>17. CASE Finally
  <2>1. Control' /\ Flat'
    BY <1>0, <1>17, Stays DEF Finally
  <2>2. tok' = tok /\ cur' = cur /\ desired' = desired /\ at'[User] = at[User] /\ at'[Dog] = at[Dog]
    BY <1>17 DEF Finally, ctl
  <2>3. Values'
    BY <1>0, <1>17 DEF Finally, bypass, Values, Switching
  <2>4. Counters'
    BY <1>0, <1>17 DEF Finally, count, Counters
  <2>5. Placing'
    BY <1>0, <1>17, <2>2 DEF Finally, bypass, count, Placing, DogPlace
  <2>6. Stopping'
    BY <1>0, <1>17, <2>2 DEF Finally, bypass, Stopping, StopSurvivesRecovery
  <2>7. Switching'
    BY <1>0, <1>17 DEF Finally, Switching
  <2>8. Walking'
    BY <1>0, <1>17, <2>2 DEF Finally, Walking, Original, Flat
  <2>9. Retrying'
    BY <1>0, <1>17, <2>2 DEF Finally, Retrying, Restarting, Switching
  <2>10. HealthIsCurrent'
    BY <1>0, <1>17, <2>2 DEF Finally, ui, HealthIsCurrent
  <2> QED
    BY <2>1, <2>3, <2>4, <2>5, <2>6, <2>7, <2>8, <2>9, <2>10 DEF RecoveryInv
<1>18. CASE Finish
  BY <1>18, OverKeeps DEF Finish
<1>19. CASE UserStop /\ UNCHANGED <<pc, walk, count>>
  <2>1. Control' /\ Flat'
    BY <1>0, <1>19, Requests DEF UserStop, Both, RT!Mode
  <2>2. cur' = cur + 1 /\ tok'[User] = cur' /\ tok'[Dog] = tok[Dog] /\ at'[Dog] = at[Dog] /\ at'[User] = "armed"
          /\ desired' = "stopped"
    BY <1>0, <1>19 DEF UserStop, RT!Request, RT!Supersede, Flat, Both
  <2>3. Values'
    BY <1>0, <1>19 DEF UserStop, walk, memory, Values
  <2>4. Counters'
    BY <1>0, <1>19 DEF UserStop, walk, count, memory, Counters
  <2>5. Placing'
    BY <1>0, <1>19, <2>2 DEF UserStop, count, memory, Placing
  <2>6. Stopping'
    BY <1>0, <1>19, <2>2 DEF UserStop, Stopping, StopSurvivesRecovery, Flat
  <2>7. Switching'
    BY <1>0, <1>19, <2>2 DEF walk, Switching, Flat
  <2>8. Walking'
    BY <1>0, <2>2 DEF Walking, Original, Flat
  <2>9. Retrying'
    BY <1>0, <1>19, <2>2 DEF UserStop, walk, memory, Retrying, Restarting, Flat
  <2>10. HealthIsCurrent'
    BY <1>19 DEF UserStop, HealthIsCurrent
  <2> QED
    BY <2>1, <2>3, <2>4, <2>5, <2>6, <2>7, <2>8, <2>9, <2>10 DEF RecoveryInv
<1>20. CASE UserEnter /\ UNCHANGED <<pc, walk, count>>
  <2>1. Control' /\ Flat'
    BY <1>0, <1>20, Enters DEF UserEnter, Both
  <2>2. tok' = tok /\ cur' = cur /\ desired' = desired /\ at'[Dog] = at[Dog] /\ at'[User] = "inside" /\ at[User] = "armed"
    BY <1>0, <1>20 DEF UserEnter, RT!Enter, Flat, Both
  <2>3. Values'
    BY <1>0, <1>20 DEF UserEnter, bypass, walk, memory, Values
  <2>4. Counters'
    BY <1>0, <1>20 DEF UserEnter, walk, count, memory, Counters
  <2>5. Placing'
    BY <1>0, <1>20, <2>2 DEF UserEnter, bypass, count, memory, Placing
  <2>6. Stopping'
    BY <1>0, <1>20, <2>2 DEF UserEnter, bypass, Stopping, StopSurvivesRecovery
  <2>7. Switching'
    BY <1>0, <1>20, <2>2 DEF walk, Switching
  <2>8. Walking'
    BY <1>0, <1>20, <2>2 DEF UserEnter, bypass, walk, Walking, Original
  <2>9. Retrying'
    BY <1>0, <1>20, <2>2 DEF UserEnter, walk, memory, Retrying, Restarting
  <2>10. HealthIsCurrent'
    BY <1>0, <1>20, <2>2 DEF UserEnter, ui, HealthIsCurrent
  <2> QED
    BY <2>1, <2>3, <2>4, <2>5, <2>6, <2>7, <2>8, <2>9, <2>10 DEF RecoveryInv
<1>21. CASE UserRefused /\ UNCHANGED <<pc, walk, count>>
  <2>1. Control' /\ Flat'
    BY <1>0, <1>21, Drops DEF UserRefused, RT!Refuse, RT!GiveUp, Both
  <2>2. tok' = tok /\ cur' = cur /\ desired' = desired /\ at'[Dog] = at[Dog] /\ at'[User] = "idle"
          /\ at[User] = "armed" /\ tok[User] # cur
    BY <1>0, <1>21 DEF UserRefused, RT!Refuse, RT!GiveUp, RT!Drop, Flat, Both
  <2>3. Values'
    BY <1>0, <1>21 DEF UserRefused, walk, memory, Values, Some
  <2>4. Counters'
    BY <1>0, <1>21 DEF UserRefused, walk, count, memory, Counters
  <2>5. Placing'
    BY <1>0, <1>21, <2>2 DEF UserRefused, count, memory, Placing
  <2>6. Stopping'
    BY <1>0, <1>21, <2>2 DEF UserRefused, Stopping, StopSurvivesRecovery
  <2>7. Switching'
    BY <1>0, <1>21, <2>2 DEF walk, Switching
  <2>8. Walking'
    BY <1>0, <1>21, <2>2 DEF UserRefused, walk, Walking, Original
  <2>9. Retrying'
    BY <1>0, <1>21, <2>2 DEF UserRefused, walk, memory, Retrying, Restarting
  <2>10. HealthIsCurrent'
    BY <1>0, <1>21, <2>2 DEF UserRefused, ui, HealthIsCurrent
  <2> QED
    BY <2>1, <2>3, <2>4, <2>5, <2>6, <2>7, <2>8, <2>9, <2>10 DEF RecoveryInv
<1>22. CASE StopServed /\ UNCHANGED <<pc, walk, count>>
  <2>1. Control' /\ Flat'
    BY <1>0, <1>22, Leaves DEF StopServed, Both
  <2>2. tok' = tok /\ cur' = cur /\ desired' = desired /\ at'[Dog] = at[Dog] /\ at'[User] = "idle"
    BY <1>0, <1>22 DEF StopServed, RT!Leave, Flat, Both
  <2>3. Values'
    BY <1>0, <1>22 DEF StopServed, walk, memory, Values, Some
  <2>4. Counters'
    BY <1>0, <1>22 DEF StopServed, walk, count, memory, Counters
  <2>5. Placing'
    BY <1>0, <1>22, <2>2 DEF StopServed, count, memory, Placing
  <2>6. Stopping'
    BY <1>0, <1>22, <2>2 DEF StopServed, Stopping, StopSurvivesRecovery
  <2>7. Switching'
    BY <1>0, <1>22, <2>2 DEF walk, Switching
  <2>8. Walking'
    BY <1>0, <1>22, <2>2 DEF StopServed, Walking, Original, Stopping
  <2>9. Retrying'
    BY <1>0, <1>22, <2>2 DEF StopServed, walk, memory, Retrying, Restarting
  <2>10. HealthIsCurrent'
    BY <1>0, <1>22, <2>2 DEF StopServed, ui, HealthIsCurrent
  <2> QED
    BY <2>1, <2>3, <2>4, <2>5, <2>6, <2>7, <2>8, <2>9, <2>10 DEF RecoveryInv
<1>23. CASE StartRefused /\ UNCHANGED <<pc, walk, count>>
  <2>1. Control' /\ Flat'
    BY <1>0, <1>23, Sets DEF StartRefused, Both, RT!Mode
  <2>2. tok' = tok /\ cur' = cur /\ at'[User] = at[User] /\ at'[Dog] = at[Dog]
          /\ desired' \in {desired, IF asService THEN "service" ELSE "stopped"}
    BY <1>23 DEF StartRefused, RT!SetDesired
  <2>3. Values'
    BY <1>0, <1>23 DEF StartRefused, walk, memory, Values
  <2>4. Counters'
    BY <1>0, <1>23 DEF StartRefused, walk, count, memory, Counters
  <2>5. Placing'
    BY <1>0, <1>23, <2>2 DEF StartRefused, count, memory, Placing
  <2>6. Stopping'
    BY <1>0, <1>23 DEF StartRefused, Stopping, StopSurvivesRecovery
  <2>7. Switching'
    BY <1>0, <1>23, <2>2 DEF walk, Switching
  <2>8. Walking'
    BY <1>0, <1>23, <2>2 DEF StartRefused, walk, Walking, Original
  <2>9. Retrying'
    BY <1>0, <1>23, <2>2 DEF StartRefused, walk, memory, Retrying, Restarting
  <2>10. HealthIsCurrent'
    BY <1>0, <1>23, <2>2 DEF StartRefused, ui, HealthIsCurrent
  <2> QED
    BY <2>1, <2>3, <2>4, <2>5, <2>6, <2>7, <2>8, <2>9, <2>10 DEF RecoveryInv
<1>24. CASE StartLeft /\ UNCHANGED <<pc, walk, count>>
  <2>1. Control' /\ Flat'
    BY <1>0, <1>24, Leaves DEF StartLeft, Both
  <2>2. tok' = tok /\ cur' = cur /\ desired' = desired /\ at'[Dog] = at[Dog] /\ at'[User] = "idle"
    BY <1>0, <1>24 DEF StartLeft, RT!Leave, Flat, Both
  <2>3. Values'
    BY <1>0, <1>24 DEF StartLeft, walk, memory, Values, Some
  <2>4. Counters'
    BY <1>0, <1>24 DEF StartLeft, walk, count, memory, Counters
  <2>5. Placing'
    BY <1>0, <1>24, <2>2 DEF StartLeft, count, memory, Placing
  <2>6. Stopping'
    BY <1>0, <1>24 DEF StartLeft, Stopping, StopSurvivesRecovery
  <2>7. Switching'
    BY <1>0, <1>24, <2>2 DEF walk, Switching
  <2>8. Walking'
    BY <1>0, <1>24, <2>2 DEF StartLeft, walk, Walking, Original
  <2>9. Retrying'
    BY <1>0, <1>24, <2>2 DEF StartLeft, walk, memory, Retrying, Restarting
  <2>10. HealthIsCurrent'
    BY <1>0, <1>24, <2>2 DEF StartLeft, ui, HealthIsCurrent
  <2> QED
    BY <2>1, <2>3, <2>4, <2>5, <2>6, <2>7, <2>8, <2>9, <2>10 DEF RecoveryInv
<1>25. CASE StartServed /\ UNCHANGED <<pc, walk, count>>
  <2>1. Control' /\ Flat'
    BY <1>0, <1>25, Leaves DEF StartServed, Both
  <2>2. tok' = tok /\ cur' = cur /\ desired' = desired /\ at'[Dog] = at[Dog] /\ at'[User] = "idle"
    BY <1>0, <1>25 DEF StartServed, RT!Leave, Flat, Both
  <2>3. Values'
    BY <1>0, <1>25 DEF StartServed, walk, memory, Values
  <2>4. Counters'
    BY <1>0, <1>25 DEF StartServed, walk, count, memory, Counters
  <2>5. Placing'
    BY <1>0, <1>25, <2>2 DEF StartServed, count, memory, Placing
  <2>6. Stopping'
    BY <1>0, <1>25 DEF StartServed, Stopping, StopSurvivesRecovery
  <2>7. Switching'
    BY <1>0, <1>25, <2>2 DEF walk, Switching
  <2>8. Walking'
    BY <1>0, <1>25 DEF StartServed, Walking, Original, Placing
  <2>9. Retrying'
    BY <1>0, <1>25, <2>2 DEF StartServed, walk, memory, Retrying, Restarting
  <2>10. HealthIsCurrent'
    BY <1>0, <1>25, <2>2 DEF StartServed, ui, HealthIsCurrent
  <2> QED
    BY <2>1, <2>3, <2>4, <2>5, <2>6, <2>7, <2>8, <2>9, <2>10 DEF RecoveryInv
<1>26. ASSUME NEW s \in Strategy, UserStart(s) /\ UNCHANGED <<pc, walk, count>> PROVE RecoveryInv'
  <2>1. Control' /\ Flat'
    BY <1>0, <1>26, Requests DEF UserStart, Both, RT!Mode
  <2>2. cur' = cur + 1 /\ tok'[User] = cur' /\ tok'[Dog] = tok[Dog] /\ at'[Dog] = at[Dog] /\ at'[User] = "armed"
          /\ desired' = "manual"
    BY <1>0, <1>26 DEF UserStart, RT!Request, RT!Supersede, Flat, Both
  <2>3. Values'
    BY <1>0, <1>26 DEF UserStart, walk, Values, Some
  <2>4. Counters'
    BY <1>0, <1>26 DEF UserStart, walk, count, Counters
  <2>5. Placing'
    BY <1>0, <1>26, <2>2 DEF UserStart, count, Placing
  <2>6. Stopping'
    BY <1>26 DEF UserStart, Stopping, StopSurvivesRecovery
  <2>7. Switching'
    BY <1>0, <1>26, <2>2 DEF walk, Switching, Flat
  <2>8. Walking'
    BY <1>0, <2>2 DEF Walking, Original, Flat
  <2>9. Retrying'
    BY <1>0, <1>26, <2>2 DEF UserStart, walk, Retrying, Restarting, Flat
  <2>10. HealthIsCurrent'
    BY <1>26 DEF UserStart, HealthIsCurrent
  <2> QED
    BY <2>1, <2>3, <2>4, <2>5, <2>6, <2>7, <2>8, <2>9, <2>10 DEF RecoveryInv
<1>27. CASE HealthStep /\ UNCHANGED <<ctl, bypass, pc, walk, count, memory>>
  <2>1. Control' /\ Flat'
    BY <1>0, <1>27, Stays
  <2>2. tok' = tok /\ cur' = cur /\ desired' = desired /\ at'[User] = at[User] /\ at'[Dog] = at[Dog]
    BY <1>27 DEF ctl
  <2>3. Values'
    BY <1>0, <1>27 DEF bypass, walk, memory, Values
  <2>4. Counters'
    BY <1>0, <1>27 DEF walk, count, memory, Counters
  <2>5. Placing'
    BY <1>0, <1>27, <2>2 DEF bypass, count, memory, Placing
  <2>6. Stopping'
    BY <1>0, <1>27, <2>2 DEF bypass, Stopping, StopSurvivesRecovery
  <2>7. Switching'
    BY <1>0, <1>27, <2>2 DEF walk, Switching
  <2>8. Walking'
    BY <1>0, <1>27, <2>2 DEF bypass, walk, Walking, Original
  <2>9. Retrying'
    BY <1>0, <1>27, <2>2 DEF walk, memory, Retrying, Restarting
  <2>10. HealthIsCurrent'
    BY <1>27, <2>2 DEF HealthStep, Invalidate, FinishHealth, Shown, HealthIsCurrent, RT!Valid
  <2> QED
    BY <2>1, <2>3, <2>4, <2>5, <2>6, <2>7, <2>8, <2>9, <2>10 DEF RecoveryInv
<1>28. CASE Check /\ Happens
        /\ UNCHANGED <<ctl, runs, asService, installed, active, saved, job, stopped, overtaken, net, pc, walk, count, memory>>
  <2>1. Control' /\ Flat'
    BY <1>0, <1>28, Stays
  <2>2. tok' = tok /\ cur' = cur /\ desired' = desired /\ at'[User] = at[User] /\ at'[Dog] = at[Dog]
    BY <1>28 DEF ctl
  <2>3. Values'
    BY <1>0, <1>28 DEF walk, memory, Values
  <2>4. Counters'
    BY <1>0, <1>28 DEF walk, count, memory, Counters
  <2>5. Placing'
    BY <1>0, <1>28, <2>2 DEF count, memory, Placing
  <2>6. Stopping'
    BY <1>0, <1>28, <2>2 DEF Stopping, StopSurvivesRecovery
  <2>7. Switching'
    BY <1>0, <1>28, <2>2 DEF walk, Switching
  <2>8. Walking'
    BY <1>0, <1>28, <2>2 DEF walk, Walking, Original
  <2>9. Retrying'
    BY <1>0, <1>28, <2>2 DEF walk, memory, Retrying, Restarting
  <2>10. HealthIsCurrent'
    BY <1>28 DEF Check, HealthIsCurrent
  <2> QED
    BY <2>1, <2>3, <2>4, <2>5, <2>6, <2>7, <2>8, <2>9, <2>10 DEF RecoveryInv
<1>29. CASE (Die \/ NetChange) /\ Happens /\ UNCHANGED <<ctl, pc, walk, count, memory, ui>>
  <2>1. Control' /\ Flat'
    BY <1>0, <1>29, Stays
  <2>2. tok' = tok /\ cur' = cur /\ desired' = desired /\ at'[User] = at[User] /\ at'[Dog] = at[Dog]
    BY <1>29 DEF ctl
  <2>3. Values'
    BY <1>0, <1>29 DEF Die, NetChange, walk, memory, Values, Some
  <2>4. Counters'
    BY <1>0, <1>29 DEF walk, count, memory, Counters
  <2>5. Placing'
    BY <1>0, <1>29, <2>2 DEF Die, NetChange, count, memory, Placing
  <2>6. Stopping'
    BY <1>0, <1>29, <2>2 DEF Die, NetChange, Stopping, StopSurvivesRecovery
  <2>7. Switching'
    BY <1>0, <1>29, <2>2 DEF walk, Switching
  <2>8. Walking'
    BY <1>0, <1>29, <2>2 DEF Die, NetChange, walk, Walking, Original
  <2>9. Retrying'
    BY <1>0, <1>29, <2>2 DEF walk, memory, Retrying, Restarting
  <2>10. HealthIsCurrent'
    BY <1>0, <1>29, <2>2 DEF ui, HealthIsCurrent
  <2> QED
    BY <2>1, <2>3, <2>4, <2>5, <2>6, <2>7, <2>8, <2>9, <2>10 DEF RecoveryInv
<1>30. CASE UNCHANGED vars
  <2>1. Control' /\ Flat'
    BY <1>0, <1>30, Stays DEF vars
  <2>2. tok' = tok /\ cur' = cur /\ desired' = desired /\ at'[User] = at[User] /\ at'[Dog] = at[Dog]
    BY <1>30 DEF vars, ctl
  <2>3. Values'
    BY <1>0, <1>30 DEF vars, bypass, walk, memory, Values
  <2>4. Counters'
    BY <1>0, <1>30 DEF vars, walk, count, memory, Counters
  <2>5. Placing'
    BY <1>0, <1>30, <2>2 DEF vars, bypass, count, memory, Placing
  <2>6. Stopping'
    BY <1>0, <1>30, <2>2 DEF vars, bypass, Stopping, StopSurvivesRecovery
  <2>7. Switching'
    BY <1>0, <1>30, <2>2 DEF vars, walk, Switching
  <2>8. Walking'
    BY <1>0, <1>30, <2>2 DEF vars, bypass, walk, Walking, Original
  <2>9. Retrying'
    BY <1>0, <1>30, <2>2 DEF vars, walk, memory, Retrying, Restarting
  <2>10. HealthIsCurrent'
    BY <1>0, <1>30, <2>2 DEF vars, ui, HealthIsCurrent
  <2> QED
    BY <2>1, <2>3, <2>4, <2>5, <2>6, <2>7, <2>8, <2>9, <2>10 DEF RecoveryInv
<1> QED
  BY <1>1, <1>2, <1>3, <1>4, <1>5, <1>6, <1>7, <1>8, <1>9, <1>10, <1>11, <1>12, <1>13, <1>14, <1>15, <1>16, <1>17,
          <1>18, <1>19, <1>20, <1>21, <1>22, <1>23, <1>24, <1>25, <1>26, <1>27, <1>28, <1>29, <1>30 DEF Next,
          DogStep, UserStep
-----------------------------------------------------------------------------
(* The invariant holds of every state. *)
LEMMA SpecInv == Spec => []RecoveryInv
BY InitInv, StepInv, PTL DEF Spec

(* The fields of the controller and of the watchdog stay what the assignments make them, and
   recovery_busy is up exactly while the watchdog is in _recover (2050-2057). *)
THEOREM RecoveryTypes == Spec => []RecoveryTypeOK
<1>1. RecoveryInv => RT!TypeOK
  <2> SUFFICES ASSUME Control PROVE RT!TypeOK
    BY DEF RecoveryInv
  <2>1. at \in [Both -> RT!Place] /\ desired \in RT!Mode
    BY DEF Control, RT!Place, RT!Mode
  <2> QED
    BY <2>1 DEF Control, Both, RT!TypeOK
<1>2. RecoveryInv => RecoveryTypeOK
  BY <1>1 DEF RecoveryInv, Values, Some, Counters, Placing, RecoveryTypeOK
<1> QED
  BY <1>2, SpecInv, PTL

(* Once a stop was served the bypass does not run, wherever in a restart, a trial or a rollback
   the watchdog was: every spawn is behind a token test (2030, 2040, 2139). *)
THEOREM StopSurvives == Spec => []StopSurvivesRecovery
<1>1. RecoveryInv => StopSurvivesRecovery
  BY DEF RecoveryInv, Stopping
<1> QED
  BY <1>1, SpecInv, PTL

(* A switch that nobody interrupted ends with the strategy it began with or with the one it
   saved: the finally clause undoes a candidate on every other path (2100-2103), so that the
   original is back whenever the next candidate is looked for and none may be left. *)
THEOREM SwitchIsUndone == Spec => []CommitsOrRollsBack
<1>1. RecoveryInv => CommitsOrRollsBack
  BY Facts DEF RecoveryInv, Walking, Original, CommitsOrRollsBack, Flat
<1> QED
  BY <1>1, SpecInv, PTL

(* Under one token the bypass is restarted in vain three times at most, however often the
   watchdog comes round: _restart_exhausted remembers the token (2107-2120). *)
THEOREM RetriesAreBounded == Spec => []BoundedRetries
<1>1. RecoveryInv => BoundedRetries
  <2> SUFFICES ASSUME RecoveryInv PROVE fruitless <= Delays
    BY DEF BoundedRetries
  <2>1. fruitless \in Nat /\ delay \in Nat
    BY DEF RecoveryInv, Counters
  <2>2. CASE Restarting
    BY <2>1 DEF RecoveryInv, Retrying, Delays
  <2>3. CASE ~Restarting
    BY <2>3 DEF RecoveryInv, Retrying
  <2> QED
    BY <2>2, <2>3
<1> QED
  BY <1>1, SpecInv, PTL

(* What the health page shows as measured was measured under the present request, or the
   callback that takes it back is waiting (2430-2438). *)
THEOREM HealthShown == Spec => []HealthIsCurrent
<1>1. RecoveryInv => HealthIsCurrent
  BY DEF RecoveryInv
<1> QED
  BY <1>1, SpecInv, PTL

(* A candidate whose measurement found no network at all is not blacklisted (2083-2088):
   neither by the rollback nor when somebody takes over before it. *)
THEOREM OfflineIsInnocent == Spec => OfflineBlacklistsNobody
<1>1. [Next]_vars => [offline => tried' \subseteq tried]_vars
  <2> SUFFICES ASSUME Next, offline PROVE tried' \subseteq tried
    OBVIOUS
  <2>1. CASE DogStep
    <3>1. CASE Settle
      BY <3>1 DEF Settle, Blamed
    <3>2. CASE Finally
      BY <3>2 DEF Finally
    <3>3. CASE Probe
      BY <3>3 DEF Probe, Probed, memory
    <3>4. CASE LookMoved
      BY <3>4 DEF LookMoved, memory
    <3>5. CASE Finish \/ Impl \/ Pick \/ Delay
      BY <3>5 DEF Finish, Impl, Pick, Delay, Over, memory
    <3>6. CASE \/ Begin \/ Sleep \/ LookNetwork \/ Managed \/ Enter \/ Halt \/ Spawn \/ Verify
               \/ Measure \/ Commit
      BY <3>6 DEF Begin, Sleep, LookNetwork, Managed, Enter, Halt, Spawn, Verify, Measure, Commit, memory
    <3> QED
      BY <2>1, <3>1, <3>2, <3>3, <3>4, <3>5, <3>6 DEF DogStep
  <2>2. CASE UserStop \/ UserStep \/ \E s \in Strategy : UserStart(s)
    BY <2>2 DEF UserStop, UserStep, UserStart, UserEnter, UserRefused, StopServed, StartRefused,
                StartLeft, StartServed, memory
  <2>3. CASE UNCHANGED memory
    BY <2>3 DEF memory
  <2> QED
    BY <2>1, <2>2, <2>3 DEF Next
<1> QED
  BY <1>1, PTL DEF Spec, OfflineBlacklistsNobody
============================================================================
