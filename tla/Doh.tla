-------------------------------- MODULE Doh --------------------------------
(***************************************************************************)
(* DNS over HTTPS (zapret_core.py 1839-2036): doh_enable and doh_disable   *)
(* under _doh_lock, one at a time, each a sequence of durable changes of   *)
(* config.json and of changes of the adapters' DNS servers.  Any of them   *)
(* may fail, adapters come and go, and the program may die between two.    *)
(* update_config is one step here: SettingsStore shows that it is.         *)
(***************************************************************************)
EXTENDS Naturals

CONSTANTS Adapter, Provider,
          Original,          \* the servers an adapter had before the program
          Nothing,      \* no entry of the snapshot
          MaxMishap     \* bound: failures, crashes and comings and goings of adapters

ASSUME DohAssumption == Original \notin Provider /\ Nothing \notin Provider /\ Original # Nothing /\ MaxMishap \in Nat

VARIABLES enabled, pending, \* doh_enabled and doh_pending
          saved,   \* doh_snapshot: adapter -> the servers to go back to
          prev,    \* doh_prev: an old version enabled it, and left no snapshot
          dns,     \* adapter -> its servers
          present, \* the adapters that are there
          phase,   \* where the worker is
          target,  \* the provider it enables; Nothing: it disables
          current, \* the snapshot it took
          left,    \* the adapters the running _dns_apply has still to do
          erred,   \* that _dns_apply met an error
          skipped, \* the adapters it skipped
          lost,    \* history: adapters whose entry was given up while they were absent
          mishaps  \* history: what MaxMishap bounds

dohDisk  == <<enabled, pending, saved, prev>>
worker   == <<phase, target, current, left, erred, skipped>>
dohVars  == <<dohDisk, dns, present, worker, lost, mishaps>>

NoSnapshot == [a \in Adapter |-> Nothing]
Entries(s) == {a \in Adapter : s[a] # Nothing}

(* Never used, or enabled by an old version. *)
DohInit == /\ prev \in BOOLEAN /\ enabled = prev /\ pending = FALSE /\ saved = NoSnapshot
           /\ \E p \in Provider : dns = [a \in Adapter |-> IF prev THEN p ELSE Original]
           /\ present = Adapter
           /\ phase = "idle" /\ target = Nothing /\ current = NoSnapshot /\ left = {}
           /\ erred = FALSE /\ skipped = {} /\ lost = {} /\ mishaps = 0

Mishap == mishaps < MaxMishap /\ mishaps' = mishaps + 1
-----------------------------------------------------------------------------
Rest == /\ phase' = "idle" /\ target' = Nothing /\ current' = NoSnapshot /\ left' = {}
        /\ erred' = FALSE /\ skipped' = {}

GoTo(p) == phase' = p /\ UNCHANGED <<target, current, left, erred, skipped>>

Snapshot == [a \in Adapter |-> IF a \in present THEN dns[a] ELSE Nothing]
Merged   == [a \in Adapter |-> IF saved[a] # Nothing THEN saved[a] ELSE current[a]]

(* The switch when it is off, or a change of provider: refused while an operation is
   unfinished, or when what was enabled left no snapshot. *)
EnableBegin(p) == /\ phase = "idle" /\ ~pending /\ ~(enabled /\ Entries(saved) = {})
                  /\ present # {}
                  /\ phase' = "record" /\ target' = p /\ current' = Snapshot
                  /\ UNCHANGED <<dohDisk, dns, present, left, erred, skipped, lost, mishaps>>

(* Mutant: the snapshot of a change of provider replaces the first one. *)
RecordAfresh == /\ phase = "record" /\ saved' = current /\ pending' = TRUE /\ GoTo("register")
                /\ UNCHANGED <<enabled, prev, dns, present, lost, mishaps>>

(* The durable snapshot precedes every change of the system. *)
Record == /\ phase = "record"
          /\ \/ saved' = Merged /\ pending' = TRUE /\ GoTo("register") /\ UNCHANGED mishaps
             \/ Mishap /\ Rest /\ UNCHANGED <<saved, pending>>
          /\ UNCHANGED <<enabled, prev, dns, present, lost>>

ApplyTo(p, adapters) == /\ phase' = p /\ left' = adapters /\ erred' = FALSE /\ skipped' = {}
                        /\ UNCHANGED <<target, current>>

Register == /\ phase = "register"
            /\ \/ ApplyTo("apply", Entries(current)) /\ UNCHANGED mishaps
               \/ Mishap /\ ApplyTo("rollback", Entries(current))
            /\ UNCHANGED <<dohDisk, dns, present, lost>>

(* _dns_apply does one adapter after another: an absent one is skipped, an error is
   kept for the end, and an adapter that failed may have changed. *)
Servers(a) == CASE phase = "apply" -> target
                [] phase = "rollback" -> current[a]
                [] phase = "restore" -> saved[a]

Apply(a) == /\ phase \in {"apply", "rollback", "restore"} /\ a \in left /\ left' = left \ {a}
            /\ \/ /\ a \in present /\ dns' = [dns EXCEPT ![a] = Servers(a)]
                  /\ UNCHANGED <<erred, skipped, mishaps>>
               \/ /\ a \in present /\ Mishap /\ erred' = TRUE
                  /\ dns' \in {dns, [dns EXCEPT ![a] = Servers(a)]} /\ UNCHANGED skipped
               \/ /\ a \notin present /\ skipped' = skipped \cup {a}
                  /\ UNCHANGED <<dns, erred, mishaps>>
            /\ UNCHANGED <<dohDisk, present, phase, target, current, lost>>

(* All done: doh_enabled is written, or the servers the adapters had are put back. *)
Enabled == /\ phase = "apply" /\ left = {}
           /\ \/ /\ ~erred /\ enabled' = TRUE /\ pending' = FALSE /\ Rest
                 /\ UNCHANGED mishaps
              \/ /\ erred /\ ApplyTo("rollback", Entries(current)) /\ UNCHANGED <<enabled, pending, mishaps>>
              \/ /\ ~erred /\ Mishap /\ ApplyTo("rollback", Entries(current)) /\ UNCHANGED <<enabled, pending>>
           /\ UNCHANGED <<saved, prev, dns, present, lost>>

(* What is dropped with the snapshot while the adapter is away, is lost. *)
GiveUp == lost' = lost \cup {a \in skipped : dns[a] # Original}

(* The rollback is over: the snapshot goes unless DoH was enabled before. *)
RolledBack == /\ phase = "rollback" /\ left = {}
              /\ \/ /\ ~erred /\ pending' = FALSE
                    /\ IF enabled THEN UNCHANGED <<saved, lost>> ELSE saved' = NoSnapshot /\ GiveUp
                    /\ UNCHANGED mishaps
                 \/ /\ erred /\ UNCHANGED <<pending, saved, lost, mishaps>>
                 \/ /\ ~erred /\ Mishap /\ UNCHANGED <<pending, saved, lost>>
              /\ Rest
              /\ UNCHANGED <<enabled, prev, dns, present>>
-----------------------------------------------------------------------------
(* The switch when it is on.  An old version's addresses are made a snapshot first,
   when all of its adapters are there. *)
DisableBegin == /\ phase = "idle" /\ enabled
                /\ \/ Entries(saved) # {} /\ UNCHANGED saved
                   \/ /\ Entries(saved) = {} /\ prev /\ present = Adapter
                      /\ saved' = [a \in Adapter |-> Original]
                /\ GoTo("pend")
                /\ UNCHANGED <<enabled, pending, prev, dns, present, lost, mishaps>>

Pend == /\ phase = "pend"
        /\ \/ pending' = TRUE /\ ApplyTo("restore", Entries(saved)) /\ UNCHANGED mishaps
           \/ Mishap /\ Rest /\ UNCHANGED pending
        /\ UNCHANGED <<enabled, saved, prev, dns, present, lost>>

Disabled == /\ phase = "restore" /\ left = {}
            /\ \/ /\ ~erred /\ enabled' = FALSE /\ pending' = FALSE /\ prev' = FALSE
                  /\ saved' = NoSnapshot /\ GiveUp /\ UNCHANGED mishaps
               \/ /\ erred /\ UNCHANGED <<dohDisk, lost, mishaps>>
               \/ /\ ~erred /\ Mishap /\ UNCHANGED <<dohDisk, lost>>
            /\ Rest
            /\ UNCHANGED <<dns, present>>
-----------------------------------------------------------------------------
DohCrash == /\ phase # "idle" /\ Mishap /\ Rest /\ UNCHANGED <<dohDisk, dns, present, lost>>

Plug(a) == /\ present' = IF a \in present THEN present \ {a} ELSE present \cup {a}
           /\ Mishap /\ UNCHANGED <<dohDisk, dns, worker, lost>>

DohNext == \/ \E p \in Provider : EnableBegin(p)
           \/ Record \/ Register \/ Enabled \/ RolledBack
           \/ DisableBegin \/ Pend \/ Disabled \/ DohCrash
           \/ \E a \in Adapter : Apply(a) \/ Plug(a)

DohSpec == DohInit /\ [][DohNext]_dohVars
-----------------------------------------------------------------------------
Known == Provider \cup {Original}

(* Types; and what is restored is what was recorded. *)
DohTypeOK == /\ enabled \in BOOLEAN /\ pending \in BOOLEAN /\ prev \in BOOLEAN /\ erred \in BOOLEAN
             /\ saved \in [Adapter -> Known \cup {Nothing}] /\ current \in [Adapter -> Known \cup {Nothing}]
             /\ dns \in [Adapter -> Known] /\ present \subseteq Adapter /\ left \subseteq Adapter
             /\ target \in Provider \cup {Nothing} /\ lost \subseteq Adapter /\ skipped \subseteq Adapter
             /\ phase \in {"idle", "record", "register", "apply", "rollback", "pend", "restore"}
             /\ phase = "restore" => left \subseteq Entries(saved)
             /\ phase \in {"apply", "rollback"} => left \subseteq Entries(current) /\ Entries(current) \subseteq Entries(saved)

(* The servers an adapter had before the program are on disk for as long as the adapter
   has others, through every failure, crash and change of provider (1984-1985: a durable
   snapshot precedes every system mutation). *)
OriginalsAreKept == \A a \in Adapter \ lost : dns[a] # Original => saved[a] = Original \/ prev

(* Whoever finds the adapters changed finds it recorded: doh_enabled, or doh_pending for
   what a crash or a failed rollback left behind. *)
AlterationIsRecorded == (\E a \in Adapter \ lost : dns[a] # Original) => enabled \/ pending

(* Both: the DNS of the machine can be put back, and the program knows that it has to. *)
DnsCanBeRestored == OriginalsAreKept /\ AlterationIsRecorded
=============================================================================
