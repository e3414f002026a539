------------------------- MODULE MCServices_proofs -------------------------
(***************************************************************************)
(* DnsCanBeRestored for any adapters and providers, and any number of      *)
(* failures, crashes and changes of the adapters.  The two parts need each *)
(* other: a snapshot is only as good as the servers that were there when   *)
(* it was taken, and these are the original ones because an alteration     *)
(* that is not recorded does not exist.  And the run of MCServices: each   *)
(* part behaves in it as it does alone.                                    *)
(***************************************************************************)
EXTENDS MCServices, Services_proofs, H2_proofs

(* doh_enable is at work; servers that are safe to put back. *)
Enabling == phase \in {"record", "register", "apply", "rollback"}
Safe(v)  == v = Nothing \/ v = Original

Kinds == /\ enabled \in BOOLEAN /\ pending \in BOOLEAN /\ prev \in BOOLEAN /\ erred \in BOOLEAN
         /\ saved \in [Adapter -> Known \cup {Nothing}] /\ current \in [Adapter -> Known \cup {Nothing}]
         /\ dns \in [Adapter -> Known] /\ left \subseteq Adapter /\ target \in Provider \cup {Nothing}
         /\ phase \in {"idle", "record", "register", "apply", "rollback", "pend", "restore"}
         /\ phase \in {"record", "register", "apply", "rollback"} => target \in Provider

(* What a snapshot holds for an adapter that was not given up. *)
Snapshots == /\ \A a \in Adapter \ lost : Safe(saved[a])
             /\ phase = "record" => \A a \in Adapter \ lost : saved[a] = Nothing => Safe(current[a])
             /\ phase \in {"register", "apply", "rollback"} =>
                   \A a \in Adapter : current[a] # Nothing => saved[a] # Nothing
             /\ phase \in {"apply", "rollback"} => \A a \in left : current[a] # Nothing
             /\ phase = "restore" => \A a \in left : saved[a] # Nothing

(* An old version's settings: nothing is recorded, or every adapter. *)
OldVersion == prev => /\ enabled
                      /\ saved = NoSnapshot \/ \A a \in Adapter : saved[a] = Original
                      /\ phase # "idle" => \A a \in Adapter : saved[a] = Original

(* doh_enabled and doh_pending while an operation is under way. *)
Marks == /\ phase \in {"register", "apply", "rollback", "restore"} => pending
         /\ phase \in {"pend", "restore"} => enabled

(* DoH is being enabled for the first time: all that it changes had its original servers. *)
FirstTime == Enabling /\ ~enabled =>
                \A a \in Adapter \ lost : Safe(current[a]) /\ (current[a] = Nothing => dns[a] = Original)

(* The adapters that are done have their servers back. *)
Undone == /\ phase = "rollback" /\ ~erred /\ ~enabled =>
                \A a \in Adapter : current[a] # Nothing => a \in left \/ a \in skipped \/ dns[a] = current[a]
          /\ phase = "restore" /\ ~erred =>
                \A a \in Adapter : saved[a] # Nothing => a \in left \/ a \in skipped \/ dns[a] = saved[a]

(* Each part needs the others: this is what is inductive. *)
DohInv == Kinds /\ Snapshots /\ OldVersion /\ Marks /\ FirstTime /\ Undone /\ DnsCanBeRestored

(* Nothing altered, or everything by an old version: the invariant holds at first. *)
LEMMA DohBegun == DohInit => DohInv
<1> SUFFICES ASSUME DohInit PROVE DohInv
  OBVIOUS
<1> USE DohAssumption DEF DohInit, NoSnapshot, Known, Safe, Enabling
<1>1. Kinds
  BY DEF Kinds
<1>2. Snapshots /\ OldVersion /\ Marks
  BY DEF Snapshots, OldVersion, Marks
<1>3. FirstTime /\ Undone
  BY DEF FirstTime, Undone
<1>4. DnsCanBeRestored
  BY DEF DnsCanBeRestored, OriginalsAreKept, AlterationIsRecorded
<1> QED
  BY <1>1, <1>2, <1>3, <1>4 DEF DohInv

(* Every step of the worker, a crash and an adapter that comes or goes keep the invariant. *)
LEMMA DohSteps == DohInv /\ [DohNext]_dohVars => DohInv'
<1> SUFFICES ASSUME DohInv, [DohNext]_dohVars PROVE DohInv'
  OBVIOUS
<1> USE DohAssumption DEF DohInv, Mishap, Rest, GoTo, ApplyTo, Entries, Merged, Snapshot, NoSnapshot, Known, Safe, Enabling,
                          Servers, GiveUp, Kinds, Snapshots, OldVersion, Marks, FirstTime, Undone, DnsCanBeRestored,
                          OriginalsAreKept, AlterationIsRecorded, dohDisk, worker
<1>1. ASSUME NEW p \in Provider, EnableBegin(p) PROVE DohInv'
  <2>1. Kinds'
    BY <1>1 DEF EnableBegin
  <2>2. (Snapshots /\ OldVersion /\ Marks)'
    BY <1>1 DEF EnableBegin
  <2>3. (FirstTime /\ Undone)'
    BY <1>1 DEF EnableBegin
  <2>4. DnsCanBeRestored'
    BY <1>1 DEF EnableBegin
  <2> QED
    BY <2>1, <2>2, <2>3, <2>4
<1>2. CASE Record
  <2>1. Kinds'
    BY <1>2 DEF Record
  <2>2. (Snapshots /\ OldVersion /\ Marks)'
    BY <1>2 DEF Record
  <2>3. (FirstTime /\ Undone)'
    BY <1>2 DEF Record
  <2>4. DnsCanBeRestored'
    BY <1>2 DEF Record
  <2> QED
    BY <2>1, <2>2, <2>3, <2>4
<1>3. CASE Register
  <2>1. Kinds'
    BY <1>3 DEF Register
  <2>2. (Snapshots /\ OldVersion /\ Marks)'
    BY <1>3 DEF Register
  <2>3. (FirstTime /\ Undone)'
    BY <1>3 DEF Register
  <2>4. DnsCanBeRestored'
    BY <1>3 DEF Register
  <2> QED
    BY <2>1, <2>2, <2>3, <2>4
<1>4. ASSUME NEW a \in Adapter, Apply(a) PROVE DohInv'
  <2>1. Kinds'
    BY <1>4, ZenonT(60) DEF Apply
  <2>2. (Snapshots /\ OldVersion /\ Marks)'
    BY <1>4 DEF Apply
  <2>3. (FirstTime /\ Undone)'
    BY <1>4 DEF Apply
  <2>4. DnsCanBeRestored'
    BY <1>4 DEF Apply
  <2> QED
    BY <2>1, <2>2, <2>3, <2>4
<1>5. CASE Enabled
  <2>1. Kinds'
    BY <1>5 DEF Enabled
  <2>2. (Snapshots /\ OldVersion /\ Marks)'
    BY <1>5 DEF Enabled
  <2>3. (FirstTime /\ Undone)'
    BY <1>5 DEF Enabled
  <2>4. DnsCanBeRestored'
    <3>1. OriginalsAreKept'
      BY <1>5 DEF Enabled
    <3>2. AlterationIsRecorded'
      BY <1>5 DEF Enabled
    <3> QED
      BY <3>1, <3>2
  <2> QED
    BY <2>1, <2>2, <2>3, <2>4
<1>6. CASE RolledBack
  <2>1. Kinds'
    BY <1>6 DEF RolledBack
  <2>2. (Snapshots /\ OldVersion /\ Marks)'
    BY <1>6 DEF RolledBack
  <2>3. (FirstTime /\ Undone)'
    BY <1>6 DEF RolledBack
  <2>4. DnsCanBeRestored'
    BY <1>6 DEF RolledBack
  <2> QED
    BY <2>1, <2>2, <2>3, <2>4
<1>7. CASE DisableBegin
  <2>1. Kinds'
    BY <1>7 DEF DisableBegin
  <2>2. (Snapshots /\ OldVersion /\ Marks)'
    BY <1>7 DEF DisableBegin
  <2>3. (FirstTime /\ Undone)'
    BY <1>7 DEF DisableBegin
  <2>4. DnsCanBeRestored'
    BY <1>7 DEF DisableBegin
  <2> QED
    BY <2>1, <2>2, <2>3, <2>4
<1>8. CASE Pend
  <2>1. Kinds'
    BY <1>8 DEF Pend
  <2>2. (Snapshots /\ OldVersion /\ Marks)'
    BY <1>8 DEF Pend
  <2>3. (FirstTime /\ Undone)'
    BY <1>8 DEF Pend
  <2>4. DnsCanBeRestored'
    BY <1>8 DEF Pend
  <2> QED
    BY <2>1, <2>2, <2>3, <2>4
<1>9. CASE Disabled
  <2>1. Kinds'
    BY <1>9 DEF Disabled
  <2>2. (Snapshots /\ OldVersion /\ Marks)'
    <3>1. Snapshots'
      BY <1>9 DEF Disabled
    <3>2. OldVersion'
      BY <1>9 DEF Disabled
    <3>3. Marks'
      BY <1>9 DEF Disabled
    <3> QED
      BY <3>1, <3>2, <3>3
  <2>3. (FirstTime /\ Undone)'
    BY <1>9 DEF Disabled
  <2>4. DnsCanBeRestored'
    BY <1>9 DEF Disabled
  <2> QED
    BY <2>1, <2>2, <2>3, <2>4
<1>10. CASE DohCrash
  <2>1. Kinds'
    BY <1>10 DEF DohCrash
  <2>2. (Snapshots /\ OldVersion /\ Marks)'
    BY <1>10 DEF DohCrash
  <2>3. (FirstTime /\ Undone)'
    BY <1>10 DEF DohCrash
  <2>4. DnsCanBeRestored'
    BY <1>10 DEF DohCrash
  <2> QED
    BY <2>1, <2>2, <2>3, <2>4
<1>11. ASSUME NEW a \in Adapter, Plug(a) PROVE DohInv'
  <2>1. Kinds'
    BY <1>11 DEF Plug
  <2>2. (Snapshots /\ OldVersion /\ Marks)'
    BY <1>11 DEF Plug
  <2>3. (FirstTime /\ Undone)'
    BY <1>11 DEF Plug
  <2>4. DnsCanBeRestored'
    BY <1>11 DEF Plug
  <2> QED
    BY <2>1, <2>2, <2>3, <2>4
<1>12. CASE UNCHANGED dohVars
  BY <1>12 DEF dohVars, dohDisk, worker
<1> QED
  BY <1>1, <1>2, <1>3, <1>4, <1>5, <1>6, <1>7, <1>8, <1>9, <1>10, <1>11, <1>12 DEF DohNext

(* The servers an adapter had before the program are on disk for as long as it has others, and the
   program knows that it has changed them: whatever doh_enable, doh_disable and their rollback meet
   (zapret_core.py 1977-2036). *)
THEOREM Restorable == DohSpec => []DnsCanBeRestored
<1>1. DohInv => DnsCanBeRestored
  BY DEF DohInv
<1> QED
  BY DohBegun, DohSteps, <1>1, PTL DEF DohSpec
(* The adapters that are there, were skipped or were given up are adapters. *)
Members == present \subseteq Adapter /\ skipped \subseteq Adapter /\ lost \subseteq Adapter

(* What is put back was recorded, and what is changed is in the snapshot on disk (zapret_core.py 1839-2036). *)
THEOREM DohTypesHold == DohSpec => []DohTypeOK
<1>1. DohInit => Members
  BY DEF DohInit, Members
<1>2. Members /\ [DohNext]_dohVars => Members'
  BY DEF Members, DohNext, EnableBegin, Record, Register, Enabled, RolledBack, DisableBegin, Pend, Disabled, DohCrash, Apply, Plug,
         Rest, GoTo, ApplyTo, GiveUp, dohVars, dohDisk, worker
<1>3. DohInv /\ Members => DohTypeOK
  BY DEF DohInv, Members, Kinds, Snapshots, DohTypeOK, Entries
<1> QED
  BY DohBegun, DohSteps, <1>1, <1>2, <1>3, PTL DEF DohSpec
-----------------------------------------------------------------------------
(* A step of the run is one of a part, or leaves that part as it is. *)
LEMMA PartsStep ==
    [ServicesNext]_ServicesVars =>
        /\ [StoreNext]_storeVars /\ [DohNext]_dohVars /\ [LaneNext]_laneVars /\ [StreamsNext]_streamVars
        /\ [SearchNext]_searchVars /\ [BridgeNext]_bridgeVars /\ which' = which
BY DEF ServicesNext, ServicesVars

(* So each part of the run behaves as it does alone, and all that is proved of the parts holds in it. *)
THEOREM PartsBehave ==
    ServicesSpec => StoreSpec /\ DohSpec /\ LaneSpec /\ StreamsSpec /\ SearchSpec /\ (which = "bridge" => BridgeSpec)
<1>1. ServicesInit => StoreInit /\ DohInit /\ LaneInit /\ StreamsInit /\ SearchInit /\ (which = "bridge" => BridgeInit)
  BY DEF ServicesInit
<1> QED
  BY <1>1, PartsStep, PTL DEF ServicesSpec, StoreSpec, DohSpec, LaneSpec, StreamsSpec, SearchSpec, BridgeSpec

(* The types of whichever part moves. *)
THEOREM ServicesTypes == ServicesSpec => []ServicesTypeOK
<1> DEFINE Rests == which # "bridge"
           Parted == which \in Parts
<1>1. ServicesInit => Parted
  BY DEF ServicesInit
<1>2. Parted /\ [ServicesNext]_ServicesVars => Parted'
  BY PartsStep
<1>3. Rests /\ [ServicesNext]_ServicesVars => Rests'
  BY PartsStep
<1>4. which = "bridge" \/ Rests
  OBVIOUS
<1>5. /\ Parted /\ StoreTypeOK /\ DohTypeOK /\ LaneTypeOK /\ StreamsTypeOK /\ SearchTypeOK
      /\ Rests \/ BridgeTypeOK
      => ServicesTypeOK
  BY DEF Parts, ServicesTypeOK
<1> HIDE DEF Rests, Parted
<1> QED
  BY <1>1, <1>2, <1>3, <1>4, <1>5, PartsBehave, StoreTypes, DohTypesHold, LaneTypesHold, StreamsTypesHold, SearchTypesHold,
     BridgeTypes, PTL DEF ServicesSpec
=============================================================================
