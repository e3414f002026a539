--------------------------- MODULE Services_proofs ---------------------------
(***************************************************************************)
(* Three of the services that MCServices puts into one run.  The settings on *)
(* disk, for any threads, fields and values and any number of              *)
(* transactions, failures and crashes: what a transaction leaves behind,   *)
(* and that the store implements AtomicStore (StoreInv).  The automatic    *)
(* search, for any number of strategies, ranks and searches: its results   *)
(* are all or nothing (SearchInv).  The bridge, for any packets and        *)
(* messages, of any number and length: it is faithful (BridgeInv); to say  *)
(* what the splitter does to a stream of any length takes an induction,    *)
(* which is one on a set of numbers here.                                  *)
(***************************************************************************)
EXTENDS SettingsStore, SearchPlan, WsBridge, Listing_proofs, NaturalsInduction, WellFoundedInduction

(* A configuration that was loaded. *)
Config == [Key -> Val \cup {Unset, Imported}]

(* Types, with the domains of the three functions of files; all numbers are transactions. *)
Shape == /\ onDisk \in [Files -> Stored \cup Nat] /\ before \in [Files -> Stored \cup Nat]
         /\ backup \in [Files -> Stored \cup Nat]
         /\ onDisk.config \in Stored /\ before.config \in Stored /\ backup.config \in Stored
         /\ \A f \in Other : onDisk[f] \in Nat /\ before[f] \in Nat
         /\ imports \in 0..MaxImport
         /\ holder \in Writer \cup {NoHolder, Importer}
         /\ loaded \in [Writer -> Config]
         /\ files \subseteq Files /\ todo \subseteq files /\ changed \subseteq files
         /\ step \in {"none", "backup", "replace", "undo"}
         /\ result \in {"none", "ok", "failed", "torn", "crashed"}
         /\ step # "none" <=> holder = Importer

(* What a thread changes under the lock is what is on disk. *)
Locked == \A w \in Writer : holder = w => loaded[w] = Fields(onDisk.config)

(* How far a transaction has come: what it has not replaced yet, or put back, is as it was. *)
Progress == /\ \A f \in Other : onDisk[f] <= imports /\ before[f] <= imports
            /\ step # "none" => \A f \in Other : before[f] < imports
            /\ step = "backup" => changed = {} /\ \A f \in Files : onDisk[f] = before[f]
            /\ step = "replace" => /\ \A f \in Files \ changed : onDisk[f] = before[f]
                                   /\ \A f \in changed : onDisk[f] = New(f)
                                   /\ changed = files \ todo
            /\ step = "undo" => /\ \A f \in Files \ changed : onDisk[f] = before[f]
                                /\ todo \subseteq changed

(* The old contents of a file are safe beside it. *)
Copied(f) == before[f] = Missing \/ backup[f] = before[f]

(* NoScores is replaced before everything is copied. *)
Copies == /\ step = "backup" => \A f \in files \ todo : Copied(f)
          /\ step \in {"replace", "undo"} => \A f \in files : Copied(f)

(* A result is that of a transaction that is over. *)
Results == /\ step # "none" => result = "none"
           /\ TornImportKeepsBackups

(* What is inductive. *)
StoreInv == Shape /\ Locked /\ Progress /\ Copies /\ Results

(* The least and the greatest of three places. *)
LEMMA MinMax == ASSUME NEW I \in SUBSET {1, 2, 3}, I # {} PROVE Min(I) \in I /\ Max(I) \in I
<1>1. \E x \in I : \A y \in I : x <= y
  <2>1. CASE 1 \in I
    BY <2>1
  <2>2. CASE 1 \notin I /\ 2 \in I
    BY <2>2
  <2>3. CASE 1 \notin I /\ 2 \notin I
    <3>1. 3 \in I /\ \A y \in I : y = 3
      BY <2>3
    <3> QED
      BY <3>1
  <2> QED
    BY <2>1, <2>2, <2>3
<1>2. \E x \in I : \A y \in I : x >= y
  <2>1. CASE 3 \in I
    BY <2>1
  <2>2. CASE 3 \notin I /\ 2 \in I
    BY <2>2
  <2>3. CASE 3 \notin I /\ 2 \notin I
    <3>1. 1 \in I /\ \A y \in I : y = 1
      BY <2>3
    <3> QED
      BY <3>1
  <2> QED
    BY <2>1, <2>2, <2>3
<1> QED
  BY <1>1, <1>2 DEF Min, Max
(* The next file of a transaction, and the one that is put back next, is one of its files. *)
LEMMA FirstLast == ASSUME NEW s \in SUBSET Files, s # {} PROVE FirstOf(s) \in s /\ LastOf(s) \in s
<1> DEFINE I == {i \in 1..Len(Order) : Order[i] \in s}
<1>0. Len(Order) = 3 /\ Order[1] = "lists" /\ Order[2] = "config" /\ Order[3] = "presets"
  BY DEF Order
<1>1. I \in SUBSET {1,2,3} /\ I # {}
  <2>1. "lists" \in s => 1 \in I
    BY <1>0
  <2>2. "config" \in s => 2 \in I
    BY <1>0
  <2>3. "presets" \in s => 3 \in I
    BY <1>0
  <2>4. "presets" \in s \/ "config" \in s \/ "lists" \in s
    BY DEF Files, Other
  <2> QED
    BY <1>0, <2>1, <2>2, <2>3, <2>4 
<1>2. Min(I) \in I /\ Max(I) \in I
  BY <1>1, MinMax
<1>3. SelectInSeq(Order, LAMBDA f : f \in s) = Min(I)
  BY <1>1 DEF SelectInSeq
<1>4. SelectLastInSeq(Order, LAMBDA f : f \in s) = Max(I)
  BY <1>1 DEF SelectLastInSeq
<1> QED
  BY <1>2, <1>3, <1>4 DEF FirstOf, LastOf

(* An installation without settings satisfies the invariant. *)
LEMMA StoreBegun == StoreInit => StoreInv
BY StoreAssumption, SMTT(30) DEF StoreInit, StoreInv, Shape, Locked, Progress, Copies, Results, TornImportKeepsBackups, Stored, Config,
   EmptyConfig, Files, Other, Fields

(* Every step of a thread, of a transaction and of the world keeps it. *)
LEMMA StoreStep == StoreInv /\ [StoreNext]_storeVars => StoreInv'
<1> SUFFICES ASSUME StoreInv, [StoreNext]_storeVars PROVE StoreInv'
  OBVIOUS
<1> USE StoreAssumption DEF StoreInv, Config, Shape, Locked, Progress, Copied, Copies, Results, TornImportKeepsBackups, Stored,
        EmptyConfig, Files, Other, Fields, import, ImportEnds
<1>0. ASSUME NEW s \in SUBSET Files, s # {} PROVE FirstOf(s) \in s /\ LastOf(s) \in s
  BY <1>0, FirstLast
<1>00. UNCHANGED <<imports, files, before>> => \A f : New(f)' = New(f)
  BY DEF New
<1>1. ASSUME NEW w \in Writer, Load(w) PROVE StoreInv'
  <2>1. Shape'
    BY <1>1 DEF Load
  <2>2. Locked'
    BY <1>1 DEF Load
  <2>3. Progress'
    BY <1>1 DEF Load
  <2>4. Copies'
    BY <1>1 DEF Load
  <2>5. Results'
    BY <1>1, <1>00 DEF Load
  <2> QED
    BY <2>1, <2>2, <2>3, <2>4, <2>5
<1>2. ASSUME NEW w \in Writer, Save(w) PROVE StoreInv'
  <2>1. Shape'
    <3>1. onDisk' \in [Files -> Stored \cup Nat] /\ onDisk'.config \in Stored
      <4>1. ASSUME NEW k \in Key, NEW v \in Val \cup {Unset}, onDisk' = [onDisk EXCEPT !["config"] = [loaded[w] EXCEPT ![k] = v]]
            PROVE  onDisk' \in [Files -> Stored \cup Nat] /\ onDisk'.config \in Stored
        <5>1. [loaded[w] EXCEPT ![k] = v] \in Stored
          OBVIOUS
        <5> QED
          BY <4>1, <5>1
      <4> QED
        BY <1>2, <4>1 DEF Save
    <3>2. \A f \in Other : onDisk'[f] = onDisk[f]
      BY <1>2 DEF Save
    <3> QED
      BY <1>2, <3>1, <3>2 DEF Save
  <2>2. Locked'
    BY <1>2 DEF Save
  <2>3. Progress'
    BY <1>2 DEF Save
  <2>4. Copies'
    BY <1>2 DEF Save
  <2>5. Results'
    BY <1>2 DEF Save
  <2> QED
    BY <2>1, <2>2, <2>3, <2>4, <2>5
<1>3. ASSUME NEW fs \in {{"config"}, {"presets"}, {"config", "presets"}, {"lists", "config"}}, Transaction(fs) PROVE StoreInv'
  <2>1. Shape'
    BY <1>3 DEF Transaction
  <2>2. Locked'
    BY <1>3 DEF Transaction
  <2>3. Progress'
    BY <1>3 DEF Transaction
  <2>4. Copies'
    BY <1>3 DEF Transaction
  <2>5. Results'
    BY <1>3 DEF Transaction
  <2> QED
    BY <2>1, <2>2, <2>3, <2>4, <2>5
<1>4. CASE Copy
  <2>1. Shape'
    <3>1. backup' \in [Files -> Stored \cup Nat]
      BY <1>4, <1>0 DEF Copy
    <3>2. todo' \subseteq files
      BY <1>4 DEF Copy
    <3> QED
      BY <1>4, <3>1, <3>2 DEF Copy
  <2>2. Locked'
    BY <1>4, <1>0 DEF Copy
  <2>3. Progress'
    BY <1>4, <1>0 DEF Copy
  <2>4. Copies'
    BY <1>4, <1>0 DEF Copy
  <2>5. Results'
    <3>1. result' \in {"none", "failed"} /\ (result' = "failed" => step' = "none")
      BY <1>4 DEF Copy
    <3>2. onDisk = before /\ UNCHANGED <<onDisk, before>>
      BY <1>4 DEF Copy
    <3> QED
      BY <1>4, <3>1, <3>2 DEF Copy
  <2> QED
    BY <2>1, <2>2, <2>3, <2>4, <2>5
<1>5. CASE ReplaceFiles
  <2>1. Shape'
    BY <1>5, <1>0 DEF ReplaceFiles, New
  <2>2. Locked'
    BY <1>5, <1>0 DEF ReplaceFiles, New
  <2>3. Progress'
    BY <1>5, <1>0 DEF ReplaceFiles, New
  <2>4. Copies'
    BY <1>5, <1>0 DEF ReplaceFiles, New
  <2>5. Results'
    BY <1>5, <1>0 DEF ReplaceFiles, New
  <2> QED
    BY <2>1, <2>2, <2>3, <2>4, <2>5
<1>6. CASE Undo
  <2>0. ASSUME todo # {} PROVE Shape' /\ Progress'
    <3> DEFINE f == LastOf(todo)
    <3>0. f \in todo
      BY <1>0, <2>0
    <3>1. step' = step /\ holder' = holder /\ result' = result /\ todo' = todo \ {f}
      BY <1>6, <2>0 DEF Undo
    <3>2. UNCHANGED <<backup, loaded, files, before, imports>>
      BY <1>6 DEF Undo
    <3>3. \/ onDisk' = [onDisk EXCEPT ![f] = before[f]] /\ changed' = changed \ {f}
          \/ UNCHANGED <<onDisk, changed>>
      BY <1>6, <2>0 DEF Undo
    <3> HIDE DEF f
    <3>4. Shape'
      <4>1. onDisk' \in [Files -> Stored \cup Nat] /\ onDisk'.config \in Stored /\ \A g \in Other : onDisk'[g] \in Nat
        BY <3>0, <3>3
      <4>2. changed' \subseteq files /\ todo' \subseteq files
        BY <3>0, <3>1, <3>3
      <4> QED
        BY <3>1, <3>2, <4>1, <4>2
    <3>5. Progress'
      BY <1>6, <3>0, <3>1, <3>2, <3>3 DEF Undo
    <3> QED
      BY <3>4, <3>5
  <2>00. ASSUME todo = {} PROVE Shape' /\ Progress'
    BY <1>6, <2>00, <1>00 DEF Undo
  <2>1. Shape'
    BY <2>0, <2>00
  <2>2. Locked'
    BY <1>6, <1>0 DEF Undo
  <2>3. Progress'
    BY <2>0, <2>00
  <2>4. Copies'
    BY <1>6, <1>0 DEF Undo
  <2>5. Results'
    <3>1. CASE todo # {}
      BY <1>6, <3>1 DEF Undo
    <3>2. CASE todo = {}
      <4>1. changed = {} => onDisk = before
        BY <1>6 DEF Undo
      <4> QED
        BY <1>6, <3>2, <4>1 DEF Undo
    <3> QED
      BY <3>1, <3>2
  <2> QED
    BY <2>1, <2>2, <2>3, <2>4, <2>5
<1>7. CASE StoreCrash
  <2>1. Shape'
    BY <1>7 DEF StoreCrash
  <2>2. Locked'
    BY <1>7 DEF StoreCrash
  <2>3. Progress'
    BY <1>7 DEF StoreCrash
  <2>4. Copies'
    BY <1>7 DEF StoreCrash
  <2>5. Results'
    <3>1. CASE holder = Importer
      <4>1. step = "backup" => onDisk = before
        OBVIOUS
      <4> QED
        BY <1>7, <3>1, <4>1 DEF StoreCrash
    <3>2. CASE holder # Importer
      BY <1>7, <1>00, <3>2 DEF StoreCrash
    <3> QED
      BY <3>1, <3>2
  <2> QED
    BY <2>1, <2>2, <2>3, <2>4, <2>5
<1>8. CASE Damage
  <2>1. Shape'
    BY <1>8 DEF Damage
  <2>2. Locked'
    BY <1>8 DEF Damage
  <2>3. Progress'
    BY <1>8 DEF Damage
  <2>4. Copies'
    BY <1>8 DEF Damage
  <2>5. Results'
    BY <1>8 DEF Damage
  <2> QED
    BY <2>1, <2>2, <2>3, <2>4, <2>5
<1>9. CASE UNCHANGED storeVars
  <2>1. Shape'
    BY <1>9 DEF storeVars
  <2>2. Locked'
    BY <1>9 DEF storeVars
  <2>3. Progress'
    BY <1>9, <1>00 DEF storeVars
  <2>4. Copies'
    BY <1>9 DEF storeVars
  <2>5. Results'
    BY <1>9, <1>00 DEF storeVars
  <2> QED
    BY <2>1, <2>2, <2>3, <2>4, <2>5
<1> QED
  BY <1>1, <1>2, <1>3, <1>4, <1>5, <1>6, <1>7, <1>8, <1>9 DEF StoreNext, ImportBegin, UpdateLists

(* The invariant holds always. *)
LEMMA SpecInv == StoreSpec => []StoreInv
<1> QED
  BY StoreBegun, StoreStep, PTL DEF StoreSpec

(* Types; and files are replaced only by whoever holds the lock. *)
THEOREM StoreTypes == StoreSpec => []StoreTypeOK
<1>1. StoreInv => StoreTypeOK
  BY StoreAssumption DEF StoreInv, Shape, Progress, StoreTypeOK, Stored, Config, Files, Other, EmptyConfig
<1> QED
  BY <1>1, SpecInv, PTL

(* A transaction that reports success has replaced all its files, one that reports failure
   none; one that is torn left all old, all new, or the old ones complete beside them
   (_write_transaction, zapret_core.py:800-829). *)
THEOREM BackupsAreKept == StoreSpec => []TornImportKeepsBackups
<1>1. StoreInv => TornImportKeepsBackups
  BY DEF StoreInv, Results
<1> QED
  BY <1>1, SpecInv, PTL

(* What a transaction writes, by cases. *)
LEMMA NewFile == /\ \A f \in Other : New(f) = imports
                 /\ New("config") = IF "lists" \in files THEN [Fields(before.config) EXCEPT ![Stamp] = Today]
                                    ELSE [k \in Key |-> Imported]
<1>1. "config" \notin Other
  BY DEF Other
<1> QED
  BY <1>1 DEF New

(* The store implements AtomicStore: loading, copying and a crash are stutters, a thread's
   save is Change, the reads of a transaction are Note; a replaced file, or one put back,
   is one of the three other steps.  What a thread saves was loaded under the lock, so that
   it is one field's change of what is on disk (update_config, zapret_core.py:755-763). *)
THEOREM Atomic == StoreSpec => StoreIsAtomic
<1>1. StoreInit => Abstract!Init
  BY DEF StoreInit, Abstract!Init, Abstract!Empty, Abstract!Old, Fields, EmptyConfig, Other
<1>2. StoreInv /\ [StoreNext]_storeVars => [Abstract!Next]_(Abstract!vars)
  <2> SUFFICES ASSUME StoreInv, [StoreNext]_storeVars PROVE Abstract!Next \/ UNCHANGED Abstract!vars
    OBVIOUS
  <2> USE StoreAssumption DEF StoreInv, Shape, Abstract!Next, Abstract!vars, Abstract!prior, import, ImportEnds
  <2> DEFINE rest == [f \in Other |-> onDisk[f]]
             priorRest == [f \in Other |-> before[f]]
  <2>1. ASSUME NEW w \in Writer, Load(w) PROVE UNCHANGED Abstract!vars
    BY <2>1 DEF Load
  <2>2. ASSUME NEW w \in Writer, Save(w) PROVE Abstract!Next \/ UNCHANGED Abstract!vars
    <3>1. ASSUME NEW k \in Key, NEW v \in Val \cup {Unset}, onDisk' = [onDisk EXCEPT !["config"] = [loaded[w] EXCEPT ![k] = v]]
          PROVE  Abstract!Change /\ UNCHANGED <<rest, Abstract!prior>>
      <4>1. loaded[w] = Fields(onDisk.config)
        BY <2>2 DEF Save, Locked
      <4>2. [loaded[w] EXCEPT ![k] = v] \in Config
        BY DEF Config
      <4>3. Fields(onDisk'.config) = [loaded[w] EXCEPT ![k] = v]
        BY <3>1, <4>2 DEF Fields, Config, Files
      <4>4. UNCHANGED <<rest, before>>
        BY <2>2, <3>1 DEF Save, Other, Files
      <4> QED
        BY <4>1, <4>3, <4>4 DEF Abstract!Change
    <3>2. CASE UNCHANGED onDisk
      BY <2>2, <3>2 DEF Save
    <3> QED
      BY <2>2, <3>1, <3>2 DEF Save
  <2>3. ASSUME NEW fs, Transaction(fs) PROVE Abstract!Note
    BY <2>3 DEF Transaction, Abstract!Note
  <2>4. CASE Copy
    BY <2>4 DEF Copy
  <2>5. CASE ReplaceFiles
    <3> DEFINE f == FirstOf(todo)
    <3>1. CASE todo # {} /\ onDisk' = [onDisk EXCEPT ![f] = New(f)] /\ step = "replace"
      <4>1. f \in todo /\ f \in Files /\ onDisk[f] = before[f]
        BY <3>1, FirstLast DEF Progress
      <4>2. UNCHANGED <<before, imports, files>>
        BY <2>5 DEF ReplaceFiles
      <4>3. CASE f = "config"
        <5>1. Fields(onDisk'.config) = New("config") /\ UNCHANGED rest
          BY <3>1, <4>1, <4>3, NewFile DEF Files, Other, Fields, EmptyConfig, Stored
        <5>2. CASE "lists" \in files
          BY <4>1, <4>2, <4>3, <5>1, <5>2, NewFile DEF Abstract!Change
        <5>3. CASE "lists" \notin files
          BY <4>1, <4>2, <4>3, <5>1, <5>3, NewFile DEF Abstract!ReplaceConfig
        <5> QED
          BY <5>2, <5>3
      <4>4. CASE f \in Other
        <5>1. UNCHANGED onDisk.config
          BY <3>1, <4>1, <4>4 DEF Files, Other
        <5>2. rest' = [rest EXCEPT ![f] = imports] /\ rest[f] < imports
          BY <3>1, <4>1, <4>4, NewFile DEF Files, Other, Progress
        <5> QED
          BY <4>2, <4>4, <5>1, <5>2 DEF Abstract!ReplaceRest
      <4> QED
        BY <4>1, <4>3, <4>4 DEF Files
    <3>2. CASE UNCHANGED onDisk
      BY <2>5, <3>2 DEF ReplaceFiles
    <3> QED
      BY <2>5, <3>1, <3>2 DEF ReplaceFiles
  <2>6. CASE Undo
    <3> DEFINE f == LastOf(todo)
    <3>1. CASE todo # {} /\ onDisk' = [onDisk EXCEPT ![f] = before[f]]
      <4>1. f \in todo /\ f \in Files
        BY <3>1, FirstLast
      <4>2. UNCHANGED before
        BY <2>6 DEF Undo
      <4>3. CASE f = "config"
        <5>1. Fields(onDisk'.config) = Fields(before.config) /\ UNCHANGED rest
          BY <3>1, <4>1, <4>3 DEF Files, Other
        <5> QED
          BY <4>2, <5>1 DEF Abstract!ReplaceConfig
      <4>4. CASE f \in Other
        <5>1. UNCHANGED onDisk.config
          BY <3>1, <4>1, <4>4 DEF Files, Other
        <5>2. rest' = [rest EXCEPT ![f] = priorRest[f]]
          BY <3>1, <4>1, <4>4 DEF Files, Other
        <5> QED
          BY <4>2, <4>4, <5>1, <5>2 DEF Abstract!ReplaceRest
      <4> QED
        BY <4>1, <4>3, <4>4 DEF Files
    <3>2. CASE UNCHANGED onDisk
      BY <2>6, <3>2 DEF Undo
    <3> QED
      BY <2>6, <3>1, <3>2 DEF Undo
  <2>7. CASE StoreCrash
    BY <2>7 DEF StoreCrash
  <2>8. CASE Damage
    <3>1. Fields(onDisk'.config) = EmptyConfig
      BY <2>8 DEF Damage, Fields, Files
    <3>2. UNCHANGED <<rest, before>>
      BY <2>8 DEF Damage, Files, Other
    <3> QED
      BY <3>1, <3>2 DEF Abstract!Lose, Abstract!Empty, EmptyConfig
  <2>9. CASE UNCHANGED storeVars
    BY <2>9 DEF storeVars
  <2> QED
    BY <2>1, <2>2, <2>3, <2>4, <2>5, <2>6, <2>7, <2>8, <2>9 DEF StoreNext, ImportBegin, UpdateLists
<1> QED
  BY <1>1, <1>2, SpecInv, PTL DEF StoreSpec, StoreIsAtomic, Abstract!Spec
-----------------------------------------------------------------------------
(* A full measurement, and the places of those that reached every target. *)
Measured == [name : 1..Strategies, rank : 0..BestRank, world : Conditions]
Good(rs) == {i \in 1..Len(rs) : Full(rs[i])}

(* The passing strategies are as many as the good places. *)
LEMMA PassingLength ==
  ASSUME NEW rs \in Seq(Measured)
  PROVE  Len(Passing(rs)) = Cardinality(Good(rs)) /\ Cardinality(Good(rs)) \in 0..Len(rs)
<1> DEFINE keep == {r \in ToSet(rs) : Full(r)}
           good == Kept(rs, keep)
<1>1. Places(rs, keep) = Good(rs)
  BY DEF Places, Good, ToSet
<1>2. good \in Seq(Measured) /\ Len(good) = Cardinality(Good(rs)) /\ Cardinality(Good(rs)) \in 0..Len(rs)
  BY <1>1, KeptIsPart
<1>3. Passing(rs) = [i \in 1..Len(good) |-> good[i].name]
  BY DEF Passing
<1> HIDE DEF good
<1> QED
  BY <1>2, <1>3

(* One more measurement gives one more passing strategy at most. *)
LEMMA OneMore ==
  ASSUME NEW rs \in Seq(Measured), NEW r \in Measured
  PROVE  Len(Passing(Append(rs, r))) \in Len(Passing(rs))..Len(Passing(rs)) + 1
<1> DEFINE n == Len(rs)
           t == Append(rs, r)
<1>1. n \in Nat /\ t \in Seq(Measured) /\ Len(t) = n + 1 /\ t[n + 1] = r /\ \A i \in 1..n : t[i] = rs[i]
  BY AppendProperties
<1>2. /\ Len(Passing(rs)) = Cardinality(Good(rs)) /\ Cardinality(Good(rs)) \in 0..n
      /\ Len(Passing(t)) = Cardinality(Good(t))
  BY <1>1, PassingLength
<1>3. IsFiniteSet(Good(rs)) /\ n + 1 \notin Good(rs)
  <2>1. Good(rs) \subseteq 1..n
    BY DEF Good
  <2>2. n \in Nat /\ n + 1 \notin 1..n
    BY <1>1
  <2> QED
    BY <2>1, <2>2, Upto, FS_Subset
<1>4. Good(t) = IF Full(r) THEN Good(rs) \cup {n + 1} ELSE Good(rs)
  <2> HIDE DEF t
  <2>1. \A i \in 1..n + 1 : i \in 1..n \/ i = n + 1
    BY <1>1
  <2> QED
    BY <1>1, <2>1 DEF Good
<1>5. Cardinality(Good(rs) \cup {n + 1}) = Cardinality(Good(rs)) + 1
  BY <1>3, FS_AddElement
<1> QED
  BY <1>2, <1>4, <1>5

(* Sorting keeps the results, puts the best first and changes nothing twice. *)
LEMMA Sorting ==
  ASSUME NEW rs \in Seq(Measured)
  PROVE  /\ Sorted(rs) \in Seq(Measured) /\ Len(Sorted(rs)) = Len(rs)
         /\ \A i \in 1..Len(rs) : \E k \in 1..Len(rs) : Sorted(rs)[i] = rs[k]
         /\ (\A i, k \in 1..Len(rs) : rs[i].name = rs[k].name => i = k) =>
               \A i, k \in 1..Len(rs) : Sorted(rs)[i].name = Sorted(rs)[k].name => i = k
         /\ \A i, k \in 1..Len(rs) : i < k => Sorted(rs)[i].rank >= Sorted(rs)[k].rank
         /\ (\A i, k \in 1..Len(rs) : i < k => rs[i].rank >= rs[k].rank) => Sorted(rs) = rs
         /\ Len(Passing(Sorted(rs))) = Len(Passing(rs))
<1> DEFINE n == Len(rs)
           keys == [i \in 1..n |-> rs[i].rank]
           by == Ranked(keys)
           t == Sorted(rs)
<1>1. n \in Nat /\ \A i \in 1..n : rs[i] \in Measured /\ rs[i].rank \in Nat
  <2>1. \A r \in Measured : r.rank \in Nat
    BY SearchAssumption DEF Measured
  <2>2. n \in Nat /\ \A i \in 1..n : rs[i] \in Measured
    OBVIOUS
  <2> QED
    BY <2>1, <2>2
<1>2. keys \in Seq(Nat) /\ Len(keys) = n /\ \A i \in 1..n : keys[i] = rs[i].rank
  BY <1>1
<1>3. t = [k \in 1..n |-> rs[by[k]]]
  BY DEF Sorted
<1> HIDE DEF keys, t
<1>4. /\ by \in Seq(1..n) /\ Len(by) = n
      /\ \A i, k \in 1..n : by[i] = by[k] => i = k
      /\ \A i \in 1..n : \E k \in 1..n : by[k] = i
      /\ \A i, k \in 1..n : i < k => keys[by[i]] >= keys[by[k]]
      /\ (\A i, k \in 1..n : i < k => keys[i] >= keys[k]) => \A k \in 1..n : by[k] = k
  BY <1>2, Ranking
<1> HIDE DEF by
<1>5. \A k \in 1..n : by[k] \in 1..n /\ t[k] = rs[by[k]]
  <2>1. \A k \in 1..n : by[k] \in 1..n
    <3>1. by \in Seq(1..n) /\ Len(by) = n
      BY <1>4
    <3> QED
      BY <3>1
  <2> QED
    BY <1>3, <2>1
<1>6. t \in Seq(Measured) /\ Len(t) = n
  BY <1>1, <1>3, <1>5
<1>7. \A i \in 1..n : \E k \in 1..n : t[i] = rs[k]
  BY <1>5
<1>8. ASSUME \A i, k \in 1..n : rs[i].name = rs[k].name => i = k, NEW i \in 1..n, NEW k \in 1..n, t[i].name = t[k].name
      PROVE  i = k
  <2>1. rs[by[i]].name = rs[by[k]].name /\ by[i] \in 1..n /\ by[k] \in 1..n
    BY <1>5, <1>8
  <2>2. by[i] = by[k]
    BY <1>8, <2>1
  <2> QED
    BY <1>4, <2>2
<1>9. \A i, k \in 1..n : i < k => t[i].rank >= t[k].rank
  <2> SUFFICES ASSUME NEW i \in 1..n, NEW k \in 1..n, i < k PROVE t[i].rank >= t[k].rank
    OBVIOUS
  <2>1. t[i].rank = keys[by[i]] /\ t[k].rank = keys[by[k]]
    BY <1>2, <1>5
  <2>2. keys[by[i]] >= keys[by[k]]
    BY <1>4
  <2> QED
    BY <2>1, <2>2
<1>10. ASSUME \A i, k \in 1..n : i < k => rs[i].rank >= rs[k].rank PROVE t = rs
  <2>1. \A k \in 1..n : by[k] = k
    BY <1>2, <1>4, <1>10, ZenonT(60)
  <2>2. \A k \in 1..n : t[k] = rs[k]
    BY <1>5, <2>1
  <2> QED
    BY <1>6, <2>2, SeqEqual
<1>11. Len(Passing(t)) = Len(Passing(rs))
  <2> DEFINE back == [k \in Good(t) |-> by[k]]
  <2>1. Good(t) = {k \in 1..n : Full(rs[by[k]])}
    BY <1>5, <1>6 DEF Good
  <2>2. back \in [Good(t) -> Good(rs)]
    BY <1>5, <2>1 DEF Good
  <2>3. \A i, k \in Good(t) : back[i] = back[k] => i = k
    BY <1>4, <2>1
  <2>4. \A i \in Good(rs) : \E k \in Good(t) : back[k] = i
    BY <1>4, <2>1 DEF Good
  <2>5. back \in Bijection(Good(t), Good(rs))
    BY <2>2, <2>3, <2>4, Fun_IsBij
  <2>6. IsFiniteSet(Good(t))
    <3>1. Good(t) \subseteq 1..n
      BY <2>1
    <3>2. n \in Nat
      BY <1>1
    <3> QED
      BY <3>1, <3>2, Upto, FS_Subset
  <2>7. Cardinality(Good(t)) = Cardinality(Good(rs))
    BY <2>5, <2>6, FS_Bijection DEF ExistsBijection
  <2> QED
    BY <1>6, <2>7, PassingLength
<1> QED
  BY <1>6, <1>7, <1>8, <1>9, <1>10, <1>11 DEF t
-----------------------------------------------------------------------------
(* Types. *)
SearchTypes == /\ searching \in {"rest", "quick", "full", "finally", "posted"}
               /\ fast \in BOOLEAN /\ cancel \in BOOLEAN /\ complete \in BOOLEAN
               /\ returned \in BOOLEAN
               /\ trial \in 0..Strategies /\ world \in Conditions /\ context \in Conditions
               /\ shown \in Seq(Measured) /\ previous.shown \in Seq(Measured)
               /\ scores \in Seq({0, 1}) /\ Len(scores) <= Strategies /\ ranking \in Seq(1..Strategies)

(* What each phase of the search leaves to the next, and that the one before is kept for it. *)
Phases == /\ scores # <<>> => searching = "quick"
          /\ ranking # <<>> => searching = "full"
          /\ trial # 0 => searching \in {"quick", "full"}
          /\ searching = "quick" /\ trial # 0 => Len(scores) < Strategies
          /\ searching = "quick" => shown = <<>>
          /\ searching \in {"quick", "full"} => ~complete
          /\ searching = "posted" /\ ~complete => cancel
          /\ searching # "rest" => previous.pool = recoveryPool /\ previous.context = poolContext

(* Every strategy was measured, or enough passed in a fast search. *)
AllMeasured == Len(shown) = Strategies \/ (fast /\ Len(Passing(shown)) = Enough)

(* No strategy is shown twice. *)
Distinct == \A i, k \in 1..Len(shown) : shown[i].name = shown[k].name => i = k

(* In the middle: what is shown and what is to come are all strategies, each once. *)
Halfway == /\ Distinct
           /\ \A i, k \in 1..Len(ranking) : ranking[i] = ranking[k] => i = k
           /\ \A i \in 1..Len(ranking), k \in 1..Len(shown) : ranking[i] # shown[k].name
           /\ ~returned /\ world = context => \A k \in 1..Len(shown) : shown[k].world = context
           /\ trial # 0 => ranking # <<>> /\ trial = Head(ranking)
           /\ ranking # <<>> => Len(shown) + Len(ranking) = Strategies /\ (fast => Len(Passing(shown)) < Enough)
           /\ ranking = <<>> => AllMeasured

(* The results of a search that completed. *)
Counts == /\ AllMeasured /\ Distinct
          /\ \A i, k \in 1..Len(shown) : i < k => shown[i].rank >= shown[k].rank
          /\ ~returned => \A k \in 1..Len(shown) : shown[k].world = context

(* The inductive invariant. *)
SearchInv == /\ SearchTypes /\ Phases /\ SearchIsAllOrNothing
             /\ searching = "full" => Halfway
             /\ complete /\ searching \in {"finally", "posted"} => Counts

(* The empty list, of scores, candidates and results. *)
LEMMA NoScores == /\ <<>> \in Seq({0, 1}) /\ <<>> \in Seq(1..Strategies) /\ <<>> \in Seq(Measured)
                 /\ Len(<<>>) = 0
OBVIOUS

(* The invariant holds at first. *)
LEMMA SearchInitInv == SearchInit => SearchInv
<1> SUFFICES ASSUME SearchInit PROVE SearchInv
  OBVIOUS
<1>1. Result(1, FullRank) \in Measured
  BY SearchAssumption DEF SearchInit, Result, Measured
<1>2. shown \in Seq(Measured) /\ previous.shown = shown
  <2>1. <<Result(1, FullRank)>> \in Seq(Measured)
    BY <1>1
  <2>2. shown = <<>> \/ shown = <<Result(1, FullRank)>>
    BY DEF SearchInit
  <2> QED
    BY <2>1, <2>2, NoScores DEF SearchInit
<1>3. SearchTypes
  <2>1. scores \in Seq({0, 1}) /\ Len(scores) <= Strategies
    BY NoScores, SearchAssumption DEF SearchInit
  <2>2. ranking \in Seq(1..Strategies)
    BY NoScores DEF SearchInit
  <2>3. trial \in 0..Strategies /\ world \in Conditions /\ context \in Conditions
    BY SearchAssumption DEF SearchInit
  <2> QED
    BY <1>2, <2>1, <2>2, <2>3 DEF SearchInit, SearchTypes
<1> QED
  BY <1>3, SearchAssumption DEF SearchInit, SearchInv, Phases, SearchIsAllOrNothing

(* Every step keeps the invariant. *)
LEMMA SearchStepInv == SearchInv /\ [SearchNext]_searchVars => SearchInv'
<1> SUFFICES ASSUME SearchInv, [SearchNext]_searchVars PROVE SearchInv'
  OBVIOUS
<1> USE SearchAssumption DEF Measuring
<1>1. CASE SearchStart
  <2>0. shown' = <<>> /\ previous'.shown = shown
    BY <1>1 DEF SearchStart
  <2>1. SearchTypes'
    <3>1. shown' \in Seq(Measured) /\ previous'.shown \in Seq(Measured)
      BY <2>0, NoScores DEF SearchInv, SearchTypes
    <3>2. UNCHANGED <<trial, scores, ranking, world>> /\ context' = world /\ searching' = "quick"
          /\ fast' \in BOOLEAN /\ cancel' = FALSE /\ complete' = FALSE
      BY <1>1 DEF SearchStart
    <3>3. context' \in Conditions /\ returned' = FALSE
      BY <1>1, <3>2 DEF SearchStart, SearchInv, SearchTypes
    <3> QED
      BY <3>1, <3>2, <3>3 DEF SearchInv, SearchTypes
  <2>2. Phases'
    BY <1>1 DEF SearchStart, SearchInv, Phases, SearchTypes
  <2> QED
    BY <1>1, <2>1, <2>2 DEF SearchStart, SearchInv, SearchIsAllOrNothing
<1>2. CASE SearchAborts
  <2>1. SearchTypes'
    BY <1>2 DEF SearchAborts, SearchInv, SearchTypes
  <2>2. Phases'
    BY <1>2 DEF SearchAborts, SearchInv, Phases, SearchTypes
  <2> QED
    BY <1>2, <2>1, <2>2 DEF SearchAborts, SearchInv, SearchIsAllOrNothing, Phases
<1>3. CASE TrialBegin
  <2>1. SearchTypes'
    BY <1>3 DEF TrialBegin, SearchInv, SearchTypes, Phases
  <2>2. Phases'
    BY <1>3 DEF TrialBegin, SearchInv, Phases, SearchTypes
  <2>3. searching' = "full" => Halfway'
    BY <1>3 DEF TrialBegin, SearchInv, Halfway, Distinct, AllMeasured, SearchTypes
  <2> QED
    BY <1>3, <2>1, <2>2, <2>3 DEF TrialBegin, SearchInv, SearchIsAllOrNothing
<1>4. CASE QuickEnd
  <2>1. scores' \in Seq({0, 1}) /\ Len(scores') = Len(scores) + 1
    BY <1>4 DEF QuickEnd, SearchInv, SearchTypes
  <2>2. SearchTypes'
    BY <1>4, <2>1 DEF QuickEnd, SearchInv, SearchTypes, Phases
  <2>3. Phases'
    BY <1>4, <2>1 DEF QuickEnd, SearchInv, Phases, SearchTypes
  <2> QED
    BY <1>4, <2>2, <2>3 DEF QuickEnd, SearchInv, SearchIsAllOrNothing
<1>5. CASE QuickOver
  <2>1. scores \in Seq(Nat) /\ Len(scores) = Strategies
    BY <1>5 DEF QuickOver, SearchInv, SearchTypes
  <2>2. /\ ranking' \in Seq(1..Strategies) /\ Len(ranking') = Strategies
        /\ \A i, k \in 1..Len(ranking') : ranking'[i] = ranking'[k] => i = k
    BY <1>5, <2>1, Ranking DEF QuickOver, InOrder
  <2>3. shown' = <<>> /\ trial' = 0
    BY <1>5 DEF QuickOver, SearchInv, Phases
  <2>4. SearchTypes'
    BY <1>5, <2>2 DEF QuickOver, SearchInv, SearchTypes
  <2>5. Phases'
    BY <1>5, <2>3 DEF QuickOver, SearchInv, Phases
  <2>6. Halfway'
    <3>1. Len(Passing(<<>>)) = Cardinality(Good(<<>>)) /\ Cardinality(Good(<<>>)) \in 0..Len(<<>>)
      BY NoScores, PassingLength
    <3>2. Len(Passing(<<>>)) = 0
      BY <3>1, NoScores
    <3> QED
      BY <2>2, <2>3, <3>2, NoScores DEF Halfway, Distinct, AllMeasured, Enough
  <2> QED
    BY <1>5, <2>4, <2>5, <2>6 DEF QuickOver, SearchInv, SearchIsAllOrNothing
<1>6. CASE FullEnd
  <2>1. /\ Halfway /\ trial # 0 /\ ranking # <<>> /\ trial = Head(ranking) /\ ranking \in Seq(1..Strategies)
        /\ shown \in Seq(Measured)
    BY <1>6 DEF FullEnd, SearchInv, SearchTypes, Halfway
  <2>2. PICK r \in 0..BestRank : shown' = Append(shown, Result(trial, r))
    BY <1>6 DEF FullEnd
  <2> DEFINE new == Result(trial, r)
  <2>3. new \in Measured /\ new.name = trial /\ new.world = world
    BY <2>1 DEF Result, Measured, SearchInv, SearchTypes
  <2> HIDE DEF new
  <2>4. /\ shown' \in Seq(Measured) /\ Len(shown') = Len(shown) + 1 /\ shown'[Len(shown) + 1] = new
        /\ \A i \in 1..Len(shown) : shown'[i] = shown[i]
    BY <2>1, <2>2, <2>3, AppendProperties DEF new
  <2>5. Len(Passing(shown')) \in Len(Passing(shown))..Len(Passing(shown)) + 1
    BY <2>1, <2>2, <2>3, OneMore DEF new
  <2>6. Len(Passing(shown)) \in Nat
    BY <2>1, PassingLength
  <2>7. /\ Len(ranking) \in Nat \ {0} /\ trial = ranking[1]
        /\ Tail(ranking) \in Seq(1..Strategies) /\ Len(Tail(ranking)) = Len(ranking) - 1
        /\ \A i \in 1..Len(ranking) - 1 : Tail(ranking)[i] = ranking[i + 1]
    BY <2>1, HeadTailProperties
  <2>8. Len(shown) \in Nat /\ \A i \in 1..Len(shown') : i \in 1..Len(shown) \/ i = Len(shown) + 1
    BY <2>1, <2>4
  <2>9. Distinct'
    <3> SUFFICES ASSUME NEW i \in 1..Len(shown'), NEW k \in 1..Len(shown'), shown'[i].name = shown'[k].name PROVE i = k
      BY DEF Distinct
    <3>1. \A j \in 1..Len(shown) : shown[j].name # trial
      BY <2>1, <2>7 DEF Halfway
    <3> QED
      BY <2>1, <2>3, <2>4, <2>8, <3>1 DEF Halfway, Distinct
  <2>10. ~returned /\ world = context => \A k \in 1..Len(shown') : shown'[k].world = context
    BY <2>1, <2>3, <2>4, <2>8 DEF Halfway
  <2>11. UNCHANGED <<fast, world, context, returned>> /\ trial' = 0
    BY <1>6 DEF FullEnd
  <2>14. Len(shown) + Len(ranking) = Strategies /\ (fast => Len(Passing(shown)) < 3)
    BY <2>1 DEF Halfway, Enough
  <2> DEFINE had == Len(Passing(shown))
             has == Len(Passing(shown'))
  <2>15. had \in Nat /\ has \in had..had + 1 /\ (fast => had < 3)
    BY <2>5, <2>6, <2>14
  <2> HIDE DEF had, has
  <2>16. has \in Nat /\ (fast /\ has >= 3 => has = 3)
    BY <2>15
  <2>12. CASE fast /\ Len(Passing(shown')) >= Enough
    <3>1. ranking' = <<>>
      BY <1>6, <2>12 DEF FullEnd
    <3>2. Len(Passing(shown')) = Enough
      BY <2>12, <2>16 DEF Enough, has
    <3> QED
      <4>1. Halfway'
        BY <2>9, <2>10, <2>11, <2>12, <3>1, <3>2 DEF Halfway, AllMeasured
      <4>2. SearchTypes'
        <5>1. ranking' \in Seq(1..Strategies)
          BY <3>1, NoScores
        <5> QED
          BY <1>6, <2>4, <5>1 DEF FullEnd, SearchInv, SearchTypes
      <4>3. Phases'
        BY <1>6, <3>1 DEF FullEnd, SearchInv, Phases
      <4> QED
        BY <1>6, <4>1, <4>2, <4>3 DEF FullEnd, SearchInv, SearchIsAllOrNothing
  <2>13. CASE ~(fast /\ Len(Passing(shown')) >= Enough)
    <3>1. ranking' = Tail(ranking)
      BY <1>6, <2>13 DEF FullEnd
    <3>0. Len(shown') + Len(ranking') = Strategies
      <4>1. Len(shown') = Len(shown) + 1 /\ Len(ranking') = Len(ranking) - 1
        BY <2>4, <2>7, <3>1
      <4>2. Len(shown) \in Nat /\ Len(ranking) \in Nat
        BY <2>7, <2>8
      <4> QED
        BY <2>14, <4>1, <4>2
    <3>2. fast => Len(Passing(shown')) < Enough
      BY <2>13, <2>16 DEF Enough, has
    <3>3. ranking' = <<>> => Len(shown') = Strategies
      BY <2>4, <2>8, <3>0, NoScores
    <3>4. \A i, k \in 1..Len(ranking') : ranking'[i] = ranking'[k] => i = k
      <4> SUFFICES ASSUME NEW i \in 1..Len(ranking'), NEW k \in 1..Len(ranking'), ranking'[i] = ranking'[k] PROVE i = k
        OBVIOUS
      <4>1. i + 1 \in 1..Len(ranking) /\ k + 1 \in 1..Len(ranking) /\ ranking[i + 1] = ranking[k + 1]
        BY <2>7, <3>1
      <4>2. i + 1 = k + 1
        BY <2>1, <4>1 DEF Halfway
      <4> QED
        BY <2>7, <3>1, <4>2
    <3>5. \A i \in 1..Len(ranking'), k \in 1..Len(shown') : ranking'[i] # shown'[k].name
      <4> SUFFICES ASSUME NEW i \in 1..Len(ranking'), NEW k \in 1..Len(shown') PROVE ranking'[i] # shown'[k].name
        OBVIOUS
      <4>1. i + 1 \in 1..Len(ranking) /\ 1 \in 1..Len(ranking) /\ i + 1 # 1 /\ ranking'[i] = ranking[i + 1]
        BY <2>7, <3>1
      <4>2. ranking[i + 1] # ranking[1]
        BY <2>1, <4>1 DEF Halfway
      <4>3. CASE k = Len(shown) + 1
        BY <2>3, <2>4, <2>7, <4>1, <4>2, <4>3
      <4>4. CASE k \in 1..Len(shown)
        BY <2>1, <2>4, <4>1, <4>4 DEF Halfway
      <4> QED
        BY <2>8, <4>3, <4>4
    <3> QED
      <4>1. Halfway'
        BY <2>9, <2>10, <2>11, <3>0, <3>2, <3>3, <3>4, <3>5 DEF Halfway, AllMeasured
      <4>2. SearchTypes'
        <5>1. ranking' \in Seq(1..Strategies)
          BY <2>7, <3>1
        <5> QED
          BY <1>6, <2>4, <5>1 DEF FullEnd, SearchInv, SearchTypes
      <4>3. Phases'
        BY <1>6 DEF FullEnd, SearchInv, Phases
      <4> QED
        BY <1>6, <4>1, <4>2, <4>3 DEF FullEnd, SearchInv, SearchIsAllOrNothing
  <2> QED
    BY <2>12, <2>13
<1>7. CASE SearchOver
  <2>1. Halfway /\ AllMeasured /\ shown \in Seq(Measured) /\ world = context
    BY <1>7 DEF SearchOver, SearchInv, SearchTypes, Halfway
  <2>2. shown' = Sorted(shown) /\ UNCHANGED <<fast, context, returned>>
    BY <1>7 DEF SearchOver
  <2>3. /\ shown' \in Seq(Measured) /\ Len(shown') = Len(shown)
        /\ \A i \in 1..Len(shown) : \E k \in 1..Len(shown) : shown'[i] = shown[k]
        /\ \A i, k \in 1..Len(shown) : shown'[i].name = shown'[k].name => i = k
        /\ \A i, k \in 1..Len(shown) : i < k => shown'[i].rank >= shown'[k].rank
        /\ Len(Passing(shown')) = Len(Passing(shown))
    <3>1. \A i, k \in 1..Len(shown) : shown[i].name = shown[k].name => i = k
      BY <2>1 DEF Halfway, Distinct
    <3>2. shown \in Seq(Measured)
      BY <2>1
    <3>3. /\ Sorted(shown) \in Seq(Measured) /\ Len(Sorted(shown)) = Len(shown)
          /\ \A i \in 1..Len(shown) : \E k \in 1..Len(shown) : Sorted(shown)[i] = shown[k]
          /\ \A i, k \in 1..Len(shown) : Sorted(shown)[i].name = Sorted(shown)[k].name => i = k
          /\ \A i, k \in 1..Len(shown) : i < k => Sorted(shown)[i].rank >= Sorted(shown)[k].rank
          /\ Len(Passing(Sorted(shown))) = Len(Passing(shown))
      BY <3>1, <3>2, Sorting, Zenon
    <3> QED
      BY <2>2, <3>3
  <2>4. ~returned => \A k \in 1..Len(shown) : shown[k].world = context
    BY <2>1 DEF Halfway
  <2>5. AllMeasured'
    BY <2>1, <2>2, <2>3 DEF AllMeasured
  <2>6. Counts'
    BY <2>2, <2>3, <2>4, <2>5 DEF Counts, Distinct
  <2>7. SearchTypes'
    BY <1>7, <2>3 DEF SearchOver, SearchInv, SearchTypes
  <2>8. Phases'
    BY <1>7 DEF SearchOver, SearchInv, Phases
  <2> QED
    BY <1>7, <2>6, <2>7, <2>8 DEF SearchOver, SearchInv, SearchIsAllOrNothing
<1>8. CASE PutBack
  <2>1. SearchTypes'
    BY <1>8 DEF PutBack, SearchInv, SearchTypes
  <2>2. Phases'
    BY <1>8 DEF PutBack, SearchInv, Phases, SearchTypes
  <2>3. complete' => Counts'
    BY <1>8 DEF PutBack, SearchInv, Counts, AllMeasured, Distinct, SearchTypes
  <2> QED
    BY <1>8, <2>1, <2>2, <2>3 DEF PutBack, SearchInv, SearchIsAllOrNothing
<1>9. CASE Show
  <2>1. CASE Restored
    <3>1. SearchTypes'
      BY <1>9, <2>1 DEF Show, Restored, SearchInv, SearchTypes
    <3>2. Phases'
      BY <1>9, <2>1 DEF Show, Restored, SearchInv, Phases
    <3>3. SearchIsAllOrNothing'
      BY <1>9, <2>1 DEF Show, Restored, SearchInv, Phases, SearchIsAllOrNothing
    <3> QED
      BY <1>9, <3>1, <3>2, <3>3 DEF Show, SearchInv
  <2>2. CASE ~cancel /\ Saved
    <3>1. SearchTypes'
      BY <1>9, <2>2 DEF Show, Saved, SearchInv, SearchTypes
    <3>2. Phases'
      BY <1>9, <2>2 DEF Show, Saved, SearchInv, Phases
    <3>3. Counts /\ shown \in Seq(Measured)
      BY <1>9, <2>2 DEF Show, SearchInv, Phases, SearchTypes
    <3>4. Sorted(shown) = shown
      BY <3>3, Sorting DEF Counts
    <3>5. /\ shown' = shown /\ recoveryPool' = Passing(shown) /\ poolContext' = context /\ UNCHANGED <<fast, returned>> /\ ~cancel'
      BY <1>9, <2>2, <3>4 DEF Show, Saved
    <3>6. SearchIsAllOrNothing'
      BY <3>3, <3>5 DEF Counts, Distinct, AllMeasured, SearchIsAllOrNothing
    <3> QED
      BY <1>9, <3>1, <3>2, <3>6 DEF Show, SearchInv
  <2> QED
    BY <1>9, <2>1, <2>2 DEF Show
<1>10. CASE Interrupt
  <2>1. SearchTypes'
    BY <1>10 DEF Interrupt, Cancels, SearchInv, SearchTypes
  <2>2. Phases'
    BY <1>10 DEF Interrupt, Cancels, SearchInv, Phases
  <2> QED
    BY <1>10, <2>1, <2>2 DEF Interrupt, Cancels, SearchInv, SearchIsAllOrNothing, Halfway, Counts, AllMeasured, Distinct
<1>11. CASE ConditionsChange
  <2>1. SearchTypes'
    BY <1>11 DEF ConditionsChange, SearchInv, SearchTypes
  <2>2. Phases'
    BY <1>11 DEF ConditionsChange, SearchInv, Phases
  <2>3. searching' = "full" => Halfway'
    <3> SUFFICES ASSUME searching = "full" PROVE Halfway'
      BY <1>11 DEF ConditionsChange
    <3>1. ~(~returned' /\ world' = context')
      BY <1>11 DEF ConditionsChange
    <3> QED
      BY <1>11, <3>1 DEF ConditionsChange, SearchInv, Halfway, AllMeasured, Distinct
  <2> QED
    BY <1>11, <2>1, <2>2, <2>3 DEF ConditionsChange, SearchInv, SearchIsAllOrNothing, Counts, AllMeasured, Distinct
<1>12. CASE UNCHANGED searchVars
  BY <1>12 DEF searchVars, SearchInv, SearchTypes, Phases, SearchIsAllOrNothing, Halfway, Counts, AllMeasured, Distinct
<1> QED
  BY <1>1, <1>2, <1>3, <1>4, <1>5, <1>6, <1>7, <1>8, <1>9, <1>10, <1>11, <1>12 DEF SearchNext

(* The invariant holds throughout. *)
LEMMA SearchSpecInv == SearchSpec => []SearchInv
BY SearchInitInv, SearchStepInv, PTL DEF SearchSpec

(* Types; a strategy that is shown is not measured again (zapret_app.pyw 2908-3121). *)
THEOREM SearchTypesHold == SearchSpec => []SearchTypeOK
<1>1. SearchInv => SearchTypeOK
  <2> SUFFICES ASSUME SearchInv PROVE SearchTypeOK
    OBVIOUS
  <2>1. \A i \in 1..Len(shown) : shown[i].name \in 1..Strategies /\ shown[i].rank \in 0..BestRank
    <3>1. \A i \in 1..Len(shown) : shown[i] \in Measured
      BY DEF SearchInv, SearchTypes
    <3> QED
      BY <3>1 DEF Measured
  <2>2. CASE ranking = <<>>
    BY <2>1, <2>2, SearchAssumption DEF SearchInv, SearchTypes, SearchTypeOK
  <2>3. CASE ranking # <<>>
    <3>1. Halfway
      BY <2>3 DEF SearchInv, Phases
    <3>2. Len(ranking) <= Strategies
      BY <2>3, <3>1, SearchAssumption DEF Halfway, SearchInv, SearchTypes
    <3> QED
      BY <2>1, <3>1, <3>2 DEF Halfway, SearchInv, SearchTypes, SearchTypeOK
  <2> QED
    BY <2>2, <2>3
<1> QED
  BY <1>1, SearchSpecInv, PTL

(* A search that was cancelled, superseded or failed leaves the results and the recovery pool of the
   one before; one that counts shows what it measured and saves what passed (zapret_app.pyw 3060-3121). *)
THEOREM AllOrNothing == SearchSpec => []SearchIsAllOrNothing
BY SearchSpecInv, PTL DEF SearchInv
-----------------------------------------------------------------------------
(* Induction, as a fact about a set of numbers. *)
LEMMA Induction ==
    ASSUME NEW S \in SUBSET Nat, 0 \in S, \A n \in S : n + 1 \in S PROVE \A n \in Nat : n \in S
<1> DEFINE R == {ss \in Nat \X Nat : ss[1] < ss[2]}
           T == Nat \ S
<1>1. IsWellFoundedOn(R, Nat)
  <2>1. OpToRel(<, Nat) = R
    BY DEF OpToRel
  <2> QED BY <2>1, NatLessThanWellFounded
<1>2. SUFFICES ASSUME T # {} PROVE FALSE
  OBVIOUS
<1>3. PICK m \in T : \A y \in T : ~(<<y, m>> \in R)
  <2> HIDE DEF R
  <2> QED BY <1>1, <1>2, WFMin, Zenon
<1>4. m # 0 /\ m - 1 \in Nat /\ m - 1 < m
  BY <1>3
<1>5. m - 1 \in S
  BY <1>3, <1>4
<1> QED BY <1>3, <1>4, <1>5

(* Concatenation, for the provers, which are to know no more of it than these facts. *)
Cat(a, b) == a \o b
(* Concatenation is associative, and the empty sequence changes nothing. *)
LEMMA Cats ==
    ASSUME NEW S, NEW a \in Seq(S), NEW b \in Seq(S), NEW c \in Seq(S)
    PROVE  /\ Cat(a, b) \in Seq(S) /\ Cat(<<>>, a) = a /\ Cat(a, <<>>) = a
           /\ Cat(Cat(a, b), c) = Cat(a, Cat(b, c)) /\ <<>> \in Seq(S)
BY ConcatProperties, ConcatEmptySeq, ConcatAssociative, EmptySeq DEF Cat

(* What FlattenSeq is: the last of the sequences that each add one part. *)
Adds(g, s, m) == g[0] = <<>> /\ \A i \in 1..m : g[i] = Cat(g[i - 1], s[i])
Flattens(g, s, m, S) == g \in [0..m -> Seq(S)] /\ Adds(g, s, m)

(* FlattenSeq is the last of them ... *)
LEMMA FlatIs ==
    ASSUME NEW S, NEW s \in Seq(Seq(S)), NEW g, Flattens(g, s, Len(s), S) PROVE FlattenSeq(s) = g[Len(s)]
<1>1. CASE Len(s) = 0
  <2>1. s = <<>>
    BY <1>1, EmptySeq
  <2> QED BY <1>1, <2>1 DEF FlattenSeq, Flattens, Adds
<1>2. CASE Len(s) # 0
  <2> DEFINE n == Len(s)
             Is(f) == f = [i \in 1..n |-> IF i = 1 THEN s[i] ELSE f[i - 1] \o s[i]]
             F == CHOOSE f : Is(f)
             h == [i \in 1..n |-> g[i]]
  <2>0. n \in Nat \ {0} /\ \A i \in 1..n : s[i] \in Seq(S)
    BY <1>2, LenProperties, ElementOfSeq
  <2>1. FlattenSeq(s) = F[n]
    BY <1>2 DEF FlattenSeq
  <2>2. Is(h)
    <3>1. ASSUME NEW i \in 1..n PROVE g[i] = IF i = 1 THEN s[i] ELSE Cat(h[i - 1], s[i])
      <4>0. i \in Nat /\ s[i] \in Seq(S)
        BY <2>0
      <4>1. g[i] = Cat(g[i - 1], s[i]) /\ g[0] = <<>>
        BY DEF Flattens, Adds
      <4>2. CASE i = 1
        <5>1. Cat(<<>>, s[i]) = s[i]
          BY <4>0, Cats
        <5> QED BY <4>1, <4>2, <5>1
      <4>3. CASE i # 1
        BY <4>0, <4>1, <4>3
      <4> QED BY <4>2, <4>3
    <3> HIDE DEF n
    <3>2. h = [i \in 1..n |-> IF i = 1 THEN s[i] ELSE Cat(h[i - 1], s[i])]
      BY <3>1, SMTT(60)
    <3> QED BY <3>2 DEF Cat
  <2> HIDE DEF h
  <2>3. F = [i \in 1..n |-> IF i = 1 THEN s[i] ELSE Cat(F[i - 1], s[i])]
    BY <2>2 DEF Cat
  <2> HIDE DEF F
  <2>4. \A i \in 1..n : F[i] = IF i = 1 THEN s[i] ELSE Cat(F[i - 1], s[i])
    BY <2>3
  <2>5. \A i \in 1..n : g[i] = IF i = 1 THEN s[i] ELSE Cat(g[i - 1], s[i])
    <3>1. ASSUME NEW i \in 1..n PROVE g[i] = IF i = 1 THEN s[i] ELSE Cat(g[i - 1], s[i])
      <4>1. g[i] = Cat(g[i - 1], s[i]) /\ g[0] = <<>> /\ Cat(<<>>, s[i]) = s[i]
        BY <2>0, Cats DEF Flattens, Adds
      <4> QED BY <2>0, <4>1
    <3> QED BY <3>1
  <2> DEFINE I == {i \in Nat : i + 1 \in 1..n => F[i + 1] = g[i + 1]}
  <2> HIDE DEF n
  <2>6. 0 \in I
    BY <2>0, <2>4, <2>5
  <2>7. ASSUME NEW i \in I PROVE i + 1 \in I
    <3>1. i \in Nat
      OBVIOUS
    <3>2. ASSUME (i + 1) + 1 \in 1..n PROVE F[(i + 1) + 1] = g[(i + 1) + 1]
      <4>1. i + 1 \in 1..n /\ ((i + 1) + 1) - 1 = i + 1 /\ (i + 1) + 1 # 1
        BY <2>0, <3>1, <3>2
      <4>2. F[i + 1] = g[i + 1]
        BY <4>1
      <4> QED BY <2>4, <2>5, <3>2, <4>1, <4>2
    <3> QED BY <3>1, <3>2
  <2>8. \A i \in Nat : i \in I
    <3> HIDE DEF I
    <3>1. I \in SUBSET Nat
      BY DEF I
    <3> QED BY <2>6, <2>7, <3>1, Induction
  <2>9. F[n] = g[n]
    <3>1. n - 1 \in Nat /\ (n - 1) + 1 = n /\ n \in 1..n
      BY <2>0
    <3> QED BY <2>8, <3>1
  <2> QED BY <2>1, <2>9 DEF n
<1> QED BY <1>1, <1>2

(* ... they exist ... *)
LEMMA FlatGoes == ASSUME NEW S, NEW s \in Seq(Seq(S)) PROVE \E g : Flattens(g, s, Len(s), S)
<1> DEFINE n == Len(s)
           I == {m \in Nat : m <= n => \E g : Flattens(g, s, m, S)}
<1>0. n \in Nat /\ \A i \in 1..n : s[i] \in Seq(S)
  BY LenProperties, ElementOfSeq
<1> HIDE DEF n
<1>1. 0 \in I
  <2>1. Flattens([i \in 0..0 |-> <<>>], s, 0, S)
    BY EmptySeq DEF Flattens, Adds
  <2> QED BY <2>1
<1>2. ASSUME NEW m \in I PROVE m + 1 \in I
  <2>0. m \in Nat
    OBVIOUS
  <2>1. ASSUME m + 1 <= n PROVE \E g : Flattens(g, s, m + 1, S)
    <3>1. PICK g : Flattens(g, s, m, S)
      BY <1>0, <2>0, <2>1
    <3> HIDE DEF I
    <3> DEFINE h == [i \in 0..(m + 1) |-> IF i <= m THEN g[i] ELSE Cat(g[m], s[m + 1])]
    <3>2. g \in [0..m -> Seq(S)] /\ g[m] \in Seq(S) /\ s[m + 1] \in Seq(S)
      BY <1>0, <2>0, <2>1, <3>1 DEF Flattens
    <3>3. Cat(g[m], s[m + 1]) \in Seq(S)
      BY <3>2, Cats
    <3>4. h \in [0..(m + 1) -> Seq(S)]
      BY <2>0, <3>2, <3>3
    <3>5. h[0] = <<>>
      BY <2>0, <3>1 DEF Flattens, Adds
    <3>6. ASSUME NEW i \in 1..(m + 1) PROVE h[i] = Cat(h[i - 1], s[i])
      <4>1. CASE i <= m
        <5>1. g[i] = Cat(g[i - 1], s[i])
          BY <2>0, <3>1, <4>1 DEF Flattens, Adds
        <5> QED BY <2>0, <4>1, <5>1
      <4>2. CASE i = m + 1
        BY <2>0, <4>2
      <4> QED BY <2>0, <4>1, <4>2
    <3>7. Flattens(h, s, m + 1, S)
      BY <3>4, <3>5, <3>6 DEF Flattens, Adds
    <3> QED BY <3>7
  <2> QED BY <2>0, <2>1
<1>3. \A m \in Nat : m \in I
  <2> HIDE DEF I
  <2>1. I \in SUBSET Nat
    BY DEF I
  <2> QED BY <1>1, <1>2, <2>1, Induction
<1>4. n <= n
  BY <1>0
<1> QED BY <1>0, <1>3, <1>4 DEF n

(* ... so that the parts of two lists, put together, are the one's and then the other's. *)
LEMMA FlatCat ==
    ASSUME NEW S, NEW s \in Seq(Seq(S)), NEW t \in Seq(Seq(S))
    PROVE  FlattenSeq(s) \in Seq(S) /\ FlattenSeq(s \o t) = Cat(FlattenSeq(s), FlattenSeq(t))
<1> DEFINE m == Len(s)
           n == Len(t)
           u == s \o t
<1>0. /\ m \in Nat /\ n \in Nat /\ u \in Seq(Seq(S)) /\ Len(u) = m + n
      /\ \A i \in 1..n : t[i] \in Seq(S)
      /\ \A i \in 1..(m + n) : u[i] = IF i <= m THEN s[i] ELSE t[i - m]
  BY LenProperties, ElementOfSeq, ConcatProperties
<1>1. PICK g : Flattens(g, s, m, S)
  BY FlatGoes
<1>2. PICK h : Flattens(h, t, n, S)
  BY FlatGoes
<1> HIDE DEF m, n, u
<1>3. FlattenSeq(s) = g[m] /\ FlattenSeq(t) = h[n]
  BY <1>1, <1>2, FlatIs DEF m, n
<1>4. /\ g \in [0..m -> Seq(S)] /\ h \in [0..n -> Seq(S)] /\ g[m] \in Seq(S) /\ h[0] = <<>> /\ g[0] = <<>>
      /\ (\A i \in 1..m : g[i] = Cat(g[i - 1], s[i])) /\ \A i \in 1..n : h[i] = Cat(h[i - 1], t[i])
  BY <1>0, <1>1, <1>2 DEF Flattens, Adds
<1> DEFINE k == [i \in 0..(m + n) |-> IF i <= m THEN g[i] ELSE Cat(g[m], h[i - m])]
<1>5. k \in [0..(m + n) -> Seq(S)]
  <2>1. ASSUME NEW i \in 0..(m + n), ~(i <= m) PROVE Cat(g[m], h[i - m]) \in Seq(S)
    <3>1. i - m \in 0..n
      BY <1>0, <2>1
    <3>2. h[i - m] \in Seq(S)
      BY <1>4, <3>1
    <3> QED BY <1>4, <3>2, Cats
  <2>2. ASSUME NEW i \in 0..(m + n), i <= m PROVE g[i] \in Seq(S)
    BY <1>0, <1>4, <2>2
  <2> QED BY <2>1, <2>2
<1>6. ASSUME NEW i \in 1..(m + n) PROVE k[i] = Cat(k[i - 1], u[i])
  <2>0. i \in Nat /\ i - 1 \in 0..(m + n) /\ i \in 0..(m + n)
    BY <1>0
  <2>1. CASE i <= m
    <3>1. i \in 1..m /\ i - 1 <= m
      BY <1>0, <2>0, <2>1
    <3>2. k[i] = g[i] /\ k[i - 1] = g[i - 1] /\ u[i] = s[i]
      BY <1>0, <2>0, <2>1, <3>1
    <3> QED BY <1>4, <3>1, <3>2
  <2>2. CASE i = m + 1
    <3>1. k[i - 1] = g[m] /\ k[i] = Cat(g[m], h[1]) /\ u[i] = t[1] /\ 1 \in 1..n
      BY <1>0, <2>0, <2>2
    <3>2. h[1] = Cat(<<>>, t[1]) /\ t[1] \in Seq(S)
      BY <1>0, <1>4, <3>1
    <3>3. h[1] = t[1]
      BY <3>2, Cats
    <3> QED BY <3>1, <3>3
  <2>3. CASE i > m + 1
    <3> DEFINE j == i - m
    <3>0. m \in Nat /\ n \in Nat /\ i \in Nat /\ i <= m + n
      BY <1>0, <2>0
    <3>1. j \in 1..n /\ j - 1 \in 0..n /\ (i - 1) - m = j - 1 /\ ~(i - 1 <= m) /\ ~(i <= m)
      <4> HIDE DEF m, n
      <4> QED BY <2>3, <3>0
    <3>2. k[i - 1] = Cat(g[m], h[j - 1]) /\ k[i] = Cat(g[m], h[j]) /\ u[i] = t[j]
      BY <1>0, <2>0, <3>1
    <3> HIDE DEF j, k
    <3>3. h[j] = Cat(h[j - 1], t[j]) /\ h[j - 1] \in Seq(S) /\ t[j] \in Seq(S)
      BY <1>0, <1>4, <3>1
    <3>4. Cat(Cat(g[m], h[j - 1]), t[j]) = Cat(g[m], Cat(h[j - 1], t[j]))
      <4>1. \A a, b, c \in Seq(S) : Cat(Cat(a, b), c) = Cat(a, Cat(b, c))
        BY Cats
      <4>2. g[m] \in Seq(S)
        BY <1>4
      <4> QED BY <3>3, <4>1, <4>2
    <3> QED BY <3>2, <3>3, <3>4
  <2> QED BY <1>0, <2>0, <2>1, <2>2, <2>3, SMTT(60)
<1>7. k[0] = <<>>
  BY <1>0, <1>4
<1>8. Flattens(k, u, m + n, S)
  BY <1>5, <1>6, <1>7 DEF Flattens, Adds
<1>9. FlattenSeq(u) = k[m + n]
  <2> HIDE DEF k
  <2> QED BY <1>0, <1>8, FlatIs
<1>10. k[m + n] = Cat(g[m], h[n])
  <2>1. CASE n = 0
    <3>1. Cat(g[m], <<>>) = g[m]
      BY <1>4, Cats
    <3> QED BY <1>0, <1>4, <2>1, <3>1
  <2>2. CASE n # 0
    BY <1>0, <2>2
  <2> QED BY <2>1, <2>2
<1> QED BY <1>3, <1>4, <1>9, <1>10 DEF u

(* Parts of one element each are the sequence itself. *)
LEMMA FlatSingles ==
    ASSUME NEW S, NEW t \in Seq(S) PROVE FlattenSeq([i \in 1..Len(t) |-> <<t[i]>>]) = t
<1> DEFINE n == Len(t)
           s == [i \in 1..n |-> <<t[i]>>]
           g == [i \in 0..n |-> SubSeq(t, 1, i)]
<1>0. n \in Nat /\ (\A i \in 1..n : t[i] \in S) /\ s \in Seq(Seq(S)) /\ Len(s) = n
  OBVIOUS
<1>1. \A i \in 0..n : SubSeq(t, 1, i) \in Seq(S)
  OBVIOUS
<1>2. SubSeq(t, 1, 0) = <<>> /\ SubSeq(t, 1, n) = t
  BY SubSeqEmpty, SubSeqFull
<1>3. ASSUME NEW i \in 1..n PROVE SubSeq(t, 1, i) = Cat(SubSeq(t, 1, i - 1), <<t[i]>>)
  BY DEF Cat
<1> HIDE DEF n
<1>4. Adds(g, s, n)
  <2>1. g[0] = <<>>
    BY <1>0, <1>2
  <2>2. ASSUME NEW i \in 1..n PROVE g[i] = Cat(g[i - 1], s[i])
    <3>1. i \in 0..n /\ i - 1 \in 0..n /\ s[i] = <<t[i]>>
      BY <1>0
    <3>2. g[i] = SubSeq(t, 1, i) /\ g[i - 1] = SubSeq(t, 1, i - 1)
      BY <3>1
    <3> QED BY <1>3, <3>1, <3>2
  <2> QED BY <2>1, <2>2 DEF Adds
<1>5. Flattens(g, s, n, S)
  BY <1>0, <1>1, <1>4 DEF Flattens
<1>6. FlattenSeq(s) = g[n]
  <2> HIDE DEF s, g
  <2> QED BY <1>0, <1>5, FlatIs
<1> QED BY <1>0, <1>2, <1>6 DEF n

(* The data frames among those that were written. *)
Frames == [op : {"data", "pong", "close"}, body : Seq(Nat)]
Part(f) == IF f.op = "data" THEN <<f.body>> ELSE <<>>
Contents(o) == FlattenSeq([i \in 1..Len(o) |-> Part(o[i])])

(* What the frames of data of a list hold is a sequence of parts. *)
LEMMA Contained == ASSUME NEW o \in Seq(Frames)
    PROVE [i \in 1..Len(o) |-> Part(o[i])] \in Seq(Seq(Seq(Nat))) /\ Contents(o) \in Seq(Seq(Nat))
<1>1. ASSUME NEW i \in 1..Len(o) PROVE Part(o[i]) \in Seq(Seq(Nat))
  <2>1. o[i] \in Frames
    BY ElementOfSeq
  <2>2. o[i].body \in Seq(Nat)
    BY <2>1 DEF Frames
  <2> QED BY <2>2 DEF Part
<1>2. [i \in 1..Len(o) |-> Part(o[i])] \in Seq(Seq(Seq(Nat)))
  BY <1>1, LenProperties, IsASeq
<1>3. FlattenSeq([i \in 1..Len(o) |-> Part(o[i])]) \in Seq(Seq(Nat))
  BY <1>2, FlatCat
<1> QED BY <1>2, <1>3 DEF Contents

(* Frames after frames hold parts after parts. *)
LEMMA ContentsCat ==
    ASSUME NEW o \in Seq(Frames), NEW x \in Seq(Frames) PROVE Contents(o \o x) = Cat(Contents(o), Contents(x))
<1> DEFINE a == [i \in 1..Len(o) |-> Part(o[i])]
           b == [i \in 1..Len(x) |-> Part(x[i])]
           c == [i \in 1..Len(o \o x) |-> Part((o \o x)[i])]
<1>0. /\ Len(o) \in Nat /\ Len(x) \in Nat /\ Len(o \o x) = Len(o) + Len(x)
      /\ \A i \in 1..(Len(o) + Len(x)) : (o \o x)[i] = IF i <= Len(o) THEN o[i] ELSE x[i - Len(o)]
  BY LenProperties, ConcatProperties
<1>1. a \in Seq(Seq(Seq(Nat))) /\ b \in Seq(Seq(Seq(Nat))) /\ Len(a) = Len(o) /\ Len(b) = Len(x)
  BY <1>0, Contained, LenProperties
<1>2. /\ Len(a \o b) = Len(o) + Len(x) /\ a \o b \in Seq(Seq(Seq(Nat)))
      /\ \A i \in 1..(Len(o) + Len(x)) : (a \o b)[i] = IF i <= Len(o) THEN a[i] ELSE b[i - Len(o)]
  BY <1>1, ConcatProperties
<1>3. ASSUME NEW i \in 1..(Len(o) + Len(x)) PROVE (a \o b)[i] = Part((o \o x)[i])
  <2>1. CASE i <= Len(o)
    BY <1>0, <1>2, <2>1
  <2>2. CASE ~(i <= Len(o))
    <3>1. i - Len(o) \in 1..Len(x)
      BY <1>0, <2>2
    <3> QED BY <1>0, <1>2, <2>2, <3>1
  <2> QED BY <2>1, <2>2
<1>4. c = a \o b
  <2>1. a \o b = [i \in 1..(Len(o) + Len(x)) |-> (a \o b)[i]]
    BY <1>2, LenProperties
  <2> QED BY <1>0, <1>3, <2>1
<1> HIDE DEF a, b, c
<1>5. FlattenSeq(a \o b) = Cat(FlattenSeq(a), FlattenSeq(b))
  BY <1>1, FlatCat
<1> QED BY <1>4, <1>5 DEF Contents, a, b, c

(* Frames made of parts hold these parts. *)
LEMMA ContentsData ==
    ASSUME NEW parts \in Seq(Seq(Nat)) PROVE Data(parts) \in Seq(Frames) /\ Contents(Data(parts)) = parts
<1>0. Len(parts) \in Nat /\ \A i \in 1..Len(parts) : parts[i] \in Seq(Nat)
  BY LenProperties, ElementOfSeq
<1>1. \A i \in 1..Len(parts) : Frame("data", parts[i]) \in Frames /\ Part(Frame("data", parts[i])) = <<parts[i]>>
  BY <1>0 DEF Frame, Frames, Part
<1>2. Data(parts) \in Seq(Frames) /\ Len(Data(parts)) = Len(parts)
  BY <1>0, <1>1, IsASeq, LenProperties DEF Data
<1>3. [i \in 1..Len(Data(parts)) |-> Part(Data(parts)[i])] = [i \in 1..Len(parts) |-> <<parts[i]>>]
  BY <1>0, <1>1, <1>2 DEF Data
<1>4. FlattenSeq([i \in 1..Len(parts) |-> <<parts[i]>>]) = parts
  BY FlatSingles
<1> QED BY <1>2, <1>3, <1>4 DEF Contents

(* A pong or a close holds none. *)
LEMMA ContentsStay ==
    ASSUME NEW o \in Seq(Frames), NEW f \in Frames, f.op # "data"
    PROVE  Append(o, f) \in Seq(Frames) /\ Contents(Append(o, f)) = Contents(o)
<1>1. Append(o, f) = o \o <<f>> /\ Append(o, f) \in Seq(Frames) /\ <<f>> \in Seq(Frames)
  BY AppendIsConcat, AppendProperties
<1>2. Contents(<<f>>) = <<>>
  <2>1. [i \in 1..Len(<<f>>) |-> Part(<<f>>[i])] = <<(<<>>)>>
    BY DEF Part
  <2>2. [i \in 1..1 |-> <<>>] = <<(<<>>)>>
    OBVIOUS
  <2>3. Flattens([i \in 0..1 |-> <<>>], <<(<<>>)>>, 1, Nat)
    <3>1. Cat(<<>>, <<>>) = <<>>
      BY Cats
    <3> QED BY <3>1, EmptySeq DEF Flattens, Adds
  <2>4. FlattenSeq(<<(<<>>)>>) = <<>>
    <3>1. <<(<<>>)>> \in Seq(Seq(Nat)) /\ Len(<<(<<>>)>>) = 1
      OBVIOUS
    <3>2. FlattenSeq(<<(<<>>)>>) = [i \in 0..1 |-> <<>>][1]
      BY <2>3, <3>1, FlatIs
    <3> QED BY <3>2
  <2> QED BY <2>1, <2>4 DEF Contents
<1>3. Cat(Contents(o), <<>>) = Contents(o)
  BY Contained, Cats
<1> QED BY <1>1, <1>2, <1>3, ContentsCat

(* A length is a number, whatever the bytes. *)
Little4(a, b, c, d) == a + 256 * b + 65536 * c + 16777216 * d
Little3(a, b, c) == 4 * (a + 256 * b + 65536 * c)
(* The length fields are numbers. *)
LEMMA LittleEndian ==
    \A a, b, c, d \in Nat : Little4(a, b, c, d) \in Nat /\ Little3(a, b, c) \in Nat /\ 4 * a \in Nat
BY SMT DEF Little4, Little3

(* A payload is of some length. *)
LEMMA PayloadIsLong ==
    ASSUME NEW proto, NEW b \in Seq(Nat), Len(b) >= HeaderLen(proto, b), b # <<>>
    PROVE  PayloadLen(proto, b) \in Nat
<1>0. \A a \in Nat : a % 128 \in Nat
  BY SMT
<1>1. Len(b) \in Nat /\ \A i \in 1..Len(b) : b[i] \in Nat
  BY ElementOfSeq, SMT
<1>2. b[1] \in Nat /\ b[1] % 128 \in Nat
  BY <1>0, <1>1, SMT
<1>3. CASE proto = "intermediate"
  <2>1. HeaderLen(proto, b) = 4
    BY <1>3, SMT DEF HeaderLen
  <2>2. b[2] \in Nat /\ b[3] \in Nat /\ b[4] \in Nat
    BY <1>1, <2>1, SMT
  <2>3. b[4] % 128 \in Nat
    BY <1>0, <2>2, SMT
  <2>4. Little4(b[1], b[2], b[3], b[4] % 128) \in Nat
    BY <1>2, <2>2, <2>3, LittleEndian, Zenon
  <2> QED BY <1>3, <2>4, SMT DEF PayloadLen, Little4
<1>4. CASE proto # "intermediate" /\ proto = "abridged" /\ Long(b)
  <2>1. HeaderLen(proto, b) = 4
    BY <1>4, SMT DEF HeaderLen
  <2>2. b[2] \in Nat /\ b[3] \in Nat /\ b[4] \in Nat
    BY <1>1, <2>1, SMT
  <2>4. Little3(b[2], b[3], b[4]) \in Nat
    BY <2>2, LittleEndian, Zenon
  <2> QED BY <1>4, <2>4, SMT DEF PayloadLen, Little3
<1>5. CASE proto # "intermediate" /\ ~(proto = "abridged" /\ Long(b))
  <2>1. 4 * (b[1] % 128) \in Nat
    BY <1>2, LittleEndian, Zenon
  <2> QED BY <1>5, <2>1, SMT DEF PayloadLen
<1> QED BY <1>3, <1>4, <1>5

(* The next packet is within the buffer, or incomplete, or there is none. *)
LEMMA NextLens ==
    ASSUME NEW proto, NEW b \in Seq(Nat), b # <<>> PROVE NextPacketLen(proto, b) \in {Incomplete} \cup 0..Len(b)
<1>1. CASE Len(b) < HeaderLen(proto, b)
  BY <1>1 DEF NextPacketLen
<1>2. CASE ~(Len(b) < HeaderLen(proto, b))
  <2> DEFINE h == HeaderLen(proto, b)
             n == PayloadLen(proto, b)
  <2>1. h \in {1, 4} => Len(b) >= h
    BY <1>2
  <2>0. h \in {1, 4}
    BY DEF HeaderLen
  <2>2. n \in Nat /\ h \in {1, 4} /\ Len(b) \in Nat
    BY <2>0, <2>1, PayloadIsLong
  <2>3. NextPacketLen(proto, b) = IF n = 0 THEN 0 ELSE IF Len(b) < h + n THEN Incomplete ELSE h + n
    BY <1>2, <2>2 DEF NextPacketLen
  <2> HIDE DEF n, h
  <2> QED BY <2>2, <2>3
<1> QED BY <1>1, <1>2

(* What is cut at a place of the buffer, by what the walk found behind it. *)
Ahead(proto, b, o) == IF o = Len(b) THEN Incomplete ELSE NextPacketLen(proto, SubSeq(b, o + 1, Len(b)))
CutEnd(proto, b, o) == IF o + Ahead(proto, b, o) > Len(b) THEN Len(b) ELSE o + Ahead(proto, b, o)
Joined(end, rest) == [ends |-> <<end>> \o rest.ends, off |-> rest.off]
CutAt(proto, b, f, o) ==
    CASE Ahead(proto, b, o) = Incomplete -> [ends |-> <<>>, off |-> FALSE]
      [] Ahead(proto, b, o) = 0 -> [ends |-> <<Len(b)>>, off |-> TRUE]
      [] OTHER -> Joined(CutEnd(proto, b, o), f[CutEnd(proto, b, o)])
Walks(proto, b, f, m) == f = [o \in m..Len(b) |-> CutAt(proto, b, f, o)]

(* The walk goes forward, and not beyond the buffer. *)
LEMMA AheadIs ==
    ASSUME NEW proto, NEW b \in Seq(Nat), NEW o \in 0..Len(b)
    PROVE  /\ Ahead(proto, b, o) \in {Incomplete} \cup Nat
           /\ Ahead(proto, b, o) \notin {Incomplete, 0} => CutEnd(proto, b, o) \in (o + 1)..Len(b)
<1> DEFINE w == SubSeq(b, o + 1, Len(b))
<1>0. Len(b) \in Nat /\ o \in Nat
  BY LenProperties
<1>1. CASE o = Len(b)
  BY <1>1 DEF Ahead
<1>2. CASE o # Len(b)
  <2>1. w \in Seq(Nat) /\ Len(w) = Len(b) - o
    BY <1>0, <1>2
  <2>2. w # <<>>
    <3>1. Len(w) # 0 /\ Len(<<>>) = 0
      BY <1>0, <1>2, <2>1
    <3> QED BY <3>1
  <2>3. NextPacketLen(proto, w) \in {Incomplete} \cup 0..Len(w)
    BY <2>1, <2>2, NextLens
  <2>4. Ahead(proto, b, o) = NextPacketLen(proto, w)
    BY <1>2 DEF Ahead
  <2> HIDE DEF w
  <2>5. o < Len(b)
    BY <1>0, <1>2
  <2> DEFINE a == Ahead(proto, b, o)
  <2>6. a \in {Incomplete} \cup 0..(Len(b) - o)
    BY <2>1, <2>3, <2>4
  <2> HIDE DEF a
  <2>7. a \in {Incomplete} \cup Nat
    BY <1>0, <2>5, <2>6
  <2>8. a \notin {Incomplete, 0} => (IF o + a > Len(b) THEN Len(b) ELSE o + a) \in (o + 1)..Len(b)
    BY <1>0, <2>5, <2>6
  <2> QED BY <2>7, <2>8 DEF CutEnd, a
<1> QED BY <1>1, <1>2

(* The walk is defined at every place, from the end of the buffer backwards. *)
LEMMA WalkGoes == ASSUME NEW proto, NEW b \in Seq(Nat) PROVE \E f : Walks(proto, b, f, 0)
<1> DEFINE L == Len(b)
           I == {d \in Nat : d <= L => \E f : Walks(proto, b, f, L - d)}
<1>0. L \in Nat
  BY LenProperties
<1>1. 0 \in I
  <2> DEFINE f == [o \in L..L |-> [ends |-> <<>>, off |-> FALSE]]
  <2>1. ASSUME NEW o \in L..L PROVE CutAt(proto, b, f, o) = [ends |-> <<>>, off |-> FALSE]
    <3>1. Ahead(proto, b, o) = Incomplete
      BY <1>0 DEF Ahead
    <3> QED BY <3>1 DEF CutAt, Incomplete
  <2>2. Walks(proto, b, f, L)
    BY <2>1 DEF Walks
  <2>3. L - 0 = L
    BY <1>0
  <2> QED BY <2>2, <2>3
<1>2. ASSUME NEW d \in I PROVE d + 1 \in I
  <2>0. d \in Nat
    OBVIOUS
  <2>1. ASSUME d + 1 <= L PROVE \E f : Walks(proto, b, f, L - (d + 1))
    <3>1. PICK f : Walks(proto, b, f, L - d)
      BY <1>0, <2>0, <2>1
    <3> HIDE DEF I
    <3> DEFINE m == L - (d + 1)
               h == [o \in m..L |-> IF o = m THEN CutAt(proto, b, f, m) ELSE f[o]]
    <3>2. m \in 0..L /\ m < L /\ L - d = m + 1
      BY <1>0, <2>0, <2>1
    <3> HIDE DEF m
    <3>3. ASSUME NEW o \in m..L PROVE h[o] = CutAt(proto, b, h, o)
      <4>0. o \in 0..L
        BY <1>0, <3>2
      <4>1. h[o] = CutAt(proto, b, f, o)
        <5>1. CASE o = m
          BY <5>1
        <5>2. CASE o # m
          <6>1. o \in (L - d)..L
            BY <1>0, <3>2, <5>2
          <6>2. f[o] = CutAt(proto, b, f, o)
            BY <3>1, <6>1 DEF Walks
          <6> QED BY <5>2, <6>2
        <5> QED BY <5>1, <5>2
      <4>2. Ahead(proto, b, o) \notin {Incomplete, 0} =>
               CutEnd(proto, b, o) \in m..L /\ CutEnd(proto, b, o) # m
        BY <1>0, <3>2, <4>0, AheadIs
      <4>3. Ahead(proto, b, o) \notin {Incomplete, 0} => h[CutEnd(proto, b, o)] = f[CutEnd(proto, b, o)]
        BY <4>2
      <4> HIDE DEF h
      <4>4. CutAt(proto, b, f, o) = CutAt(proto, b, h, o)
        BY <4>3 DEF CutAt
      <4> QED BY <4>1, <4>4
    <3>5. Walks(proto, b, h, m)
      <4>1. h = [o \in m..L |-> h[o]]
        OBVIOUS
      <4> HIDE DEF h
      <4> QED BY <3>3, <4>1 DEF Walks
    <3> QED BY <3>5 DEF m
  <2> QED BY <2>0, <2>1
<1>3. \A d \in Nat : d \in I
  <2> HIDE DEF I
  <2>1. I \in SUBSET Nat
    BY DEF I
  <2> QED BY <1>1, <1>2, <2>1, Induction
<1>4. L \in I /\ L <= L /\ L - L = 0
  BY <1>0, <1>3
<1> QED BY <1>4

(* Cuts is the walk from the beginning. *)
LEMMA CutsAre == ASSUME NEW proto, NEW b \in Seq(Nat) PROVE \E f : Walks(proto, b, f, 0) /\ Cuts(proto, b) = f[0]
<1> DEFINE Is(f) == f = [o \in 0..Len(b) |->
              LET n == IF o = Len(b) THEN Incomplete ELSE NextPacketLen(proto, SubSeq(b, o + 1, Len(b)))
              IN CASE n = Incomplete -> [ends |-> <<>>, off |-> FALSE]
                   [] n = 0 -> [ends |-> <<Len(b)>>, off |-> TRUE]
                   [] OTHER -> LET end  == IF o + n > Len(b) THEN Len(b) ELSE o + n
                                   rest == f[end]
                               IN [ends |-> <<end>> \o rest.ends, off |-> rest.off]]
           F == CHOOSE f : Is(f)
<1>1. Cuts(proto, b) = F[0]
  BY DEF Cuts
<1>2. \A f : Is(f) <=> f = [o \in 0..Len(b) |-> CutAt(proto, b, f, o)]
  BY DEF CutAt, Ahead, CutEnd, Joined
<1>3. PICK g : Walks(proto, b, g, 0)
  BY WalkGoes
<1> HIDE DEF Is
<1>4. Is(g)
  BY <1>2, <1>3 DEF Walks
<1>5. Is(F)
  BY <1>4
<1>6. Walks(proto, b, F, 0)
  BY <1>2, <1>5 DEF Walks
<1> HIDE DEF F
<1> QED BY <1>1, <1>6

(* The walk cuts at the places e, the last of which may be where what is no packet ends. *)
Chained(proto, b, M, K, x, e) ==
    /\ b \in Seq(Nat) /\ M \in Nat /\ K \in 0..M /\ e \in [0..M -> 0..Len(b)] /\ e[0] = 0
    /\ \A k \in 1..K : e[k - 1] < e[k] /\ Ahead(proto, b, e[k - 1]) = e[k] - e[k - 1]
    /\ \/ M = K /\ x = FALSE /\ Ahead(proto, b, e[K]) = Incomplete
       \/ M = K + 1 /\ x = TRUE /\ e[M] = Len(b) /\ Ahead(proto, b, e[K]) = 0

(* When each cut is where the next packet ends, these are the cuts. *)
LEMMA Chain ==
    ASSUME NEW proto, NEW b, NEW M, NEW K, NEW x, NEW e, Chained(proto, b, M, K, x, e)
    PROVE  Cuts(proto, b) = [ends |-> [i \in 1..M |-> e[i]], off |-> x]
<1>0. b \in Seq(Nat) /\ M \in Nat /\ K \in 0..M /\ e \in [0..M -> 0..Len(b)] /\ e[0] = 0
      /\ (\A k \in 1..K : e[k - 1] < e[k] /\ Ahead(proto, b, e[k - 1]) = e[k] - e[k - 1])
      /\ \/ M = K /\ x = FALSE /\ Ahead(proto, b, e[K]) = Incomplete
         \/ M = K + 1 /\ x = TRUE /\ e[M] = Len(b) /\ Ahead(proto, b, e[K]) = 0
  BY DEF Chained
<1>1. PICK f : Walks(proto, b, f, 0) /\ Cuts(proto, b) = f[0]
  BY <1>0, CutsAre
<1> DEFINE From(k) == [ends |-> [i \in 1..(M - k) |-> e[k + i]], off |-> x]
           I == {d \in Nat : d <= K => f[e[K - d]] = From(K - d)}
<1>2. \A o \in 0..Len(b) : f[o] = CutAt(proto, b, f, o)
  BY <1>1 DEF Walks
<1>3. K \in Nat /\ K \in 0..M /\ M \in Nat /\ Len(b) \in Nat /\ \A k \in 0..M : e[k] \in 0..Len(b)
  BY <1>0
<1>4. 0 \in I
  <2>1. f[e[K]] = CutAt(proto, b, f, e[K])
    BY <1>2, <1>3
  <2>2. CASE M = K /\ x = FALSE /\ Ahead(proto, b, e[K]) = Incomplete
    <3>1. f[e[K]] = [ends |-> <<>>, off |-> FALSE]
      BY <2>1, <2>2 DEF CutAt, Incomplete
    <3>2. [i \in 1..(M - K) |-> e[K + i]] = <<>>
      BY <1>3, <2>2
    <3>3. f[e[K]] = From(K) /\ K - 0 = K
      <4>1. x = FALSE /\ K - 0 = K
        BY <1>3, <2>2
      <4>2. f[e[K]] = From(K)
        BY <3>1, <3>2, <4>1
      <4> QED BY <4>1, <4>2
    <3> QED BY <3>3
  <2>3. CASE M = K + 1 /\ x = TRUE /\ e[M] = Len(b) /\ Ahead(proto, b, e[K]) = 0
    <3>1. f[e[K]] = [ends |-> <<Len(b)>>, off |-> TRUE]
      BY <2>1, <2>3 DEF CutAt, Incomplete
    <3>2. [i \in 1..(M - K) |-> e[K + i]] = <<Len(b)>>
      BY <1>3, <2>3
    <3>3. f[e[K]] = From(K) /\ K - 0 = K
      <4>1. x = TRUE /\ K - 0 = K
        BY <1>3, <2>3
      <4> QED BY <2>3, <3>1, <3>2, <4>1
    <3> QED BY <3>3
  <2> QED BY <1>0, <2>2, <2>3
<1>5. ASSUME NEW d \in I PROVE d + 1 \in I
  <2>0. d \in Nat
    OBVIOUS
  <2>1. ASSUME d + 1 <= K PROVE f[e[K - (d + 1)]] = From(K - (d + 1))
    <3>1. f[e[K - d]] = From(K - d)
      BY <1>3, <2>0, <2>1
    <3> HIDE DEF I
    <3> DEFINE k == K - d
    <3>2. k \in 1..K /\ K - (d + 1) = k - 1 /\ k - 1 \in 0..M /\ k \in 0..M
      BY <1>3, <2>0, <2>1
    <3>3. f[e[k]] = From(k)
      BY <3>1
    <3> HIDE DEF k
    <3>4. Ahead(proto, b, e[k - 1]) = e[k] - e[k - 1] /\ e[k - 1] < e[k]
      BY <1>0, <3>2
    <3>5. e[k] \in 0..Len(b) /\ e[k - 1] \in 0..Len(b)
      BY <1>3, <3>2
    <3>6. CutEnd(proto, b, e[k - 1]) = e[k] /\ Ahead(proto, b, e[k - 1]) \notin {Incomplete, 0}
      <4> DEFINE y == e[k]
                 z == e[k - 1]
      <4>1. y \in 0..Len(b) /\ z \in 0..Len(b) /\ Ahead(proto, b, z) = y - z /\ z < y
        BY <3>4, <3>5
      <4> HIDE DEF y, z
      <4>2. z + (y - z) = y /\ ~(y > Len(b)) /\ y - z \notin {-1, 0}
        BY <1>3, <4>1
      <4> QED BY <4>1, <4>2 DEF CutEnd, Incomplete, y, z
    <3>7. f[e[k - 1]] = Joined(e[k], f[e[k]])
      BY <1>2, <3>5, <3>6 DEF CutAt
    <3>8. <<e[k]>> \o [i \in 1..(M - k) |-> e[k + i]] = [i \in 1..(M - (k - 1)) |-> e[(k - 1) + i]]
      <4> DEFINE s == [i \in 1..(M - k) |-> e[k + i]]
                 t == <<e[k]>> \o s
      <4>1. M - k \in Nat /\ M - (k - 1) = M - k + 1 /\ \A i \in 1..(M - k) : k + i \in 0..M
        BY <1>3, <3>2
      <4>2. s \in Seq(Nat) /\ Len(s) = M - k
        <5>1. \A i \in 1..(M - k) : e[k + i] \in Nat
          BY <1>3, <4>1
        <5> QED BY <4>1, <5>1, IsASeq
      <4>3. <<e[k]>> \in Seq(Nat) /\ Len(<<e[k]>>) = 1 /\ <<e[k]>>[1] = e[k]
        BY <1>3, <3>5
      <4>4. /\ Len(t) = 1 + (M - k) /\ t \in Seq(Nat)
            /\ \A i \in 1..(1 + (M - k)) : t[i] = IF i <= 1 THEN <<e[k]>>[i] ELSE s[i - 1]
        <5> HIDE DEF s
        <5> QED BY <4>2, <4>3, ConcatProperties
      <4>5. ASSUME NEW i \in 1..(M - k + 1) PROVE t[i] = e[(k - 1) + i]
        <5>1. CASE i = 1
          BY <1>3, <3>2, <4>1, <4>3, <4>4, <5>1
        <5>2. CASE i # 1
          <6>1. i - 1 \in 1..(M - k) /\ k + (i - 1) = (k - 1) + i
            BY <1>3, <3>2, <4>1, <5>2
          <6>2. s[i - 1] = e[k + (i - 1)]
            BY <6>1
          <6> HIDE DEF t, s
          <6> QED BY <4>1, <4>4, <5>2, <6>1, <6>2
        <5> QED BY <5>1, <5>2
      <4>6. t = [i \in 1..(M - k + 1) |-> t[i]]
        <5> HIDE DEF t
        <5>1. 1 + (M - k) = M - k + 1
          BY <4>1
        <5> QED BY <4>4, <5>1, LenProperties
      <4> HIDE DEF t
      <4>7. t = [i \in 1..(M - k + 1) |-> e[(k - 1) + i]]
        BY <4>5, <4>6
      <4> QED BY <4>1, <4>7 DEF t
    <3>9. f[e[k - 1]] = From(k - 1)
      <4>1. f[e[k - 1]] = Joined(e[k], From(k))
        BY <3>3, <3>7
      <4>2. Joined(e[k], From(k)) = [ends |-> <<e[k]>> \o [i \in 1..(M - k) |-> e[k + i]], off |-> x]
        BY DEF Joined
      <4> QED BY <3>8, <4>1, <4>2
    <3> HIDE DEF From
    <3> QED BY <3>2, <3>9
  <2> HIDE DEF From
  <2> QED BY <2>0, <2>1
<1>6. K \in I
  <2> HIDE DEF I
  <2>1. I \in SUBSET Nat
    BY DEF I
  <2> QED BY <1>3, <1>4, <1>5, <2>1, Induction
<1>7. f[e[0]] = From(0) /\ e[0] = 0
  <2>1. K <= K /\ K - K = 0
    BY <1>3
  <2> QED BY <1>0, <1>6, <2>1
<1>8. [i \in 1..(M - 0) |-> e[0 + i]] = [i \in 1..M |-> e[i]]
  BY <1>3
<1> QED BY <1>1, <1>7, <1>8

(* The length of a packet is in its first bytes: it does not depend on what follows. *)
LEMMA SameHeader ==
    ASSUME NEW proto, NEW w \in Seq(Nat), NEW p \in Seq(Nat), w # <<>>, p # <<>>,
           \A i \in 1..Len(p) : i <= Len(w) => w[i] = p[i], Len(p) >= HeaderLen(proto, p)
    PROVE  /\ HeaderLen(proto, w) = HeaderLen(proto, p)
           /\ Len(w) >= HeaderLen(proto, p) => PayloadLen(proto, w) = PayloadLen(proto, p)
<1>0. Len(w) \in Nat \ {0} /\ Len(p) \in Nat \ {0}
  BY LenProperties, EmptySeq
<1>1. w[1] = p[1]
  BY <1>0
<1>2. HeaderLen(proto, w) = HeaderLen(proto, p)
  BY <1>1 DEF HeaderLen, Long
<1>3. ASSUME Len(w) >= HeaderLen(proto, p) PROVE PayloadLen(proto, w) = PayloadLen(proto, p)
  <2>1. CASE HeaderLen(proto, p) = 4
    <3>1. Len(w) >= 4 /\ Len(p) >= 4
      BY <1>3, <2>1
    <3>2. 2 \in 1..Len(p) /\ 3 \in 1..Len(p) /\ 4 \in 1..Len(p) /\ 2 <= Len(w) /\ 3 <= Len(w)
      BY <1>0, <3>1
    <3>3. w[2] = p[2] /\ w[3] = p[3] /\ w[4] = p[4]
      BY <3>1, <3>2
    <3>4. Long(w) = Long(p)
      BY <1>1 DEF Long
    <3>5. PayloadLen(proto, w) = CASE proto = "intermediate" -> Little4(w[1], w[2], w[3], w[4] % 128)
                                   [] proto = "abridged" /\ Long(w) -> Little3(w[2], w[3], w[4])
                                   [] OTHER -> 4 * (w[1] % 128)
      BY SMT DEF PayloadLen, Little4, Little3
    <3>6. PayloadLen(proto, p) = CASE proto = "intermediate" -> Little4(p[1], p[2], p[3], p[4] % 128)
                                   [] proto = "abridged" /\ Long(p) -> Little3(p[2], p[3], p[4])
                                   [] OTHER -> 4 * (p[1] % 128)
      BY SMT DEF PayloadLen, Little4, Little3
    <3> QED BY <1>1, <3>3, <3>4, <3>5, <3>6
  <2>2. CASE HeaderLen(proto, p) # 4
    <3>1. proto = "abridged" /\ ~Long(p) /\ ~Long(w)
      BY <1>1, <2>2 DEF HeaderLen, Long
    <3>2. PayloadLen(proto, p) = 4 * (p[1] % 128) /\ PayloadLen(proto, w) = 4 * (w[1] % 128)
      BY <3>1, SMT DEF PayloadLen
    <3> QED BY <1>1, <3>2
  <2> QED BY <2>1, <2>2
<1> QED BY <1>2, <1>3

(* What stands at the beginning of a buffer that begins as a packet does. *)
LEMMA PacketAhead ==
    ASSUME NEW proto, NEW w \in Seq(Nat), NEW p \in Seq(Nat), w # <<>>, p # <<>>,
           \A i \in 1..Len(p) : i <= Len(w) => w[i] = p[i]
    PROVE  /\ NextPacketLen(proto, p) = Len(p) =>
                  NextPacketLen(proto, w) = IF Len(w) < Len(p) THEN Incomplete ELSE Len(p)
           /\ NextPacketLen(proto, p) = 0 => NextPacketLen(proto, w) \in {Incomplete, 0}
<1> DEFINE h == HeaderLen(proto, p)
           n == PayloadLen(proto, p)
<1>0. Len(w) \in Nat /\ Len(p) \in Nat
  BY LenProperties
<1>1. h \in {1, 4} /\ HeaderLen(proto, w) \in {1, 4}
  BY DEF HeaderLen
<1>2. CASE Len(p) < h
  <2>1. NextPacketLen(proto, p) = Incomplete
    BY <1>2 DEF NextPacketLen
  <2> QED BY <1>0, <2>1 DEF Incomplete
<1>3. CASE ~(Len(p) < h)
  <2>0. Len(p) >= h
    BY <1>0, <1>1, <1>3
  <2>1. n \in Nat
    BY <2>0, PayloadIsLong
  <2>2. HeaderLen(proto, w) = h /\ (Len(w) >= h => PayloadLen(proto, w) = n)
    BY <2>0, SameHeader
  <2>3. NextPacketLen(proto, p) = IF n = 0 THEN 0 ELSE IF Len(p) < h + n THEN Incomplete ELSE h + n
    BY <1>3, <2>1 DEF NextPacketLen
  <2>4. Len(w) < h => NextPacketLen(proto, w) = Incomplete
    BY <2>2 DEF NextPacketLen
  <2>5. ~(Len(w) < h) => NextPacketLen(proto, w) =
              IF n = 0 THEN 0 ELSE IF Len(w) < h + n THEN Incomplete ELSE h + n
    <3>1. ASSUME ~(Len(w) < h) PROVE PayloadLen(proto, w) = n
      BY <1>0, <1>1, <2>2, <3>1
    <3> HIDE DEF n, h
    <3> QED BY <2>1, <2>2, <3>1 DEF NextPacketLen
  <2> DEFINE a == NextPacketLen(proto, p)
             c == NextPacketLen(proto, w)
  <2> HIDE DEF n, h
  <2>6. a = IF n = 0 THEN 0 ELSE IF Len(p) < h + n THEN Incomplete ELSE h + n
    BY <2>3
  <2>7. c = IF Len(w) < h THEN Incomplete ELSE IF n = 0 THEN 0 ELSE IF Len(w) < h + n THEN Incomplete ELSE h + n
    BY <2>4, <2>5
  <2> HIDE DEF a, c
  <2>8. (a = Len(p) => c = IF Len(w) < Len(p) THEN Incomplete ELSE Len(p)) /\ (a = 0 => c \in {Incomplete, 0})
    BY <1>0, <1>1, <2>0, <2>1, <2>6, <2>7 DEF Incomplete
  <2> QED BY <2>8 DEF a, c
<1> QED BY <1>2, <1>3

(* Where the packets of a stream end. *)
EndOf(ps, k) == Len(FlattenSeq(SubSeq(ps, 1, k)))

(* One part is what it is made of. *)
LEMMA FlatOne == ASSUME NEW S, NEW p \in Seq(S) PROVE FlattenSeq(<<p>>) = p
<1> DEFINE g == [i \in 0..1 |-> IF i = 0 THEN <<>> ELSE p]
<1>1. <<p>> \in Seq(Seq(S)) /\ Len(<<p>>) = 1 /\ <<p>>[1] = p
  OBVIOUS
<1>2. g[0] = <<>> /\ g[1] = p /\ g \in [0..1 -> Seq(S)]
  BY EmptySeq
<1> HIDE DEF g
<1>3. Cat(<<>>, p) = p
  BY Cats
<1>4. Flattens(g, <<p>>, 1, S)
  BY <1>1, <1>2, <1>3 DEF Flattens, Adds
<1> QED BY <1>1, <1>2, <1>4, FlatIs

(* Where the packets lie in the stream. *)
LEMMA Laid ==
    ASSUME NEW ps \in Seq(Seq(Nat))
    PROVE  /\ FlattenSeq(ps) \in Seq(Nat) /\ EndOf(ps, 0) = 0 /\ EndOf(ps, Len(ps)) = Len(FlattenSeq(ps))
           /\ \A k \in 0..Len(ps) : EndOf(ps, k) \in 0..Len(FlattenSeq(ps))
           /\ \A k \in 1..Len(ps) : EndOf(ps, k) = EndOf(ps, k - 1) + Len(ps[k])
           /\ \A k \in 1..Len(ps) : \A i \in 1..Len(ps[k]) : FlattenSeq(ps)[EndOf(ps, k - 1) + i] = ps[k][i]
<1> DEFINE T == FlattenSeq(ps)
           N == Len(ps)
           UpTo(k) == SubSeq(ps, 1, k)
           Beyond(k) == SubSeq(ps, k + 1, N)
<1>0. N \in Nat /\ \A k \in 1..N : ps[k] \in Seq(Nat)
  BY LenProperties, ElementOfSeq
<1>1. T \in Seq(Nat)
  BY FlatCat
<1>2. EndOf(ps, 0) = 0
  <2>1. SubSeq(ps, 1, 0) = <<>>
    BY SubSeqEmpty
  <2>2. Len(<<>>) = 0
    OBVIOUS
  <2>3. FlattenSeq(<<>>) = <<>>
    BY <2>2 DEF FlattenSeq
  <2> QED BY <2>1, <2>2, <2>3 DEF EndOf
<1>3. EndOf(ps, N) = Len(T)
  BY SubSeqFull DEF EndOf
<1>4. \A k \in 0..N : UpTo(k) \in Seq(Seq(Nat)) /\ Beyond(k) \in Seq(Seq(Nat))
  OBVIOUS
<1>5. ASSUME NEW k \in 0..N PROVE T = Cat(FlattenSeq(UpTo(k)), FlattenSeq(Beyond(k)))
  <2>1. ps = UpTo(k) \o Beyond(k)
    <3>1. UpTo(k) \o Beyond(k) = SubSeq(ps, 1, N)
      <4>1. 1 \in 1..(Len(ps) + 1) /\ k \in (1 - 1)..Len(ps) /\ Len(ps) \in k..Len(ps)
        BY <1>0
      <4> QED BY <4>1, ConcatAdjacentSubSeq
    <3> QED BY <3>1, SubSeqFull
  <2> HIDE DEF UpTo, Beyond
  <2> QED BY <1>4, <2>1, FlatCat
<1>6. ASSUME NEW k \in 0..N PROVE EndOf(ps, k) \in 0..Len(T)
  <2> DEFINE a == FlattenSeq(UpTo(k))
             c == FlattenSeq(Beyond(k))
  <2>1. a \in Seq(Nat) /\ c \in Seq(Nat)
    BY <1>4, FlatCat
  <2>2. EndOf(ps, k) = Len(a)
    BY DEF EndOf
  <2>3. T = Cat(a, c)
    BY <1>5
  <2> HIDE DEF a, c, T
  <2>4. Len(T) = Len(a) + Len(c) /\ Len(a) \in Nat /\ Len(c) \in Nat
    BY <2>1, <2>3, ConcatProperties, LenProperties DEF Cat
  <2> QED BY <2>2, <2>4
<1>7. ASSUME NEW k \in 1..N
      PROVE  /\ EndOf(ps, k) = EndOf(ps, k - 1) + Len(ps[k])
             /\ \A i \in 1..Len(ps[k]) : T[EndOf(ps, k - 1) + i] = ps[k][i]
  <2> DEFINE a == FlattenSeq(UpTo(k - 1))
             c == FlattenSeq(Beyond(k))
             p == ps[k]
             f == FlattenSeq(UpTo(k))
  <2>0. k - 1 \in 0..N /\ k \in 0..N /\ p \in Seq(Nat)
    BY <1>0
  <2>1. a \in Seq(Nat) /\ c \in Seq(Nat) /\ f \in Seq(Nat)
    BY <1>4, <2>0, FlatCat
  <2>2. UpTo(k) = UpTo(k - 1) \o <<p>> /\ <<p>> \in Seq(Seq(Nat))
    BY <1>0, <2>0
  <2>3. EndOf(ps, k) = Len(f) /\ EndOf(ps, k - 1) = Len(a)
    BY DEF EndOf
  <2>4. T = Cat(f, c)
    BY <1>5, <2>0
  <2>5. f = Cat(a, p)
    <3>1. FlattenSeq(<<p>>) = p
      BY <2>0, FlatOne
    <3>2. UpTo(k - 1) \in Seq(Seq(Nat))
      BY <1>4, <2>0
    <3> HIDE DEF UpTo, p
    <3> QED BY <2>2, <3>1, <3>2, FlatCat
  <2> HIDE DEF a, c, T, p, f
  <2>6. /\ Len(f) = Len(a) + Len(p) /\ Len(a) \in Nat /\ Len(c) \in Nat /\ Len(p) \in Nat
        /\ Len(T) = Len(f) + Len(c)
    BY <2>0, <2>1, <2>4, <2>5, ConcatProperties, LenProperties DEF Cat
  <2>7. ASSUME NEW i \in 1..Len(p) PROVE T[Len(a) + i] = p[i]
    <3>1. f[Len(a) + i] = p[i]
      <4>1. Len(a) + i \in 1..(Len(a) + Len(p)) /\ ~(Len(a) + i <= Len(a)) /\ Len(a) + i - Len(a) = i
        BY <2>6
      <4> QED BY <2>0, <2>1, <2>5, <4>1, ConcatProperties DEF Cat
    <3>2. T[Len(a) + i] = f[Len(a) + i]
      <4>1. Len(a) + i \in 1..(Len(f) + Len(c)) /\ Len(a) + i <= Len(f)
        BY <2>6
      <4> QED BY <2>1, <2>4, <4>1, ConcatProperties DEF Cat
    <3> QED BY <3>1, <3>2
  <2> QED BY <2>3, <2>6, <2>7 DEF p
<1> HIDE DEF T, N
<1>8. /\ T \in Seq(Nat) /\ EndOf(ps, 0) = 0 /\ EndOf(ps, N) = Len(T)
      /\ (\A k \in 0..N : EndOf(ps, k) \in 0..Len(T))
      /\ \A k \in 1..N : EndOf(ps, k) = EndOf(ps, k - 1) + Len(ps[k])
  BY <1>1, <1>2, <1>3, <1>6, <1>7
<1>9. \A k \in 1..N : \A i \in 1..Len(ps[k]) : T[EndOf(ps, k - 1) + i] = ps[k][i]
  BY <1>7
<1> QED BY <1>8, <1>9 DEF T, N

(* Later packets end later. *)
LEMMA EndsGrow ==
    ASSUME NEW ps \in Seq(Seq(Nat)), \A k \in 1..Len(ps) : ps[k] # <<>>
    PROVE  \A k \in 0..Len(ps) : \A j \in 0..Len(ps) : j < k => EndOf(ps, j) < EndOf(ps, k)
<1> DEFINE N == Len(ps)
           I == {k \in Nat : k <= N => \A j \in 0..N : j < k => EndOf(ps, j) < EndOf(ps, k)}
<1>0. N \in Nat /\ \A k \in 1..N : ps[k] \in Seq(Nat)
  BY LenProperties, ElementOfSeq
<1>1. \A k \in 1..N : Len(ps[k]) \in Nat /\ Len(ps[k]) > 0
  <2>1. ASSUME NEW k \in 1..N PROVE Len(ps[k]) \in Nat /\ Len(ps[k]) > 0
    BY <1>0, LenProperties, EmptySeq
  <2> QED BY <2>1
<1>2. \A k \in 0..N : EndOf(ps, k) \in Nat
  <2>1. Len(FlattenSeq(ps)) \in Nat
    BY Laid, LenProperties
  <2> QED BY <2>1, Laid
<1>3. \A k \in 1..N : EndOf(ps, k) = EndOf(ps, k - 1) + Len(ps[k])
  BY Laid
<1> HIDE DEF N
<1>4. 0 \in I
  BY <1>0
<1>5. ASSUME NEW k \in I PROVE k + 1 \in I
  <2>0. k \in Nat
    OBVIOUS
  <2>1. ASSUME k + 1 <= N, NEW j \in 0..N, j < k + 1 PROVE EndOf(ps, j) < EndOf(ps, k + 1)
    <3>1. k + 1 \in 1..N /\ (k + 1) - 1 = k /\ k \in 0..N /\ k + 1 \in 0..N /\ k <= N
      BY <1>0, <2>0, <2>1
    <3>2. EndOf(ps, k + 1) = EndOf(ps, k) + Len(ps[k + 1])
      BY <1>3, <3>1
    <3>3. EndOf(ps, k) < EndOf(ps, k + 1)
      BY <1>1, <1>2, <3>1, <3>2
    <3>4. CASE j = k
      BY <3>3, <3>4
    <3>5. CASE j < k
      <4>1. EndOf(ps, j) < EndOf(ps, k)
        BY <3>1, <3>5
      <4>2. EndOf(ps, j) \in Nat /\ EndOf(ps, k) \in Nat /\ EndOf(ps, k + 1) \in Nat
        BY <1>2, <3>1
      <4> HIDE DEF I
      <4> QED BY <3>3, <4>1, <4>2
    <3> QED BY <1>0, <2>0, <2>1, <3>4, <3>5
  <2> QED BY <2>0, <2>1
<1>6. \A k \in Nat : k \in I
  <2> HIDE DEF I
  <2>1. I \in SUBSET Nat
    BY DEF I
  <2> QED BY <1>4, <1>5, <2>1, Induction
<1> QED BY <1>0, <1>6 DEF N

(* What lies ahead in a buffer that begins with a packet. *)
Buffered(ps, j, r) == SubSeq(FlattenSeq(ps), EndOf(ps, j) + 1, r)
Packed(ps) == ps \in Seq(Seq(Nat)) /\ \A k \in 1..Len(ps) : ps[k] # <<>>

(* What waits in the buffer is a part of the stream. *)
LEMMA Buffers ==
    ASSUME NEW ps, Packed(ps), NEW j \in 0..Len(ps), NEW r \in EndOf(ps, j)..Len(FlattenSeq(ps))
    PROVE  /\ Buffered(ps, j, r) \in Seq(Nat) /\ Len(Buffered(ps, j, r)) = r - EndOf(ps, j)
           /\ \A i \in 1..(r - EndOf(ps, j)) : Buffered(ps, j, r)[i] = FlattenSeq(ps)[EndOf(ps, j) + i]
           /\ EndOf(ps, j) \in Nat /\ r \in Nat /\ Len(FlattenSeq(ps)) \in Nat /\ FlattenSeq(ps) \in Seq(Nat)
<1> DEFINE T == FlattenSeq(ps)
           a == EndOf(ps, j)
<1>1. T \in Seq(Nat) /\ a \in 0..Len(T) /\ Len(T) \in Nat
  BY Laid, LenProperties DEF Packed
<1> HIDE DEF T, a
<1>2. a \in Nat /\ r \in a..Len(T) /\ r \in Nat
  BY <1>1 DEF T, a
<1>3. \A i \in (a + 1)..r : T[i] \in Nat
  BY <1>1, <1>2, ElementOfSeq
<1>4. a + 1 \in Int /\ r \in Int
  BY <1>2
<1>5. /\ SubSeq(T, a + 1, r) \in Seq(Nat)
      /\ Len(SubSeq(T, a + 1, r)) = IF a + 1 <= r THEN r - (a + 1) + 1 ELSE 0
      /\ \A i \in 1..(r - (a + 1) + 1) : SubSeq(T, a + 1, r)[i] = T[(a + 1) + i - 1]
  BY <1>3, <1>4, SubSeqProperties
<1>6. Len(SubSeq(T, a + 1, r)) = r - a
  BY <1>2, <1>5
<1>7. ASSUME NEW i \in 1..(r - a) PROVE SubSeq(T, a + 1, r)[i] = T[a + i]
  <2>1. r - (a + 1) + 1 = r - a /\ (a + 1) + i - 1 = a + i
    BY <1>2
  <2> QED BY <1>5, <2>1
<1> QED BY <1>1, <1>2, <1>5, <1>6, <1>7 DEF Buffered, T, a

(* What the splitter sees at the beginning of a packet of the stream. *)
LEMMA AheadOfPacket ==
    ASSUME NEW proto, NEW ps, Packed(ps), NEW j \in 0..Len(ps), NEW k \in (j + 1)..Len(ps),
           NEW r \in EndOf(ps, k - 1)..Len(FlattenSeq(ps)),
           NextPacketLen(proto, ps[k]) \in {0, Len(ps[k])}
    PROVE  LET a == Ahead(proto, Buffered(ps, j, r), EndOf(ps, k - 1) - EndOf(ps, j))
           IN /\ NextPacketLen(proto, ps[k]) = Len(ps[k]) =>
                     a = IF r < EndOf(ps, k) THEN Incomplete ELSE EndOf(ps, k) - EndOf(ps, k - 1)
              /\ NextPacketLen(proto, ps[k]) = 0 => a \in {Incomplete, 0}
<1> DEFINE b == Buffered(ps, j, r)
           T == FlattenSeq(ps)
           ej == EndOf(ps, j)
           ec == EndOf(ps, k - 1)
           ek == EndOf(ps, k)
           p == ps[k]
           o == ec - ej
           w == SubSeq(b, o + 1, Len(b))
<1>0. /\ ps \in Seq(Seq(Nat)) /\ Len(ps) \in Nat /\ j \in Nat /\ k \in 1..Len(ps) /\ k - 1 \in 0..Len(ps) /\ k \in 0..Len(ps)
      /\ p \in Seq(Nat) /\ p # <<>> /\ j <= k - 1
  <2>1. ps \in Seq(Seq(Nat)) /\ Len(ps) \in Nat
    BY LenProperties DEF Packed
  <2>2. j \in Nat /\ k \in 1..Len(ps) /\ k - 1 \in 0..Len(ps) /\ k \in 0..Len(ps) /\ j <= k - 1
    BY <2>1
  <2>3. p \in Seq(Nat) /\ p # <<>>
    BY <2>1, <2>2, ElementOfSeq DEF Packed
  <2> QED BY <2>1, <2>2, <2>3
<1>1. ej \in Nat /\ ec \in Nat /\ ek \in Nat /\ Len(T) \in Nat /\ ej <= ec /\ ek <= Len(T) /\ ec <= Len(T)
  <2>1. Len(T) \in Nat
    BY <1>0, Laid, LenProperties
  <2>2. ej \in 0..Len(T) /\ ec \in 0..Len(T) /\ ek \in 0..Len(T)
    BY <1>0, Laid
  <2>3. j < k - 1 => ej < ec
    BY <1>0, EndsGrow DEF Packed
  <2>4. j = k - 1 => ej = ec
    OBVIOUS
  <2> HIDE DEF ej, ec, ek, T
  <2> QED BY <1>0, <2>1, <2>2, <2>3, <2>4
<1>2. ek = ec + Len(p) /\ \A i \in 1..Len(p) : T[ec + i] = p[i]
  BY <1>0, Laid
<1>3. r \in Nat /\ ec <= r /\ r <= Len(T) /\ ej <= r
  <2>1. r \in ec..Len(T)
    OBVIOUS
  <2> HIDE DEF ej, ec, ek, T
  <2> QED BY <1>1, <2>1
<1>4. b \in Seq(Nat) /\ Len(b) = r - ej /\ \A i \in 1..(r - ej) : b[i] = T[ej + i]
  <2>1. r \in ej..Len(T)
    <3> HIDE DEF ej, T
    <3> QED BY <1>1, <1>3
  <2> HIDE DEF T, b
  <2> QED BY <2>1, Buffers DEF T, b
<1> HIDE DEF b, T, ej, ec, ek, p
<1>5. CASE r = ec
  <2>1. o = Len(b)
    BY <1>1, <1>3, <1>4, <1>5
  <2>2. Ahead(proto, b, o) = Incomplete
    BY <2>1 DEF Ahead
  <2>3. Len(p) > 0 /\ Len(p) \in Nat
    BY <1>0, LenProperties, EmptySeq
  <2>4. r < ek
    BY <1>1, <1>2, <1>5, <2>3
  <2> QED BY <2>2, <2>4 DEF b, T, ej, ec, ek, p
<1>6. CASE r # ec
  <2>0. o \in Nat /\ o < Len(b) /\ Len(b) \in Nat
    BY <1>1, <1>3, <1>4, <1>6, SMTT(60)
  <2>1. /\ w \in Seq(Nat) /\ Len(w) = Len(b) - o
        /\ \A i \in 1..(Len(b) - o) : w[i] = b[o + i]
    <3>1. \A i \in (o + 1)..Len(b) : b[i] \in Nat
      BY <1>4, <2>0, ElementOfSeq
    <3>2. o + 1 \in Int /\ Len(b) \in Int /\ o + 1 <= Len(b)
      BY <2>0
    <3> HIDE DEF o
    <3>3. /\ SubSeq(b, o + 1, Len(b)) \in Seq(Nat)
          /\ Len(SubSeq(b, o + 1, Len(b))) = IF o + 1 <= Len(b) THEN Len(b) - (o + 1) + 1 ELSE 0
          /\ \A i \in 1..(Len(b) - (o + 1) + 1) : SubSeq(b, o + 1, Len(b))[i] = b[(o + 1) + i - 1]
      BY <3>1, <3>2, SubSeqProperties, SMTT(60)
    <3>4. Len(w) = Len(b) - o
      BY <2>0, <3>2, <3>3
    <3>5. ASSUME NEW i \in 1..(Len(b) - o) PROVE w[i] = b[o + i]
      <4>1. Len(b) - (o + 1) + 1 = Len(b) - o /\ (o + 1) + i - 1 = o + i
        BY <2>0
      <4> QED BY <3>3, <4>1
    <3> QED BY <3>3, <3>4, <3>5
  <2>2. w # <<>> /\ Len(w) = r - ec
    <3> HIDE DEF w
    <3>1. Len(w) = r - ec
      BY <1>1, <1>3, <1>4, <2>1
    <3>2. Len(<<>>) = 0 /\ r - ec # 0
      BY <1>1, <1>3, <1>6
    <3> QED BY <3>1, <3>2
  <2>3. ASSUME NEW i \in 1..Len(p), i <= Len(w) PROVE w[i] = p[i]
    <3> HIDE DEF w
    <3>1. Len(p) \in Nat
      BY <1>0, LenProperties
    <3>2. i \in Nat /\ i >= 1 /\ i <= r - ec /\ i \in 1..(Len(b) - o) /\ o + i \in 1..(r - ej) /\ ej + (o + i) = ec + i
      BY <1>1, <1>3, <1>4, <2>0, <2>2, <2>3, <3>1
    <3>3. w[i] = b[o + i]
      BY <2>1, <3>2
    <3>4. b[o + i] = T[ej + (o + i)]
      BY <1>4, <3>2
    <3>5. ej + (o + i) = ec + i
      BY <3>2
    <3> QED BY <1>2, <3>3, <3>4, <3>5
  <2>4. Ahead(proto, b, o) = NextPacketLen(proto, w)
    BY <2>0 DEF Ahead
  <2>5. /\ NextPacketLen(proto, p) = Len(p) => NextPacketLen(proto, w) = IF Len(w) < Len(p) THEN Incomplete ELSE Len(p)
        /\ NextPacketLen(proto, p) = 0 => NextPacketLen(proto, w) \in {Incomplete, 0}
    <3> HIDE DEF w
    <3> QED BY <1>0, <2>1, <2>2, <2>3, PacketAhead
  <2>6. (Len(w) < Len(p) <=> r < ek) /\ Len(p) = ek - ec
    <3> HIDE DEF w
    <3>1. Len(p) \in Nat
      BY <1>0, LenProperties
    <3> QED BY <1>1, <1>2, <1>3, <2>2, <3>1, SMTT(60)
  <2> HIDE DEF w
  <2> QED BY <2>4, <2>5, <2>6 DEF b, T, ej, ec, ek, p
<1> QED BY <1>5, <1>6

(* The packets that are there as a whole when r bytes are. *)
Reach(proto, ps, r, m) ==
    /\ m \in 0..Len(ps) /\ EndOf(ps, m) <= r
    /\ \A k \in 1..m : NextPacketLen(proto, ps[k]) = Len(ps[k])
    /\ m < Len(ps) => NextPacketLen(proto, ps[m + 1]) = 0 \/ r < EndOf(ps, m + 1)
(* A client's stream: packets, and at last maybe something else. *)
Client(proto, ps) ==
    /\ Packed(ps) /\ \A k \in 1..Len(ps) : NextPacketLen(proto, ps[k]) \in {0, Len(ps[k])}
    /\ \A k \in 1..(Len(ps) - 1) : NextPacketLen(proto, ps[k]) = Len(ps[k])

(* There is a last packet that has arrived as a whole. *)
LEMMA ReachIs ==
    ASSUME NEW proto, NEW ps, Client(proto, ps), NEW j \in 0..Len(ps), NEW r \in EndOf(ps, j)..Len(FlattenSeq(ps)),
           \A k \in 1..j : NextPacketLen(proto, ps[k]) = Len(ps[k])
    PROVE  \E m \in j..Len(ps) : Reach(proto, ps, r, m)
<1> DEFINE N == Len(ps)
           Whole(k) == NextPacketLen(proto, ps[k]) = Len(ps[k])
           Found == \E m \in j..N : Reach(proto, ps, r, m)
           AllTo(k) == EndOf(ps, k) <= r /\ \A i \in 1..k : Whole(i)
           I == {d \in Nat : j + d <= N => Found \/ AllTo(j + d)}
<1>0. N \in Nat /\ j \in Nat /\ j <= N
  BY LenProperties DEF Client, Packed
<1>1. \A k \in 0..N : EndOf(ps, k) \in Nat
  <2>1. Len(FlattenSeq(ps)) \in Nat
    BY Laid, LenProperties DEF Client, Packed
  <2> QED BY <2>1, Laid DEF Client, Packed
<1>2. r \in Nat /\ EndOf(ps, j) <= r
  <2>1. Len(FlattenSeq(ps)) \in Nat
    BY Laid, LenProperties DEF Client, Packed
  <2> QED BY <1>0, <1>1, <2>1
<1>3. \A k \in 1..N : NextPacketLen(proto, ps[k]) = 0 \/ Whole(k)
  BY DEF Client
<1> HIDE DEF N
<1>4. 0 \in I
  <2>1. j + 0 = j
    BY <1>0
  <2> QED BY <1>2, <2>1
<1>5. ASSUME NEW d \in I PROVE d + 1 \in I
  <2>0. d \in Nat
    OBVIOUS
  <2>1. ASSUME j + (d + 1) <= N, ~Found PROVE AllTo(j + (d + 1))
    <3> DEFINE m == j + d
    <3>0. m \in j..N /\ m \in 0..N /\ m < N /\ j + (d + 1) = m + 1 /\ m + 1 \in 1..N /\ m + 1 \in 0..N /\ m <= N
      BY <1>0, <2>0, <2>1
    <3>1. EndOf(ps, m) <= r /\ \A k \in 1..m : Whole(k)
      BY <2>1, <3>0
    <3> HIDE DEF m, I
    <3>2. ~Reach(proto, ps, r, m)
      BY <2>1, <3>0
    <3>3. NextPacketLen(proto, ps[m + 1]) # 0 /\ ~(r < EndOf(ps, m + 1))
      BY <3>0, <3>1, <3>2 DEF Reach, N
    <3>4. Whole(m + 1)
      BY <1>3, <3>0, <3>3
    <3>5. EndOf(ps, m + 1) <= r
      BY <1>1, <1>2, <3>0, <3>3
    <3>6. \A k \in 1..(m + 1) : k \in 1..m \/ k = m + 1
      BY <3>0
    <3> HIDE DEF Whole
    <3> QED BY <3>0, <3>1, <3>4, <3>5, <3>6
  <2> HIDE DEF Found, AllTo
  <2> QED BY <2>0, <2>1
<1>6. \A d \in Nat : d \in I
  <2> HIDE DEF I
  <2>1. I \in SUBSET Nat
    BY DEF I
  <2> QED BY <1>4, <1>5, <2>1, Induction
<1>7. Found \/ AllTo(N)
  <2>1. N - j \in Nat /\ j + (N - j) = N /\ N <= N
    BY <1>0
  <2>2. N - j \in I
    BY <1>6, <2>1
  <2> HIDE DEF Found, AllTo
  <2> QED BY <2>1, <2>2
<1>8. CASE EndOf(ps, N) <= r /\ \A k \in 1..N : Whole(k)
  <2>1. Reach(proto, ps, r, N)
    BY <1>0, <1>8 DEF Reach, N
  <2> QED BY <1>0, <2>1 DEF N
<1> QED BY <1>7, <1>8 DEF N

(* The cuts of the buffer are the ends of the packets that have arrived, and its own when no packet follows. *)
LEMMA WalkStops ==
    ASSUME NEW proto, NEW ps, Client(proto, ps), NEW j \in 0..Len(ps), NEW r \in EndOf(ps, j)..Len(FlattenSeq(ps)),
           NEW m \in j..Len(ps), Reach(proto, ps, r, m)
    PROVE  \/ Cuts(proto, Buffered(ps, j, r)) = [ends |-> [i \in 1..(m - j) |-> EndOf(ps, j + i) - EndOf(ps, j)], off |-> FALSE]
           \/ /\ m = Len(ps) - 1 /\ NextPacketLen(proto, ps[m + 1]) = 0 /\ EndOf(ps, m) < r
              /\ Cuts(proto, Buffered(ps, j, r)) =
                    [ends |-> [i \in 1..(m - j + 1) |-> IF i <= m - j THEN EndOf(ps, j + i) - EndOf(ps, j)
                                                                    ELSE r - EndOf(ps, j)], off |-> TRUE]
<1> DEFINE N == Len(ps)
           T == FlattenSeq(ps)
           b == Buffered(ps, j, r)
           E(k) == EndOf(ps, k)
           K == m - j
           e == [i \in 0..K |-> E(j + i) - E(j)]
           g == [i \in 0..(K + 1) |-> IF i <= K THEN E(j + i) - E(j) ELSE r - E(j)]
<1>0. N \in Nat /\ j \in Nat /\ m \in 0..N /\ j <= m /\ K \in Nat /\ \A i \in 0..K : j + i \in 0..N
  BY LenProperties DEF Client, Packed
<1>1. /\ \A k \in 0..N : E(k) \in Nat /\ E(k) <= Len(T)
      /\ Len(T) \in Nat
  <2>1. ps \in Seq(Seq(Nat))
    BY DEF Client, Packed
  <2>2. FlattenSeq(ps) \in Seq(Nat) /\ \A k \in 0..Len(ps) : EndOf(ps, k) \in 0..Len(FlattenSeq(ps))
    BY <2>1, Laid
  <2>3. Len(FlattenSeq(ps)) \in Nat
    BY <2>2, LenProperties
  <2> QED BY <2>2, <2>3
<1>2. \A k \in 0..N : \A i \in 0..N : i < k => E(i) < E(k)
  BY EndsGrow DEF Client, Packed
<1>3. b \in Seq(Nat) /\ Len(b) = r - E(j) /\ r \in Nat /\ E(j) <= r /\ r <= Len(T)
  <2>1. b \in Seq(Nat) /\ Len(b) = r - E(j)
    BY Buffers DEF Client
  <2> QED BY <1>0, <1>1, <2>1
<1>4. E(m) <= r /\ (\A k \in 1..m : NextPacketLen(proto, ps[k]) = Len(ps[k]))
      /\ (m < N => NextPacketLen(proto, ps[m + 1]) = 0 \/ r < E(m + 1))
  BY DEF Reach
<1>5. \A k \in 0..N : k <= m => E(k) <= r
  <2>1. ASSUME NEW k \in 0..N, k <= m PROVE E(k) <= r
    <3>1. k = m \/ E(k) < E(m)
      BY <1>0, <1>2, <2>1
    <3> QED BY <1>0, <1>1, <1>3, <1>4, <3>1
  <2> QED BY <2>1
<1>6. ASSUME NEW i \in 1..K PROVE Ahead(proto, b, E(j + (i - 1)) - E(j)) = E(j + i) - E(j + (i - 1)) /\ E(j + (i - 1)) < E(j + i)
  <2> DEFINE k == j + i
  <2>1. k \in (j + 1)..N /\ k \in 1..m /\ k - 1 = j + (i - 1) /\ k - 1 \in 0..N /\ k \in 0..N /\ k - 1 <= m /\ k - 1 < k /\ k <= m
    BY <1>0
  <2> HIDE DEF k
  <2>2. NextPacketLen(proto, ps[k]) = Len(ps[k])
    BY <1>4, <2>1
  <2>3. r \in E(k - 1)..Len(T) /\ ~(r < E(k))
    BY <1>1, <1>3, <1>5, <2>1
  <2>4. Ahead(proto, b, E(k - 1) - E(j)) = E(k) - E(k - 1)
    BY <2>1, <2>2, <2>3, AheadOfPacket DEF Client
  <2>5. E(k - 1) < E(k)
    BY <1>2, <2>1
  <2> QED BY <2>1, <2>4, <2>5 DEF k
<1>7. Ahead(proto, b, E(m) - E(j)) = Incomplete \/ (Ahead(proto, b, E(m) - E(j)) = 0 /\ m = N - 1 /\ NextPacketLen(proto, ps[m + 1]) = 0)
  <2>1. CASE m = N
    <3>1. E(m) = Len(T)
      BY <2>1, Laid DEF Client, Packed
    <3>2. E(m) - E(j) = Len(b)
      BY <1>0, <1>1, <1>3, <1>4, <3>1
    <3> QED BY <3>2 DEF Ahead
  <2>2. CASE m < N
    <3>0. m + 1 \in (j + 1)..N /\ (m + 1) - 1 = m /\ m + 1 \in 1..N
      BY <1>0, <2>2
    <3>1. r \in E(m)..Len(T)
      BY <1>0, <1>1, <1>3, <1>4
    <3>2. NextPacketLen(proto, ps[m + 1]) \in {0, Len(ps[m + 1])}
      BY <3>0 DEF Client
    <3>3. /\ NextPacketLen(proto, ps[m + 1]) = Len(ps[m + 1]) =>
                 Ahead(proto, b, E(m) - E(j)) = IF r < E(m + 1) THEN Incomplete ELSE E(m + 1) - E(m)
          /\ NextPacketLen(proto, ps[m + 1]) = 0 => Ahead(proto, b, E(m) - E(j)) \in {Incomplete, 0}
      <4> DEFINE k == m + 1
      <4>1. k \in (j + 1)..N /\ r \in E(k - 1)..Len(T) /\ NextPacketLen(proto, ps[k]) \in {0, Len(ps[k])}
        BY <3>0, <3>1, <3>2
      <4>2. k - 1 = m
        BY <3>0
      <4> HIDE DEF k
      <4>3. /\ NextPacketLen(proto, ps[k]) = Len(ps[k]) =>
                  Ahead(proto, b, E(k - 1) - E(j)) = IF r < E(k) THEN Incomplete ELSE E(k) - E(k - 1)
            /\ NextPacketLen(proto, ps[k]) = 0 => Ahead(proto, b, E(k - 1) - E(j)) \in {Incomplete, 0}
        BY <4>1, AheadOfPacket DEF Client
      <4>4. /\ NextPacketLen(proto, ps[k]) = Len(ps[k]) =>
                  Ahead(proto, b, E(m) - E(j)) = IF r < E(k) THEN Incomplete ELSE E(k) - E(m)
            /\ NextPacketLen(proto, ps[k]) = 0 => Ahead(proto, b, E(m) - E(j)) \in {Incomplete, 0}
        BY <4>2, <4>3
      <4> QED BY <4>4 DEF k
    <3>4. CASE NextPacketLen(proto, ps[m + 1]) = 0
      <4>1. m = N - 1
        <5>1. m + 1 \in 1..(N - 1) => Len(ps[m + 1]) = 0
          BY <3>4 DEF Client
        <5>2. ps[m + 1] \in Seq(Nat) /\ ps[m + 1] # <<>>
          BY <3>0, ElementOfSeq DEF Client, Packed
        <5>3. Len(ps[m + 1]) # 0
          BY <5>2, EmptySeq
        <5> QED BY <1>0, <2>2, <5>1, <5>3
      <4> QED BY <3>3, <3>4, <4>1
    <3>5. CASE NextPacketLen(proto, ps[m + 1]) # 0
      BY <1>4, <2>2, <3>2, <3>3, <3>5
    <3> QED BY <3>4, <3>5
  <2> QED BY <1>0, <2>1, <2>2
<1> HIDE DEF E, b
<1>8. \A i \in 0..K : E(j + i) - E(j) \in 0..Len(b)
  <2>1. ASSUME NEW i \in 0..K PROVE E(j + i) - E(j) \in 0..Len(b)
    <3>1. j + i \in 0..N /\ j + i <= m /\ j \in 0..N /\ (i = 0 \/ j < j + i) /\ j + 0 = j
      BY <1>0
    <3>2. E(j + i) <= r /\ E(j) <= E(j + i) /\ E(j) \in Nat /\ E(j + i) \in Nat
      <4>1. E(j) \in Nat /\ E(j + i) \in Nat /\ E(j + i) <= r
        BY <1>1, <1>5, <3>1
      <4>2. i = 0 \/ E(j) < E(j + i)
        BY <1>2, <3>1
      <4>3. i = 0 => E(j + i) = E(j)
        BY <3>1
      <4> QED BY <4>1, <4>2, <4>3
    <3> QED BY <1>3, <3>2
  <2> QED BY <2>1
<1>9. CASE Ahead(proto, b, E(m) - E(j)) = Incomplete
  <2>1. e \in [0..K -> 0..Len(b)]
    BY <1>8
  <2>2. e[0] = 0 /\ e[K] = E(m) - E(j)
    <3>1. j + 0 = j /\ j + K = m /\ 0 \in 0..K /\ K \in 0..K /\ E(j) \in Nat /\ E(j) - E(j) = 0
      BY <1>0, <1>1
    <3> QED BY <3>1
  <2>3. ASSUME NEW k \in 1..K PROVE e[k - 1] < e[k] /\ Ahead(proto, b, e[k - 1]) = e[k] - e[k - 1]
    <3>1. k - 1 \in 0..K /\ k \in 0..K /\ j + k \in 0..N /\ j + (k - 1) \in 0..N
      BY <1>0
    <3>2. e[k - 1] = E(j + (k - 1)) - E(j) /\ e[k] = E(j + k) - E(j)
      BY <3>1
    <3>3. E(j) \in Nat /\ E(j + k) \in Nat /\ E(j + (k - 1)) \in Nat
      BY <1>1, <3>1
    <3>4. (E(j + k) - E(j)) - (E(j + (k - 1)) - E(j)) = E(j + k) - E(j + (k - 1))
      BY <3>3
    <3>5. E(j + (k - 1)) < E(j + k) => E(j + (k - 1)) - E(j) < E(j + k) - E(j)
      BY <3>3
    <3> HIDE DEF e
    <3> QED BY <1>6, <3>2, <3>4, <3>5
  <2> HIDE DEF e, K
  <2>4. Cuts(proto, b) = [ends |-> [i \in 1..K |-> e[i]], off |-> FALSE]
    <3> DEFINE x == FALSE
    <3>1. x \in BOOLEAN /\ x = FALSE /\ K \in 0..K /\ Ahead(proto, b, e[K]) = Incomplete /\ e[0] = 0
      BY <1>0, <1>9, <2>2
    <3>2. \A k \in 1..K : e[k - 1] < e[k] /\ Ahead(proto, b, e[k - 1]) = e[k] - e[k - 1]
      BY <2>3
    <3> HIDE DEF x
    <3>3. Chained(proto, b, K, K, x, e)
      BY <1>0, <1>3, <2>1, <3>1, <3>2 DEF Chained
    <3>4. Cuts(proto, b) = [ends |-> [i \in 1..K |-> e[i]], off |-> x]
      BY <3>3, Chain
    <3> QED BY <3>4 DEF x
  <2>5. [i \in 1..K |-> e[i]] = [i \in 1..K |-> E(j + i) - E(j)]
    BY <1>0 DEF e
  <2> QED BY <2>4, <2>5 DEF K, E, b
<1>10. CASE Ahead(proto, b, E(m) - E(j)) = 0 /\ m = N - 1 /\ NextPacketLen(proto, ps[m + 1]) = 0
  <2>0. E(m) < r
    <3>1. E(m) - E(j) # Len(b)
      BY <1>10 DEF Ahead, Incomplete
    <3> QED BY <1>0, <1>1, <1>3, <1>4, <3>1
  <2>1. g \in [0..(K + 1) -> 0..Len(b)]
    <3>1. r - E(j) \in 0..Len(b)
      BY <1>0, <1>1, <1>3
    <3>2. \A i \in 0..(K + 1) : i <= K => i \in 0..K
      BY <1>0
    <3> QED BY <1>8, <3>1, <3>2
  <2>2. g[0] = 0 /\ g[K] = E(m) - E(j) /\ g[K + 1] = Len(b)
    <3>1. j + 0 = j /\ j + K = m /\ 0 \in 0..(K + 1) /\ K \in 0..(K + 1) /\ K + 1 \in 0..(K + 1) /\ E(j) \in Nat /\ E(j) - E(j) = 0
          /\ 0 <= K /\ K <= K /\ ~(K + 1 <= K)
      BY <1>0, <1>1
    <3> QED BY <1>3, <3>1
  <2>3. ASSUME NEW k \in 1..K PROVE g[k - 1] < g[k] /\ Ahead(proto, b, g[k - 1]) = g[k] - g[k - 1]
    <3>1. k - 1 \in 0..(K + 1) /\ k \in 0..(K + 1) /\ j + k \in 0..N /\ j + (k - 1) \in 0..N /\ k - 1 <= K /\ k <= K
      BY <1>0
    <3>2. g[k - 1] = E(j + (k - 1)) - E(j) /\ g[k] = E(j + k) - E(j)
      BY <3>1
    <3>3. E(j) \in Nat /\ E(j + k) \in Nat /\ E(j + (k - 1)) \in Nat
      BY <1>1, <3>1
    <3>4. (E(j + k) - E(j)) - (E(j + (k - 1)) - E(j)) = E(j + k) - E(j + (k - 1))
      BY <3>3
    <3>5. E(j + (k - 1)) < E(j + k) => E(j + (k - 1)) - E(j) < E(j + k) - E(j)
      BY <3>3
    <3> HIDE DEF g
    <3> QED BY <1>6, <3>2, <3>4, <3>5
  <2> HIDE DEF g, K
  <2>4. Cuts(proto, b) = [ends |-> [i \in 1..(K + 1) |-> g[i]], off |-> TRUE]
    <3> DEFINE M == K + 1
    <3>1. M \in Nat /\ K \in 0..M /\ M = K + 1
      BY <1>0
    <3>2. g \in [0..M -> 0..Len(b)] /\ g[M] = Len(b)
      BY <2>1, <2>2
    <3> HIDE DEF M
    <3>3. Cuts(proto, b) = [ends |-> [i \in 1..M |-> g[i]], off |-> TRUE]
      <4> DEFINE x == TRUE
      <4>1. x \in BOOLEAN /\ x = TRUE /\ Ahead(proto, b, g[K]) = 0 /\ g[0] = 0
        BY <1>10, <2>2
      <4>2. \A k \in 1..K : g[k - 1] < g[k] /\ Ahead(proto, b, g[k - 1]) = g[k] - g[k - 1]
        BY <2>3
      <4> HIDE DEF x
      <4>3. Chained(proto, b, M, K, x, g)
        BY <1>3, <3>1, <3>2, <4>1, <4>2 DEF Chained
      <4>4. Cuts(proto, b) = [ends |-> [i \in 1..M |-> g[i]], off |-> x]
        BY <4>3, Chain
      <4> QED BY <4>4 DEF x
    <3> QED BY <3>3 DEF M
  <2>5. [i \in 1..(K + 1) |-> g[i]] = [i \in 1..(K + 1) |-> IF i <= K THEN E(j + i) - E(j) ELSE r - E(j)]
    BY <1>0 DEF g
  <2> QED BY <1>10, <2>0, <2>4, <2>5 DEF K, E, b
<1> QED BY <1>7, <1>9, <1>10 DEF E, b

(* Pieces of the stream, by their places. *)
LEMMA Intervals ==
    ASSUME NEW a \in Nat, NEW b \in Nat, a <= b
    PROVE  Interval(a, b) \in Seq(Nat) /\ Len(Interval(a, b)) = b - a /\ \A i \in 1..(b - a) : Interval(a, b)[i] = a + i
<1>1. b - a \in Nat /\ \A i \in 1..(b - a) : a + i \in Nat
  OBVIOUS
<1>2. Interval(a, b) \in Seq(Nat)
  BY <1>1, IsASeq DEF Interval
<1>3. Len(Interval(a, b)) = b - a
  BY <1>1 DEF Interval
<1>4. \A i \in 1..(b - a) : Interval(a, b)[i] = a + i
  BY DEF Interval
<1> QED BY <1>2, <1>3, <1>4

(* Neighbouring intervals join ... *)
LEMMA IntervalsJoin ==
    ASSUME NEW a \in Nat, NEW b \in Nat, NEW c \in Nat, a <= b, b <= c
    PROVE  Cat(Interval(a, b), Interval(b, c)) = Interval(a, c) /\ Interval(a, a) = <<>>
<1> DEFINE x == Interval(a, b)
           y == Interval(b, c)
           z == x \o y
<1>1. x \in Seq(Nat) /\ Len(x) = b - a /\ \A i \in 1..(b - a) : x[i] = a + i
  BY Intervals
<1>2. y \in Seq(Nat) /\ Len(y) = c - b /\ \A i \in 1..(c - b) : y[i] = b + i
  BY Intervals
<1> HIDE DEF x, y
<1>3. z \in Seq(Nat) /\ Len(z) = c - a /\ \A i \in 1..(c - a) : z[i] = IF i <= b - a THEN x[i] ELSE y[i - (b - a)]
  <2>1. Len(x) + Len(y) = c - a
    BY <1>1, <1>2
  <2>2. /\ z \in Seq(Nat) /\ Len(z) = Len(x) + Len(y)
        /\ \A i \in 1..(Len(x) + Len(y)) : z[i] = IF i <= Len(x) THEN x[i] ELSE y[i - Len(x)]
    BY <1>1, <1>2, ConcatProperties
  <2> HIDE DEF z
  <2> QED BY <1>1, <2>1, <2>2
<1>4. ASSUME NEW i \in 1..(c - a) PROVE z[i] = a + i
  <2>1. CASE i <= b - a
    BY <1>1, <1>3, <2>1
  <2>2. CASE ~(i <= b - a)
    <3>1. i - (b - a) \in 1..(c - b) /\ b + (i - (b - a)) = a + i
      BY <2>2
    <3>2. y[i - (b - a)] = b + (i - (b - a))
      BY <1>2, <3>1
    <3> QED BY <1>3, <2>2, <3>1, <3>2
  <2> QED BY <2>1, <2>2
<1>5. z = [i \in 1..(c - a) |-> z[i]]
  <2> HIDE DEF z
  <2> QED BY <1>3, LenProperties
<1> HIDE DEF z
<1>6. z = Interval(a, c)
  BY <1>4, <1>5 DEF Interval
<1>7. Interval(a, a) = <<>>
  <2>1. a - a = 0
    OBVIOUS
  <2>2. [i \in 1..0 |-> a + i] = <<>>
    OBVIOUS
  <2> QED BY <2>1, <2>2 DEF Interval
<1> QED BY <1>6, <1>7 DEF Cat, x, y, z

(* ... and a part of an interval is one. *)
LEMMA IntervalsCut ==
    ASSUME NEW a \in Nat, NEW r \in Nat, a <= r, NEW u \in 0..(r - a), NEW v \in 0..(r - a), u <= v
    PROVE  SubSeq(Interval(a, r), u + 1, v) = Interval(a + u, a + v)
<1> DEFINE x == Interval(a, r)
           z == SubSeq(x, u + 1, v)
<1>1. x \in Seq(Nat) /\ Len(x) = r - a /\ \A i \in 1..(r - a) : x[i] = a + i
  BY Intervals
<1> HIDE DEF x
<1>2. u \in Nat /\ v \in Nat /\ (a + v) - (a + u) = v - u /\ v - (u + 1) + 1 = v - u /\ u + 1 \in Int /\ v \in Int
  OBVIOUS
<1>3. \A i \in (u + 1)..v : x[i] \in Nat
  <2>1. ASSUME NEW i \in (u + 1)..v PROVE x[i] \in Nat
    <3>1. i \in 1..(r - a)
      BY <1>2
    <3> QED BY <1>1, <3>1
  <2> QED BY <2>1
<1>4. /\ z \in Seq(Nat) /\ Len(z) = IF u + 1 <= v THEN v - (u + 1) + 1 ELSE 0
      /\ \A i \in 1..(v - (u + 1) + 1) : z[i] = x[(u + 1) + i - 1]
  BY <1>2, <1>3, SubSeqProperties
<1> HIDE DEF z
<1>5. Len(z) = v - u
  BY <1>2, <1>4
<1>6. ASSUME NEW i \in 1..(v - u) PROVE z[i] = (a + u) + i
  <2>1. (u + 1) + i - 1 = u + i /\ u + i \in 1..(r - a) /\ a + (u + i) = (a + u) + i
    BY <1>2
  <2>2. z[i] = x[u + i]
    BY <1>2, <1>4, <2>1
  <2>3. x[u + i] = a + (u + i)
    BY <1>1, <2>1
  <2> QED BY <2>1, <2>2, <2>3
<1>7. z = [i \in 1..(v - u) |-> z[i]]
  BY <1>4, <1>5, LenProperties
<1>8. z = [i \in 1..((a + v) - (a + u)) |-> (a + u) + i]
  BY <1>2, <1>6, <1>7
<1> QED BY <1>8 DEF Interval, z, x

Rising(a, r, M, e) == /\ a \in Nat /\ r \in Nat /\ a <= r /\ M \in Nat /\ e \in [0..M -> 0..(r - a)] /\ e[0] = 0
                      /\ \A i \in 1..M : e[i - 1] <= e[i]
CutPlaces(M, e) == [i \in 1..M |-> e[i]]
Between(a, M, e) == [i \in 1..M |-> Interval(a + e[i - 1], a + e[i])]
LastPlace(ends) == IF ends = <<>> THEN 0 ELSE Last(ends)
(* The pieces of an interval are the intervals between the cuts. *)
LEMMA SplitCut ==
    ASSUME NEW a, NEW r, NEW M, NEW e, Rising(a, r, M, e)
    PROVE  /\ Pieces(Interval(a, r), CutPlaces(M, e)) = Between(a, M, e)
           /\ LastPlace(CutPlaces(M, e)) = e[M]
<1> USE DEF Rising
<1> DEFINE ends == [i \in 1..M |-> e[i]]
<1>1. Len(ends) = M /\ \A i \in 1..M : ends[i] = e[i]
  OBVIOUS
<1>2. (IF ends = <<>> THEN 0 ELSE Last(ends)) = e[M]
  <2>1. CASE M = 0
    <3>1. ends = <<>>
      BY <2>1
    <3> QED BY <2>1, <3>1
  <2>2. CASE M # 0
    <3>1. Len(<<>>) = 0 /\ M \in 1..M
      BY <2>2
    <3> HIDE DEF ends
    <3> QED BY <1>1, <2>2, <3>1 DEF Last
  <2> QED BY <2>1, <2>2
<1>3. ASSUME NEW i \in 1..M
      PROVE  SubSeq(Interval(a, r), (IF i = 1 THEN 0 ELSE ends[i - 1]) + 1, ends[i]) = Interval(a + e[i - 1], a + e[i])
  <2>1. i - 1 \in 0..M /\ i \in 0..M /\ (i # 1 => i - 1 \in 1..M)
    OBVIOUS
  <2>2. (IF i = 1 THEN 0 ELSE ends[i - 1]) = e[i - 1] /\ ends[i] = e[i]
    <3>1. CASE i = 1
      BY <1>1, <3>1
    <3>2. CASE i # 1
      <4>1. ends[i - 1] = e[i - 1]
        BY <2>1, <3>2
      <4> QED BY <1>1, <3>2, <4>1
    <3> QED BY <3>1, <3>2
  <2>3. e[i - 1] \in 0..(r - a) /\ e[i] \in 0..(r - a) /\ e[i - 1] <= e[i]
    BY <2>1
  <2>4. SubSeq(Interval(a, r), e[i - 1] + 1, e[i]) = Interval(a + e[i - 1], a + e[i])
    <3> DEFINE u == e[i - 1]
               v == e[i]
    <3>1. u \in 0..(r - a) /\ v \in 0..(r - a) /\ u <= v
      BY <2>3
    <3> HIDE DEF u, v
    <3>2. SubSeq(Interval(a, r), u + 1, v) = Interval(a + u, a + v)
      BY <3>1, IntervalsCut
    <3> QED BY <3>2 DEF u, v
  <2> HIDE DEF ends
  <2> QED BY <2>2, <2>4
<1> HIDE DEF ends
<1>4. Pieces(Interval(a, r), ends) = [i \in 1..M |-> Interval(a + e[i - 1], a + e[i])]
  BY <1>1, <1>3 DEF Pieces
<1> QED BY <1>2, <1>4 DEF ends, CutPlaces, Between, LastPlace

SplitterAt(p, c, b, d) == [proto |-> p, cipher |-> c, plain |-> b, disabled |-> d]
(* A splitter that waits for the rest of a packet, and one that gave up. *)
Holding(proto, ps, j, q) ==
    SplitterAt(proto, Interval(EndOf(ps, j), q), Buffered(ps, j, q), FALSE)
Spent(proto) == SplitterAt(proto, <<>>, <<>>, TRUE)
Slices(ps, j, m) == [i \in 1..(m - j) |-> Interval(EndOf(ps, j + i - 1), EndOf(ps, j + i))]

(* Packets end one after the other, within the stream. *)
LEMMA EndsAre ==
    ASSUME NEW ps, Packed(ps)
    PROVE  /\ Len(ps) \in Nat /\ Len(FlattenSeq(ps)) \in Nat /\ EndOf(ps, 0) = 0 /\ EndOf(ps, Len(ps)) = Len(FlattenSeq(ps))
           /\ \A k \in 0..Len(ps) : EndOf(ps, k) \in Nat /\ EndOf(ps, k) <= Len(FlattenSeq(ps))
           /\ \A k \in 0..Len(ps) : \A i \in 0..Len(ps) : i <= k => EndOf(ps, i) <= EndOf(ps, k)
<1>0. ps \in Seq(Seq(Nat)) /\ Len(ps) \in Nat
  BY LenProperties DEF Packed
<1>1. Len(FlattenSeq(ps)) \in Nat /\ EndOf(ps, 0) = 0 /\ EndOf(ps, Len(ps)) = Len(FlattenSeq(ps))
  BY <1>0, Laid, LenProperties
<1>2. \A k \in 0..Len(ps) : EndOf(ps, k) \in Nat /\ EndOf(ps, k) <= Len(FlattenSeq(ps))
  BY <1>0, <1>1, Laid
<1>3. ASSUME NEW k \in 0..Len(ps), NEW i \in 0..Len(ps), i <= k PROVE EndOf(ps, i) <= EndOf(ps, k)
  <2>1. i = k \/ i < k
    BY <1>0, <1>3
  <2>2. i < k => EndOf(ps, i) < EndOf(ps, k)
    BY EndsGrow DEF Packed
  <2> QED BY <1>2, <2>1, <2>2
<1> QED BY <1>0, <1>1, <1>2, <1>3

Cutting(sp, x, y, z) == [sp EXCEPT !.cipher = x, !.plain = y, !.disabled = z]
Emptying(sp, x, y) == [sp EXCEPT !.cipher = x, !.plain = y]

(* The fields of a splitter, changed. *)
LEMMA SplitterPuts ==
    ASSUME NEW p, NEW c, NEW b, NEW d, NEW x, NEW y, NEW z
    PROVE  /\ Cutting(SplitterAt(p, c, b, d), x, y, z) = SplitterAt(p, x, y, z)
           /\ Emptying(SplitterAt(p, c, b, d), x, y) = SplitterAt(p, x, y, d)
<1> DEFINE S == {c, b, x, y}
           D == {d, z}
           Type == [proto : {p}, cipher : S, plain : S, disabled : D]
           sp == SplitterAt(p, c, b, d)
           r == Cutting(sp, x, y, z)
           t == Emptying(sp, x, y)
<1>0. x \in S /\ y \in S /\ z \in D /\ sp \in Type /\ sp.proto = p /\ sp.disabled = d
  BY DEF SplitterAt
<1> HIDE DEF S, D, sp
<1>1. \A u \in Type : u = SplitterAt(u.proto, u.cipher, u.plain, u.disabled)
  BY DEF SplitterAt
<1>2. r \in Type /\ t \in Type
  BY <1>0 DEF Cutting, Emptying
<1>3. r.proto = p /\ r.cipher = x /\ r.plain = y /\ r.disabled = z
  BY <1>0 DEF Cutting
<1>4. t.proto = p /\ t.cipher = x /\ t.plain = y /\ t.disabled = d
  BY <1>0 DEF Emptying
<1> HIDE DEF r, t, Type
<1>5. r = SplitterAt(p, x, y, z)
  BY <1>1, <1>2, <1>3
<1>6. t = SplitterAt(p, x, y, d)
  BY <1>1, <1>2, <1>4
<1> QED BY <1>5, <1>6 DEF r, t, sp

(* What is left of a buffer is a buffer. *)
LEMMA BufferCut ==
    ASSUME NEW T \in Seq(Nat), NEW a \in Nat, NEW r \in Nat, a <= r, r <= Len(T), NEW u \in 0..(r - a)
    PROVE  SubSeq(SubSeq(T, a + 1, r), u + 1, r - a) = SubSeq(T, (a + u) + 1, r)
<1>0. Len(T) \in Nat /\ u \in Nat
  BY LenProperties
<1>1. CASE u = r - a
  <2>1. SubSeq(T, (a + u) + 1, r) = <<>>
    BY <1>0, <1>1, SubSeqEmpty
  <2>2. SubSeq(SubSeq(T, a + 1, r), u + 1, r - a) = <<>>
    BY <1>0, <1>1, SubSeqEmpty
  <2> QED BY <2>1, <2>2
<1>2. CASE u # r - a
  <2> DEFINE i == a + 1
             m == u + 1
             n == r - a
  <2>1. i \in 1..Len(T) /\ r \in 1..Len(T) /\ m \in 1..(r - i + 1) /\ n \in 1..(r - i + 1) /\ i + m - 1 = (a + u) + 1 /\ i + n - 1 = r
    BY <1>0, <1>2
  <2> HIDE DEF i, m, n
  <2>2. SubSeq(SubSeq(T, i, r), m, n) = SubSeq(T, i + m - 1, i + n - 1)
    BY <2>1, SubSeqOfSubSeq
  <2>3. SubSeq(SubSeq(T, i, r), m, n) = SubSeq(T, (a + u) + 1, r)
    BY <2>1, <2>2
  <2> QED BY <2>3 DEF i, m, n
<1> QED BY <1>1, <1>2

(* The places of the packets are sequences of numbers. *)
LEMMA SlicesAre ==
    ASSUME NEW ps, Packed(ps), NEW j \in 0..Len(ps), NEW m \in j..Len(ps)
    PROVE  Slices(ps, j, m) \in Seq(Seq(Nat)) /\ Len(Slices(ps, j, m)) = m - j
<1>0. Len(ps) \in Nat /\ j \in Nat /\ m \in Nat /\ m - j \in Nat
  BY EndsAre
<1>1. ASSUME NEW i \in 1..(m - j) PROVE Interval(EndOf(ps, j + i - 1), EndOf(ps, j + i)) \in Seq(Nat)
  <2>1. j + i - 1 \in 0..Len(ps) /\ j + i \in 0..Len(ps) /\ j + i - 1 <= j + i
    BY <1>0
  <2> DEFINE x == EndOf(ps, j + i - 1)
             y == EndOf(ps, j + i)
  <2>2. x \in Nat /\ y \in Nat /\ x <= y
    BY <2>1, EndsAre
  <2> HIDE DEF x, y
  <2>3. Interval(x, y) \in Seq(Nat)
    BY <2>2, Intervals
  <2> QED BY <2>3 DEF x, y
<1>2. Slices(ps, j, m) \in Seq(Seq(Nat))
  BY <1>0, <1>1, IsASeq DEF Slices
<1>3. Len(Slices(ps, j, m)) = m - j
  BY <1>0 DEF Slices
<1> QED BY <1>2, <1>3

(* However the stream of a client reaches the splitter (MsgSplitter.split, bridge.py 66-117): the
   next bytes make it let go of exactly the packets that are whole with them, each as a part of its
   own, and keep the rest; only what is no packet makes it give up, and goes with all that follows. *)
THEOREM SplitterCuts ==
    ASSUME NEW proto, NEW ps, Client(proto, ps), NEW j \in 0..Len(ps), NEW q \in Nat, NEW r \in Nat,
           EndOf(ps, j) <= q, q <= r, r <= Len(FlattenSeq(ps)), NEW m \in j..Len(ps), Reach(proto, ps, r, m)
    PROVE  LET split == Split(Holding(proto, ps, j, q), Interval(q, r), SubSeq(FlattenSeq(ps), q + 1, r))
           IN \/ split = [parts |-> Slices(ps, j, m), after |-> Holding(proto, ps, m, r)]
              \/ /\ m = Len(ps) - 1 /\ NextPacketLen(proto, ps[m + 1]) = 0 /\ EndOf(ps, m) < r
                 /\ split = [parts |-> Append(Slices(ps, j, m), Interval(EndOf(ps, m), r)), after |-> Spent(proto)]
<1> DEFINE T == FlattenSeq(ps)
           E(k) == EndOf(ps, k)
           b == Buffered(ps, j, r)
           c == Interval(E(j), r)
           K == m - j
<1>0. /\ Len(ps) \in Nat /\ Len(T) \in Nat /\ j \in Nat /\ m \in 0..Len(ps) /\ j <= m /\ K \in Nat
      /\ \A k \in 0..Len(ps) : E(k) \in Nat /\ E(k) <= Len(T)
  BY EndsAre DEF Client
<1>1. \A k \in 0..Len(ps) : \A i \in 0..Len(ps) : i <= k => E(i) <= E(k)
  BY EndsAre DEF Client
<1>2. E(j) \in Nat /\ E(m) \in Nat /\ E(j) <= E(m) /\ E(m) <= r /\ E(j) <= r /\ r - E(j) \in Nat
  BY <1>0, <1>1 DEF Reach
<1>3. Interval(E(j), q) \o Interval(q, r) = c
  BY <1>0, IntervalsJoin DEF Cat
<1>4. Buffered(ps, j, q) \o SubSeq(T, q + 1, r) = b
  <2>1. T \in Seq(Nat)
    BY FlatCat DEF Client, Packed
  <2>2. E(j) + 1 \in 1..(Len(T) + 1) /\ q \in ((E(j) + 1) - 1)..Len(T) /\ r \in q..Len(T)
    BY <1>0, <1>2
  <2> HIDE DEF T, E
  <2>3. SubSeq(T, E(j) + 1, q) \o SubSeq(T, q + 1, r) = SubSeq(T, E(j) + 1, r)
    BY <2>1, <2>2, ConcatAdjacentSubSeq
  <2> QED BY <2>3 DEF Buffered, T, E
<1>5. Len(b) = r - E(j) /\ Len(c) = r - E(j) /\ b \in Seq(Nat)
  <2>1. r \in E(j)..Len(T)
    BY <1>0, <1>2
  <2> QED BY <1>2, <2>1, Buffers, Intervals DEF Client
<1> DEFINE cuts == Cuts(proto, b)
           done == IF cuts.ends = <<>> THEN 0 ELSE Last(cuts.ends)
<1>6. Split(Holding(proto, ps, j, q), Interval(q, r), SubSeq(T, q + 1, r)) =
        [parts |-> Pieces(c, cuts.ends),
         after |-> SplitterAt(proto, SubSeq(c, done + 1, r - E(j)), SubSeq(b, done + 1, r - E(j)), cuts.off)]
  <2> DEFINE sp == Holding(proto, ps, j, q)
  <2>1. sp = SplitterAt(proto, Interval(E(j), q), Buffered(ps, j, q), FALSE)
    BY DEF Holding
  <2> HIDE DEF sp, c, b, T, E
  <2>2. sp.proto = proto /\ sp.cipher = Interval(E(j), q) /\ sp.plain = Buffered(ps, j, q) /\ sp.disabled = FALSE
    BY <2>1 DEF SplitterAt
  <2>3. Split(sp, Interval(q, r), SubSeq(T, q + 1, r)) =
        [parts |-> Pieces(c, cuts.ends),
         after |-> Cutting(sp, SubSeq(c, done + 1, Len(c)), SubSeq(b, done + 1, Len(b)), cuts.off)]
    BY <1>3, <1>4, <2>2, Zenon DEF Split, Cutting
  <2> HIDE DEF cuts, done
  <2>4. Cutting(sp, SubSeq(c, done + 1, Len(c)), SubSeq(b, done + 1, Len(b)), cuts.off) =
        SplitterAt(proto, SubSeq(c, done + 1, Len(c)), SubSeq(b, done + 1, Len(b)), cuts.off)
    <3>1. \A x, y, z : Cutting(sp, x, y, z) = SplitterAt(proto, x, y, z)
      <4>1. \A d : sp = SplitterAt(proto, Interval(E(j), q), Buffered(ps, j, q), d) =>
                      \A x, y, z : Cutting(sp, x, y, z) = SplitterAt(proto, x, y, z)
        BY SplitterPuts
      <4> QED BY <2>1, <4>1, Zenon
    <3> QED BY <3>1, Zenon
  <2>5. Split(sp, Interval(q, r), SubSeq(T, q + 1, r)) =
        [parts |-> Pieces(c, cuts.ends),
         after |-> SplitterAt(proto, SubSeq(c, done + 1, r - E(j)), SubSeq(b, done + 1, r - E(j)), cuts.off)]
    BY <1>5, <2>3, <2>4
  <2> QED BY <2>5 DEF sp
<1> DEFINE e == [i \in 0..K |-> E(j + i) - E(j)]
           g == [i \in 0..(K + 1) |-> IF i <= K THEN E(j + i) - E(j) ELSE r - E(j)]
<1>7. \A i \in 0..K : /\ j + i \in 0..Len(ps) /\ E(j + i) \in Nat /\ E(j + i) - E(j) \in 0..(r - E(j)) /\ E(j) + (E(j + i) - E(j)) = E(j + i)
                      /\ (i # 0 => i - 1 \in 0..K /\ j + (i - 1) = j + i - 1 /\ E(j + (i - 1)) <= E(j + i))
  <2>1. ASSUME NEW i \in 0..K
        PROVE  /\ j + i \in 0..Len(ps) /\ E(j + i) \in Nat /\ E(j + i) - E(j) \in 0..(r - E(j)) /\ E(j) + (E(j + i) - E(j)) = E(j + i)
               /\ (i # 0 => i - 1 \in 0..K /\ j + (i - 1) = j + i - 1 /\ E(j + (i - 1)) <= E(j + i))
    <3>1. j + i \in 0..Len(ps) /\ j <= j + i /\ j + i <= m
          /\ (i # 0 => i - 1 \in 0..K /\ j + (i - 1) = j + i - 1 /\ j + (i - 1) \in 0..Len(ps) /\ j + (i - 1) <= j + i)
      BY <1>0
    <3>2. E(j + i) \in Nat /\ E(j) <= E(j + i) /\ E(j + i) <= E(m)
      BY <1>0, <1>1, <3>1
    <3>3. i # 0 => E(j + (i - 1)) <= E(j + i)
      BY <1>1, <3>1
    <3> HIDE DEF E
    <3> QED BY <1>2, <3>1, <3>2, <3>3
  <2> QED BY <2>1
<1> HIDE DEF b, c
<1>8. \/ cuts = [ends |-> [i \in 1..K |-> E(j + i) - E(j)], off |-> FALSE]
      \/ m = Len(ps) - 1 /\ NextPacketLen(proto, ps[m + 1]) = 0 /\ E(m) < r /\ cuts = [ends |-> [i \in 1..(K + 1) |-> IF i <= K THEN E(j + i) - E(j) ELSE r - E(j)], off |-> TRUE]
  <2>1. r \in E(j)..Len(T)
    BY <1>0, <1>2
  <2> QED BY <2>1, WalkStops DEF b
<1>9. CASE cuts = [ends |-> [i \in 1..K |-> E(j + i) - E(j)], off |-> FALSE]
  <2>1. [i \in 1..K |-> E(j + i) - E(j)] = [i \in 1..K |-> e[i]]
    BY <1>0
  <2>2. e \in [0..K -> 0..(r - E(j))] /\ e[0] = 0 /\ e[K] = E(m) - E(j) /\ \A i \in 1..K : e[i - 1] <= e[i]
    <3>1. e \in [0..K -> 0..(r - E(j))]
      BY <1>7
    <3>2. e[0] = 0 /\ e[K] = E(m) - E(j)
      <4>1. j + 0 = j /\ j + K = m /\ 0 \in 0..K /\ K \in 0..K /\ E(j) - E(j) = 0
        BY <1>0, <1>2
      <4> QED BY <4>1
    <3>3. ASSUME NEW i \in 1..K PROVE e[i - 1] <= e[i]
      <4>1. i \in 0..K /\ i - 1 \in 0..K /\ E(j + (i - 1)) <= E(j + i) /\ E(j + i) \in Nat /\ E(j + (i - 1)) \in Nat
        BY <1>7
      <4>2. e[i - 1] = E(j + (i - 1)) - E(j) /\ e[i] = E(j + i) - E(j)
        BY <4>1
      <4> HIDE DEF e, E
      <4> QED BY <1>2, <4>1, <4>2
    <3> HIDE DEF e
    <3> QED BY <3>1, <3>2, <3>3
  <2>3. /\ Pieces(c, cuts.ends) = [i \in 1..K |-> Interval(E(j) + e[i - 1], E(j) + e[i])] /\ done = e[K]
    <3> HIDE DEF e, E, K
    <3>1. cuts.ends = [i \in 1..K |-> e[i]]
      BY <1>9, <2>1
    <3>2. /\ Pieces(Interval(E(j), r), CutPlaces(K, e)) = Between(E(j), K, e)
          /\ LastPlace(CutPlaces(K, e)) = e[K]
      <4>1. Rising(E(j), r, K, e)
        BY <1>0, <1>2, <2>2 DEF Rising
      <4> QED BY <4>1, SplitCut
    <3> HIDE DEF cuts
    <3> QED BY <3>1, <3>2 DEF c, CutPlaces, Between, LastPlace
  <2>4. Pieces(c, cuts.ends) = Slices(ps, j, m)
    <3>1. ASSUME NEW i \in 1..K PROVE Interval(E(j) + e[i - 1], E(j) + e[i]) = Interval(E(j + i - 1), E(j + i))
      <4>1. i \in 0..K /\ i - 1 \in 0..K /\ j + (i - 1) = j + i - 1
        BY <1>7
      <4>2. E(j) + e[i] = E(j + i) /\ E(j) + e[i - 1] = E(j + (i - 1))
        BY <1>7, <4>1
      <4> HIDE DEF e
      <4> QED BY <4>1, <4>2
    <3> HIDE DEF cuts, e
    <3> QED BY <2>3, <3>1 DEF Slices
  <2>5. SubSeq(c, done + 1, r - E(j)) = Interval(E(m), r)
    <3> DEFINE u == E(m) - E(j)
               v == r - E(j)
    <3>1. u \in 0..(r - E(j)) /\ v \in 0..(r - E(j)) /\ u <= v /\ E(j) + u = E(m) /\ E(j) + v = r
      BY <1>2
    <3> HIDE DEF u, v, E, K
    <3>2. SubSeq(c, u + 1, v) = Interval(E(j) + u, E(j) + v)
      BY <1>2, <3>1, IntervalsCut DEF c
    <3> HIDE DEF e, done
    <3> QED BY <2>2, <2>3, <3>1, <3>2 DEF u, v
  <2>6. SubSeq(b, done + 1, r - E(j)) = Buffered(ps, m, r)
    <3> DEFINE u == E(m) - E(j)
               a == E(j)
    <3>1. u \in 0..(r - a) /\ a + u = E(m) /\ a \in Nat /\ a <= r
      BY <1>2
    <3>2. T \in Seq(Nat)
      BY FlatCat DEF Client, Packed
    <3>3. b = SubSeq(T, a + 1, r) /\ Buffered(ps, m, r) = SubSeq(T, E(m) + 1, r)
      BY DEF b, Buffered
    <3> HIDE DEF u, E, K, T, a
    <3>4. SubSeq(SubSeq(T, a + 1, r), u + 1, r - a) = SubSeq(T, (a + u) + 1, r)
      BY <3>1, <3>2, BufferCut DEF T
    <3> HIDE DEF e, done
    <3> QED BY <2>2, <2>3, <3>1, <3>3, <3>4 DEF u, a
  <2>7. cuts.off = FALSE
    BY <1>9
  <2> HIDE DEF cuts, done
  <2> QED BY <1>6, <2>4, <2>5, <2>6, <2>7 DEF Holding
<1>10. CASE m = Len(ps) - 1 /\ NextPacketLen(proto, ps[m + 1]) = 0 /\ E(m) < r /\ cuts = [ends |-> [i \in 1..(K + 1) |-> IF i <= K THEN E(j + i) - E(j) ELSE r - E(j)], off |-> TRUE]
  <2>1. [i \in 1..(K + 1) |-> IF i <= K THEN E(j + i) - E(j) ELSE r - E(j)] = [i \in 1..(K + 1) |-> g[i]]
    BY <1>0
  <2>2. /\ g \in [0..(K + 1) -> 0..(r - E(j))] /\ g[0] = 0 /\ g[K] = E(m) - E(j) /\ g[K + 1] = r - E(j)
        /\ \A i \in 1..(K + 1) : g[i - 1] <= g[i]
    <3>0. \A i \in 0..(K + 1) : i <= K => i \in 0..K
      BY <1>0
    <3>1. g \in [0..(K + 1) -> 0..(r - E(j))]
      <4>1. ASSUME NEW i \in 0..(K + 1) PROVE (IF i <= K THEN E(j + i) - E(j) ELSE r - E(j)) \in 0..(r - E(j))
        <5>1. i <= K => E(j + i) - E(j) \in 0..(r - E(j))
          BY <1>7, <3>0
        <5>2. r - E(j) \in 0..(r - E(j))
          BY <1>2
        <5> HIDE DEF E, K
        <5> QED BY <5>1, <5>2
      <4> HIDE DEF E, K
      <4> QED BY <4>1
    <3>2. g[0] = 0 /\ g[K] = E(m) - E(j) /\ g[K + 1] = r - E(j)
      <4>1. j + 0 = j /\ j + K = m /\ 0 \in 0..(K + 1) /\ K \in 0..(K + 1) /\ K + 1 \in 0..(K + 1) /\ E(j) - E(j) = 0
            /\ 0 <= K /\ K <= K /\ ~(K + 1 <= K)
        BY <1>0, <1>2
      <4> QED BY <4>1
    <3>3. ASSUME NEW i \in 1..(K + 1) PROVE g[i - 1] <= g[i]
      <4>1. CASE i <= K
        <5>1. i \in 0..K /\ i - 1 \in 0..K /\ E(j + (i - 1)) <= E(j + i) /\ E(j + i) \in Nat /\ E(j + (i - 1)) \in Nat
          BY <1>0, <1>7, <4>1
        <5>2. i \in 0..(K + 1) /\ i - 1 \in 0..(K + 1) /\ i - 1 <= K
          BY <1>0, <4>1
        <5>3. g[i - 1] = E(j + (i - 1)) - E(j) /\ g[i] = E(j + i) - E(j)
          BY <4>1, <5>2
        <5> HIDE DEF g, E
        <5> QED BY <1>2, <5>1, <5>3
      <4>2. CASE i = K + 1
        <5>1. i - 1 = K
          BY <1>0, <4>2
        <5> HIDE DEF g, E, K
        <5> QED BY <1>2, <3>2, <4>2, <5>1
      <4> QED BY <1>0, <4>1, <4>2
    <3> HIDE DEF g
    <3> QED BY <3>1, <3>2, <3>3
  <2>3. /\ Pieces(c, cuts.ends) = [i \in 1..(K + 1) |-> Interval(E(j) + g[i - 1], E(j) + g[i])] /\ done = r - E(j)
    <3> DEFINE M == K + 1
    <3>n. M \in Nat
      BY <1>0
    <3> HIDE DEF g, E, K
    <3>0. M \in Nat /\ g \in [0..M -> 0..(r - E(j))] /\ g[M] = r - E(j) /\ \A i \in 1..M : g[i - 1] <= g[i]
      BY <2>2, <3>n
    <3>1. cuts.ends = [i \in 1..M |-> g[i]]
      BY <1>10, <2>1
    <3> HIDE DEF M
    <3>2. /\ Pieces(Interval(E(j), r), CutPlaces(M, g)) = Between(E(j), M, g)
          /\ LastPlace(CutPlaces(M, g)) = g[M]
      <4>1. Rising(E(j), r, M, g)
        BY <1>2, <2>2, <3>0 DEF Rising
      <4> QED BY <4>1, SplitCut
    <3> HIDE DEF cuts
    <3>3. /\ Pieces(c, cuts.ends) = [i \in 1..M |-> Interval(E(j) + g[i - 1], E(j) + g[i])] /\ done = r - E(j)
      BY <3>0, <3>1, <3>2 DEF c, CutPlaces, Between, LastPlace
    <3> HIDE DEF done
    <3> QED BY <3>3 DEF M
  <2>4. Pieces(c, cuts.ends) = Append(Slices(ps, j, m), Interval(E(m), r))
    <3> DEFINE a == Append(Slices(ps, j, m), Interval(E(m), r))
    <3>1. Slices(ps, j, m) \in Seq(Seq(Nat)) /\ Len(Slices(ps, j, m)) = K
      BY SlicesAre DEF Client
    <3>2. Interval(E(m), r) \in Seq(Nat)
      BY <1>2, Intervals
    <3>3. a \in Seq(Seq(Nat)) /\ Len(a) = K + 1 /\ a[K + 1] = Interval(E(m), r) /\ \A i \in 1..K : a[i] = Slices(ps, j, m)[i]
      <4> HIDE DEF K, E
      <4> QED BY <3>1, <3>2, AppendProperties
    <3>4. ASSUME NEW i \in 1..(K + 1) PROVE Interval(E(j) + g[i - 1], E(j) + g[i]) = a[i]
      <4>1. CASE i <= K
        <5>1. i \in 0..K /\ i - 1 \in 0..K /\ j + (i - 1) = j + i - 1 /\ i \in 1..K
          BY <1>0, <1>7, <4>1
        <5>2. i \in 0..(K + 1) /\ i - 1 \in 0..(K + 1) /\ i - 1 <= K
          BY <1>0, <4>1
        <5>3. E(j) + g[i] = E(j + i) /\ E(j) + g[i - 1] = E(j + (i - 1))
          BY <1>7, <4>1, <5>1, <5>2
        <5>4. Slices(ps, j, m)[i] = Interval(E(j + i - 1), E(j + i))
          BY <5>1 DEF Slices
        <5> HIDE DEF g, a
        <5> QED BY <3>3, <5>1, <5>3, <5>4
      <4>2. CASE i = K + 1
        <5>1. i - 1 = K
          BY <1>0, <4>2
        <5> HIDE DEF g, E, K, a
        <5>2. E(j) + g[i - 1] = E(m) /\ E(j) + g[i] = r
          BY <1>2, <2>2, <4>2, <5>1
        <5>3. Interval(E(j) + g[i - 1], E(j) + g[i]) = Interval(E(m), r)
          BY <5>2
        <5>4. a[i] = Interval(E(m), r)
          BY <3>3, <4>2
        <5> QED BY <5>3, <5>4
      <4> HIDE DEF E, K, g, a
      <4> QED BY <1>0, <4>1, <4>2
    <3>5. a = [i \in 1..(K + 1) |-> a[i]]
      <4> HIDE DEF a
      <4> QED BY <3>3, LenProperties
    <3> HIDE DEF cuts, g, a
    <3>6. Pieces(c, cuts.ends) = a
      BY <2>3, <3>4, <3>5
    <3> QED BY <3>6 DEF a
  <2>5. SubSeq(c, done + 1, r - E(j)) = <<>>
    <3> HIDE DEF done, E
    <3> QED BY <1>2, <2>3, SubSeqEmpty
  <2>6. SubSeq(b, done + 1, r - E(j)) = <<>>
    <3> HIDE DEF done, E
    <3> QED BY <1>2, <2>3, SubSeqEmpty
  <2>7. cuts.off = TRUE
    BY <1>10
  <2> HIDE DEF cuts, done
  <2> QED BY <1>6, <1>10, <2>4, <2>5, <2>6, <2>7 DEF Spent
<1> QED BY <1>8, <1>9, <1>10

(* The pieces up to a packet are the stream up to it. *)
LEMMA SlicesGrow ==
    ASSUME NEW ps, Packed(ps), NEW j \in 0..Len(ps), NEW m \in j..Len(ps)
    PROVE  Cat(Slices(ps, 0, j), Slices(ps, j, m)) = Slices(ps, 0, m)
<1> DEFINE x == Slices(ps, 0, j)
           y == Slices(ps, j, m)
           z == x \o y
<1>0. Len(ps) \in Nat /\ j \in Nat /\ m \in Nat /\ j <= m /\ 0 \in 0..Len(ps) /\ j \in 0..Len(ps) /\ j \in 0..Len(ps)
      /\ j - 0 = j /\ m - 0 = m
  BY EndsAre
<1>1. x \in Seq(Seq(Nat)) /\ Len(x) = j
  BY <1>0, SlicesAre
<1>2. y \in Seq(Seq(Nat)) /\ Len(y) = m - j
  BY SlicesAre
<1>3. \A i \in 1..j : x[i] = Interval(EndOf(ps, i - 1), EndOf(ps, i))
  <2>1. ASSUME NEW i \in 1..j PROVE x[i] = Interval(EndOf(ps, i - 1), EndOf(ps, i))
    <3>1. i \in 1..(j - 0) /\ 0 + i - 1 = i - 1 /\ 0 + i = i
      BY <1>0
    <3>2. x[i] = Interval(EndOf(ps, 0 + i - 1), EndOf(ps, 0 + i))
      BY <3>1 DEF Slices
    <3> HIDE DEF x
    <3> QED BY <3>1, <3>2
  <2> QED BY <2>1
<1>4. \A i \in 1..(m - j) : y[i] = Interval(EndOf(ps, j + i - 1), EndOf(ps, j + i))
  BY DEF Slices
<1> HIDE DEF x, y
<1>5. z \in Seq(Seq(Nat)) /\ Len(z) = m /\ \A i \in 1..m : z[i] = IF i <= j THEN x[i] ELSE y[i - j]
  <2>1. /\ z \in Seq(Seq(Nat)) /\ Len(z) = Len(x) + Len(y)
        /\ \A i \in 1..(Len(x) + Len(y)) : z[i] = IF i <= Len(x) THEN x[i] ELSE y[i - Len(x)]
    BY <1>1, <1>2, ConcatProperties
  <2>2. Len(x) + Len(y) = m
    BY <1>0, <1>1, <1>2
  <2> HIDE DEF z
  <2> QED BY <1>1, <2>1, <2>2
<1> HIDE DEF z
<1>6. ASSUME NEW i \in 1..m PROVE z[i] = Interval(EndOf(ps, i - 1), EndOf(ps, i))
  <2>1. CASE i <= j
    <3>1. i \in 1..j
      BY <1>0, <2>1
    <3> QED BY <1>3, <1>5, <2>1, <3>1
  <2>2. CASE ~(i <= j)
    <3>1. i - j \in 1..(m - j) /\ j + (i - j) - 1 = i - 1 /\ j + (i - j) = i
      BY <1>0, <2>2
    <3>2. y[i - j] = Interval(EndOf(ps, j + (i - j) - 1), EndOf(ps, j + (i - j)))
      BY <1>4, <3>1
    <3> QED BY <1>5, <2>2, <3>1, <3>2
  <2> QED BY <2>1, <2>2
<1>7. z = [i \in 1..m |-> z[i]]
  BY <1>5, LenProperties
<1>8. Slices(ps, 0, m) = [i \in 1..m |-> Interval(EndOf(ps, i - 1), EndOf(ps, i))]
  <2>1. \A i \in 1..m : 0 + i - 1 = i - 1 /\ 0 + i = i
    BY <1>0
  <2> QED BY <1>0, <2>1 DEF Slices
<1>9. z = [i \in 1..m |-> Interval(EndOf(ps, i - 1), EndOf(ps, i))]
  BY <1>6, <1>7
<1> QED BY <1>8, <1>9 DEF Cat, x, y, z

(* Put together, they are the stream up to the last of them. *)
LEMMA SlicesFlat ==
    ASSUME NEW ps, Packed(ps) PROVE \A m \in 0..Len(ps) : FlattenSeq(Slices(ps, 0, m)) = Interval(0, EndOf(ps, m))
<1> DEFINE N == Len(ps)
           I == {m \in Nat : m <= N => FlattenSeq(Slices(ps, 0, m)) = Interval(0, EndOf(ps, m))}
<1>0. N \in Nat
  BY EndsAre
<1>1. 0 \in I
  <2>1. Slices(ps, 0, 0) = <<>>
    <3>1. 0 - 0 = 0
      OBVIOUS
    <3>2. [i \in 1..0 |-> Interval(EndOf(ps, 0 + i - 1), EndOf(ps, 0 + i))] = <<>>
      OBVIOUS
    <3> QED BY <3>1, <3>2 DEF Slices
  <2>2. Len(<<>>) = 0
    OBVIOUS
  <2>3. FlattenSeq(<<>>) = <<>>
    BY <2>2 DEF FlattenSeq
  <2>4. Interval(0, EndOf(ps, 0)) = <<>>
    <3>1. EndOf(ps, 0) = 0 /\ Interval(0, 0) = <<>>
      BY EndsAre, IntervalsJoin
    <3> QED BY <3>1
  <2> QED BY <2>1, <2>3, <2>4
<1>2. ASSUME NEW m \in I PROVE m + 1 \in I
  <2>0. m \in Nat
    OBVIOUS
  <2>1. ASSUME m + 1 <= N PROVE FlattenSeq(Slices(ps, 0, m + 1)) = Interval(0, EndOf(ps, m + 1))
    <3>0. m \in 0..N /\ m + 1 \in m..N /\ m <= N /\ 0 \in 0..N /\ m \in 0..N /\ m + 1 \in 0..N /\ (m + 1) - m = 1
          /\ m + 1 - 1 = m /\ m <= m + 1
      BY <1>0, <2>0, <2>1
    <3> DEFINE a == EndOf(ps, m)
               b == EndOf(ps, m + 1)
    <3>1. FlattenSeq(Slices(ps, 0, m)) = Interval(0, a)
      BY <3>0
    <3> HIDE DEF I, N
    <3>2. a \in Nat /\ b \in Nat /\ a <= b
      BY <3>0, EndsAre DEF N
    <3>3. Slices(ps, m, m + 1) = <<Interval(a, b)>>
      <4>1. [i \in 1..1 |-> Interval(EndOf(ps, m + i - 1), EndOf(ps, m + i))] = <<Interval(EndOf(ps, m + 1 - 1), EndOf(ps, m + 1))>>
        OBVIOUS
      <4> QED BY <3>0, <4>1 DEF Slices
    <3> HIDE DEF a, b
    <3>4. Interval(a, b) \in Seq(Nat)
      BY <3>2, Intervals
    <3>5. FlattenSeq(<<Interval(a, b)>>) = Interval(a, b) /\ <<Interval(a, b)>> \in Seq(Seq(Nat))
      BY <3>4, FlatOne
    <3>6. Slices(ps, 0, m + 1) = Cat(Slices(ps, 0, m), <<Interval(a, b)>>) /\ Slices(ps, 0, m) \in Seq(Seq(Nat))
      <4>1. m \in 0..Len(ps) /\ m + 1 \in m..Len(ps) /\ 0 \in 0..Len(ps)
        BY <3>0 DEF N
      <4>2. Slices(ps, 0, m) \in Seq(Seq(Nat))
        BY <4>1, SlicesAre
      <4>3. Cat(Slices(ps, 0, m), Slices(ps, m, m + 1)) = Slices(ps, 0, m + 1)
        BY <4>1, SlicesGrow
      <4> QED BY <3>3, <4>2, <4>3
    <3>7. FlattenSeq(Slices(ps, 0, m + 1)) = Cat(Interval(0, a), Interval(a, b))
      <4> DEFINE x == Slices(ps, 0, m)
                 y == <<Interval(a, b)>>
      <4>1. x \in Seq(Seq(Nat)) /\ y \in Seq(Seq(Nat)) /\ FlattenSeq(x) = Interval(0, a) /\ FlattenSeq(y) = Interval(a, b)
            /\ Slices(ps, 0, m + 1) = x \o y
        BY <3>1, <3>5, <3>6 DEF Cat
      <4> HIDE DEF x, y
      <4> QED BY <4>1, FlatCat
    <3>8. Cat(Interval(0, a), Interval(a, b)) = Interval(0, b)
      BY <3>2, IntervalsJoin
    <3> QED BY <3>7, <3>8 DEF b
  <2> QED BY <2>0, <2>1
<1>3. \A m \in Nat : m \in I
  <2> HIDE DEF I
  <2>1. I \in SUBSET Nat
    BY DEF I
  <2> QED BY <1>1, <1>2, <2>1, Induction
<1> QED BY <1>0, <1>3

(* What a client may send is a stream in this sense. *)
LEMMA Clients ==
    ASSUME NEW p \in DOMAIN Transport, NEW ps \in Streams(p)
    PROVE  /\ Client(p, ps) /\ Len(ps) = MaxPackets /\ MaxPackets \in Nat \ {0}
           /\ \A k \in 1..MaxPackets : ps[k] \in Transport[p] <=> NextPacketLen(p, ps[k]) = Len(ps[k])
<1>0. MaxPackets \in Nat \ {0} /\ ps \in [1..MaxPackets -> Transport[p] \cup Garbage[p]]
      /\ \A k \in 1..(MaxPackets - 1) : ps[k] \in Transport[p]
  BY BridgeAssumption DEF Streams
<1>1. /\ \A b \in Transport[p] \cup Garbage[p] : b \in Seq(0..255) /\ b # <<>>
      /\ \A b \in Transport[p] : NextPacketLen(p, b) = Len(b)
      /\ \A b \in Garbage[p] : NextPacketLen(p, b) = 0
  BY PacketAssumption
<1>2. ASSUME NEW k \in 1..MaxPackets
      PROVE  /\ ps[k] \in Seq(Nat) /\ ps[k] # <<>> /\ NextPacketLen(p, ps[k]) \in {0, Len(ps[k])}
             /\ (ps[k] \in Transport[p] <=> NextPacketLen(p, ps[k]) = Len(ps[k]))
  <2>1. ps[k] \in Transport[p] \cup Garbage[p]
    BY <1>0
  <2>2. ps[k] \in Seq(0..255) /\ ps[k] # <<>>
    BY <1>1, <2>1
  <2>3. ps[k] \in Seq(Nat) /\ Len(ps[k]) # 0
    <3> DEFINE q == ps[k]
    <3>0. q \in Seq(0..255) /\ q # <<>>
      BY <2>2
    <3> HIDE DEF q
    <3>1. Len(q) \in Nat /\ \A i \in 1..Len(q) : q[i] \in Nat
      <4>1. Len(q) \in Nat
        BY <3>0, LenProperties
      <4>2. ASSUME NEW i \in 1..Len(q) PROVE q[i] \in Nat
        <5> DEFINE B == 0..255
        <5>1. q \in Seq(B) /\ \A x \in B : x \in Nat
          BY <3>0
        <5> HIDE DEF B
        <5>2. q[i] \in B
          BY <5>1, ElementOfSeq
        <5> QED BY <5>1, <5>2
      <4> QED BY <4>1, <4>2
    <3>2. q = [i \in 1..Len(q) |-> q[i]]
      BY <3>0, LenProperties
    <3>3. [i \in 1..Len(q) |-> q[i]] \in Seq(Nat)
      BY <3>1, IsASeq
    <3>4. Len(q) # 0
      BY <3>0, EmptySeq
    <3>5. q \in Seq(Nat)
      BY <3>2, <3>3
    <3> QED BY <3>4, <3>5 DEF q
  <2> QED BY <1>1, <2>1, <2>2, <2>3
<1>3. ps \in Seq(Seq(Nat)) /\ Len(ps) = MaxPackets
  <2>1. ps = [k \in 1..MaxPackets |-> ps[k]]
    BY <1>0
  <2>2. [k \in 1..MaxPackets |-> ps[k]] \in Seq(Seq(Nat))
    BY <1>0, <1>2, IsASeq
  <2>3. Len([k \in 1..MaxPackets |-> ps[k]]) = MaxPackets
    BY <1>0
  <2> QED BY <2>1, <2>2, <2>3
<1>4. \A k \in 1..(MaxPackets - 1) : k \in 1..MaxPackets /\ ps[k] \in Transport[p]
  BY <1>0
<1> QED BY <1>0, <1>2, <1>3, <1>4 DEF Client, Packed

(* The state of the direction to the peer. *)
Proto == splitter.proto
Whole(j) == Reach(Proto, packets, received, j)
IsEarly(pr, ps, r, sp, c) ==
    \E j \in 0..Len(ps) : Reach(pr, ps, r, j) /\ sp = Holding(pr, ps, j, r) /\ c = Slices(ps, 0, j)
IsComplete(pr, ps, r, c, j, rest) ==
    /\ Reach(pr, ps, r, j) /\ rest \in Seq(Seq(Nat)) /\ c = Cat(Slices(ps, 0, j), rest)
    /\ FlattenSeq(c) = Interval(0, r)
IsOff(pr, ps, r, sp, c) ==
    \E rest \in Seq(Seq(Nat)) : /\ IsComplete(pr, ps, r, c, Len(ps) - 1, rest) /\ sp = Spent(pr)
                               /\ NextPacketLen(pr, ps[Len(ps)]) = 0
IsLate(pr, ps, r, sp, c) ==
    \E j \in 0..Len(ps), rest \in Seq(Seq(Nat)) : IsComplete(pr, ps, r, c, j, rest) /\ sp.cipher = <<>>
Early == IsEarly(Proto, packets, received, splitter, Contents(out))
Off   == IsOff(Proto, packets, received, splitter, Contents(out))
Over  == IsLate(Proto, packets, received, splitter, Contents(out))
Complete(j, rest) == IsComplete(Proto, packets, received, Contents(out), j, rest)
UpShape == /\ Proto \in DOMAIN Transport /\ packets \in Streams(Proto)
           /\ received \in Nat /\ received <= Len(Stream)
UpInv == /\ up \in {"read", "drain", "tail", "done"} /\ failed \in BOOLEAN /\ out \in Seq(Frames)
         /\ failed => up = "done"
         /\ ~failed => /\ UpShape
                       /\ up \in {"read", "drain"} => Early \/ Off
                       /\ up \in {"tail", "done"} => Over

(* The packets that have arrived are those that the splitter has seen end. *)
LEMMA WholeIsArrived == ASSUME UpShape, NEW j, Whole(j) PROVE Arrived = j
<1> DEFINE A == {k \in 1..Len(packets) : Ends(k) <= received /\ packets[k] \in Transport[splitter.proto]}
<1>0. /\ Client(Proto, packets) /\ Len(packets) = MaxPackets /\ MaxPackets \in Nat \ {0}
      /\ \A k \in 1..MaxPackets : packets[k] \in Transport[Proto] <=> NextPacketLen(Proto, packets[k]) = Len(packets[k])
  BY Clients DEF UpShape
<1>1. \A k : Ends(k) = EndOf(packets, k)
  BY DEF Ends, EndOf
<1>2. /\ \A k \in 0..Len(packets) : EndOf(packets, k) \in Nat
      /\ \A k \in 0..Len(packets) : \A i \in 0..Len(packets) : i <= k => EndOf(packets, i) <= EndOf(packets, k)
  BY <1>0, EndsAre DEF Client
<1>3. /\ j \in 0..MaxPackets /\ EndOf(packets, j) <= received /\ received \in Nat
      /\ \A k \in 1..j : NextPacketLen(Proto, packets[k]) = Len(packets[k])
      /\ j < MaxPackets => NextPacketLen(Proto, packets[j + 1]) = 0 \/ received < EndOf(packets, j + 1)
  BY <1>0 DEF UpShape, Whole, Reach
<1>4. \A k \in 1..MaxPackets : Len(packets[k]) # 0
  <2>1. ASSUME NEW k \in 1..MaxPackets PROVE Len(packets[k]) # 0
    <3>1. packets[k] \in Seq(Nat) /\ packets[k] # <<>>
      BY <1>0, ElementOfSeq DEF Client, Packed
    <3> QED BY <3>1, EmptySeq
  <2> QED BY <2>1
<1>5. ASSUME NEW k \in 1..MaxPackets, k <= j PROVE EndOf(packets, k) <= received /\ packets[k] \in Transport[Proto]
  <2>1. k \in 1..j /\ k \in 0..MaxPackets /\ j \in 0..MaxPackets
    BY <1>0, <1>3, <1>5
  <2>2. EndOf(packets, k) <= EndOf(packets, j) /\ EndOf(packets, k) \in Nat /\ EndOf(packets, j) \in Nat
    BY <1>0, <1>2, <1>5, <2>1
  <2>3. EndOf(packets, k) <= received
    BY <1>3, <2>2
  <2> QED BY <1>0, <1>3, <2>1, <2>3
<1>6. ASSUME NEW k \in 1..MaxPackets, ~(k <= j), packets[k] \in Transport[Proto] PROVE ~(EndOf(packets, k) <= received)
  <2>1. j < MaxPackets /\ j + 1 \in 1..MaxPackets /\ j + 1 \in 0..MaxPackets /\ k \in 0..MaxPackets /\ j + 1 <= k
    BY <1>0, <1>3, <1>6
  <2>2. CASE received < EndOf(packets, j + 1)
    <3>1. EndOf(packets, j + 1) <= EndOf(packets, k) /\ EndOf(packets, k) \in Nat /\ EndOf(packets, j + 1) \in Nat
      BY <1>0, <1>2, <2>1
    <3> QED BY <1>3, <2>2, <3>1
  <2>3. CASE NextPacketLen(Proto, packets[j + 1]) = 0
    <3>1. packets[j + 1] \notin Transport[Proto]
      BY <1>0, <1>4, <2>1, <2>3
    <3>2. j + 1 = MaxPackets
      <4>1. ASSUME j + 1 # MaxPackets PROVE FALSE
        <5>1. j + 1 \in 1..(MaxPackets - 1)
          BY <1>0, <2>1, <4>1
        <5>2. packets[j + 1] \in Transport[Proto]
          BY <5>1 DEF UpShape, Streams
        <5> QED BY <3>1, <5>2
      <4> QED BY <4>1
    <3>3. k = j + 1
      BY <1>0, <2>1, <3>2
    <3> QED BY <1>6, <3>1, <3>3
  <2> QED BY <1>3, <2>1, <2>2, <2>3
<1>7. A = 1..j
  <2>1. ASSUME NEW k PROVE k \in A <=> k \in 1..j
    <3>1. k \in A <=> k \in 1..MaxPackets /\ EndOf(packets, k) <= received /\ packets[k] \in Transport[Proto]
      BY <1>0, <1>1 DEF Proto
    <3>2. k \in 1..j <=> k \in 1..MaxPackets /\ k <= j
      BY <1>0, <1>3
    <3> HIDE DEF A
    <3> QED BY <1>5, <1>6, <3>1, <3>2
  <2> HIDE DEF A
  <2> QED BY <2>1
<1>8. Cardinality(1..j) = j
  <2>1. j \in Nat /\ 1 \in Int /\ j \in Int
    BY <1>0, <1>3
  <2>2. Cardinality(1..j) = IF 1 > j THEN 0 ELSE j - 1 + 1
    BY <2>1, FS_Interval
  <2> QED BY <2>1, <2>2
<1> HIDE DEF A
<1> QED BY <1>7, <1>8 DEF Arrived, A

(* What it sent is the stream, cut at the packets. *)
LEMMA WholePieces ==
    ASSUME UpShape, NEW j \in 0..Len(packets), NEW rest \in Seq(Seq(Nat)), Contents(out) = Cat(Slices(packets, 0, j), rest)
    PROVE  Len(Contents(out)) = j + Len(rest) /\ Len(rest) \in Nat /\ j \in Nat
           /\ \A k \in 1..j : Contents(out)[k] = Piece(k)
<1> DEFINE x == Slices(packets, 0, j)
<1>0. Client(Proto, packets) /\ Len(packets) \in Nat
  BY Clients DEF UpShape
<1>1. j \in Nat /\ j - 0 = j /\ 0 \in 0..Len(packets) /\ j \in 0..Len(packets)
  BY <1>0
<1>2. x \in Seq(Seq(Nat)) /\ Len(x) = j
  BY <1>0, <1>1, SlicesAre DEF Client
<1>3. ASSUME NEW k \in 1..j PROVE x[k] = Piece(k)
  <2>1. k \in 1..(j - 0) /\ 0 + k - 1 = k - 1 /\ 0 + k = k
    BY <1>1
  <2>2. x[k] = Interval(EndOf(packets, 0 + k - 1), EndOf(packets, 0 + k))
    BY <2>1 DEF Slices
  <2> HIDE DEF x
  <2> QED BY <2>1, <2>2 DEF Piece, Ends, EndOf
<1> HIDE DEF x
<1>4. /\ Len(x \o rest) = Len(x) + Len(rest) /\ Len(rest) \in Nat
      /\ \A k \in 1..(Len(x) + Len(rest)) : (x \o rest)[k] = IF k <= Len(x) THEN x[k] ELSE rest[k - Len(x)]
  BY <1>2, ConcatProperties, LenProperties
<1>5. Contents(out) = x \o rest
  BY DEF Cat, x
<1>6. ASSUME NEW k \in 1..j PROVE Contents(out)[k] = Piece(k)
  <2>1. k \in 1..(Len(x) + Len(rest)) /\ k <= Len(x)
    BY <1>1, <1>2, <1>4
  <2> QED BY <1>3, <1>4, <1>5, <2>1
<1> QED BY <1>1, <1>2, <1>4, <1>5, <1>6

(* What was sent is what the frames of data hold. *)
LEMMA BodiesAre == Bodies = Contents(out)
BY DEF Bodies, Contents, Part

(* What the invariant of this direction is for. *)
LEMMA UpIsFaithful == ASSUME UpInv PROVE OnePacketPerFrame /\ StreamIsKept
<1> SUFFICES ASSUME ~failed PROVE OnePacketPerFrame /\ StreamIsKept
  BY DEF OnePacketPerFrame, StreamIsKept
<1>0. /\ UpShape /\ (up \in {"read", "drain"} => Early \/ Off) /\ (up \in {"tail", "done"} => Over)
      /\ up \in {"read", "drain", "tail", "done"} /\ out \in Seq(Frames)
  BY DEF UpInv
<1>1. Client(Proto, packets) /\ Len(packets) \in Nat /\ Len(packets) >= 1 /\ received \in Nat
  BY Clients DEF UpShape, UpInv
<1>2. CASE up \in {"read", "drain"} /\ Early
  <2>1. PICK j \in 0..Len(packets) : /\ Whole(j) /\ splitter = Holding(Proto, packets, j, received)
                                     /\ Contents(out) = Slices(packets, 0, j)
    BY <1>2 DEF Early, IsEarly, Whole
  <2>2. Arrived = j
    BY <1>0, <2>1, WholeIsArrived
  <2>3. Slices(packets, 0, j) = Cat(Slices(packets, 0, j), <<>>) /\ <<>> \in Seq(Seq(Nat)) /\ Len(<<>>) = 0
    <3>1. Slices(packets, 0, j) \in Seq(Seq(Nat))
      BY <1>1, <2>1, SlicesAre DEF Client
    <3> QED BY <3>1, Cats
  <2>4. Len(Contents(out)) = j /\ j \in Nat /\ \A k \in 1..j : Contents(out)[k] = Piece(k)
    <3>1. Contents(out) = Cat(Slices(packets, 0, j), <<>>)
      BY <2>1, <2>3
    <3>2. Len(Contents(out)) = j + Len(<<>>) /\ j \in Nat /\ \A k \in 1..j : Contents(out)[k] = Piece(k)
      BY <1>0, <2>3, <3>1, WholePieces
    <3> QED BY <2>3, <3>2
  <2>5. OnePacketPerFrame
    BY <2>2, <2>4, BodiesAre DEF OnePacketPerFrame
  <2>6. splitter.cipher = Interval(EndOf(packets, j), received)
    BY <2>1 DEF Holding, SplitterAt
  <2>7. FlattenSeq(Contents(out)) = Interval(0, EndOf(packets, j))
    BY <1>1, <2>1, SlicesFlat DEF Client
  <2>8. EndOf(packets, j) \in Nat /\ EndOf(packets, j) <= received
    BY <1>1, <2>1, EndsAre DEF Client, Whole, Reach
  <2>9. FlattenSeq(Bodies) \o splitter.cipher = Interval(0, received)
    <3>1. Cat(Interval(0, EndOf(packets, j)), Interval(EndOf(packets, j), received)) = Interval(0, received)
      BY <1>1, <2>8, IntervalsJoin
    <3> QED BY <2>6, <2>7, <3>1, BodiesAre DEF Cat
  <2> QED BY <1>2, <2>5, <2>9 DEF StreamIsKept
<1>3. ASSUME NEW j \in 0..Len(packets), NEW rest \in Seq(Seq(Nat)), Complete(j, rest), splitter.cipher = <<>>,
             up \in {"tail", "done"} \/ splitter.disabled
      PROVE  OnePacketPerFrame /\ StreamIsKept
  <2>1. Arrived = j
    BY <1>0, <1>3, WholeIsArrived DEF Complete, IsComplete, Whole
  <2>2. Len(Contents(out)) = j + Len(rest) /\ Len(rest) \in Nat /\ j \in Nat /\ \A k \in 1..j : Contents(out)[k] = Piece(k)
    BY <1>0, <1>3, WholePieces DEF Complete, IsComplete
  <2>3. Len(Contents(out)) >= j /\ ~(up = "read" /\ ~splitter.disabled)
    BY <1>3, <2>2
  <2>4. OnePacketPerFrame
    BY <2>1, <2>2, <2>3, BodiesAre DEF OnePacketPerFrame
  <2>5. FlattenSeq(Bodies) \o splitter.cipher = Interval(0, received)
    <3>1. Interval(0, received) \in Seq(Nat)
      BY <1>1, Intervals
    <3>2. Cat(Interval(0, received), <<>>) = Interval(0, received)
      BY <3>1, Cats
    <3>3. FlattenSeq(Bodies) = Interval(0, received)
      BY <1>3, BodiesAre DEF Complete, IsComplete
    <3> QED BY <1>3, <3>2, <3>3 DEF Cat
  <2> QED BY <1>3, <2>4, <2>5 DEF StreamIsKept
<1>4. CASE up \in {"read", "drain"} /\ Off
  <2>1. PICK rest \in Seq(Seq(Nat)) : Complete(Len(packets) - 1, rest) /\ splitter = Spent(Proto)
    BY <1>4 DEF Off, IsOff, Complete
  <2>2. Len(packets) - 1 \in 0..Len(packets)
    BY <1>1
  <2>3. splitter.cipher = <<>> /\ splitter.disabled
    BY <2>1 DEF Spent, SplitterAt
  <2> QED BY <1>3, <2>1, <2>2, <2>3
<1>5. CASE up \in {"tail", "done"} /\ Over
  BY <1>3, <1>5 DEF Over, IsLate, Complete
<1> QED BY <1>0, <1>2, <1>4, <1>5

Splitting(proto, ps, j, q, r, m) ==
    /\ Client(proto, ps) /\ j \in 0..Len(ps) /\ q \in Nat /\ r \in Nat /\ EndOf(ps, j) <= q /\ q <= r
    /\ r <= Len(FlattenSeq(ps)) /\ m \in j..Len(ps) /\ Reach(proto, ps, r, m)
SplitOf(ps, sp, q, r) == Split(sp, Interval(q, r), SubSeq(FlattenSeq(ps), q + 1, r))
IsSplit(proto, ps, j, r, m, split) ==
    \/ split = [parts |-> Slices(ps, j, m), after |-> Holding(proto, ps, m, r)]
    \/ /\ m = Len(ps) - 1 /\ NextPacketLen(proto, ps[m + 1]) = 0 /\ EndOf(ps, m) < r
       /\ split = [parts |-> Append(Slices(ps, j, m), Interval(EndOf(ps, m), r)), after |-> Spent(proto)]

(* The same, with its hypotheses and its conclusion in one word each. *)
LEMMA SplitsSo ==
    ASSUME NEW proto, NEW ps, NEW j, NEW q, NEW r, NEW m, Splitting(proto, ps, j, q, r, m)
    PROVE  IsSplit(proto, ps, j, r, m, SplitOf(ps, Holding(proto, ps, j, q), q, r))
<1>1. /\ Client(proto, ps) /\ j \in 0..Len(ps) /\ q \in Nat /\ r \in Nat /\ EndOf(ps, j) <= q /\ q <= r
      /\ r <= Len(FlattenSeq(ps)) /\ m \in j..Len(ps) /\ Reach(proto, ps, r, m)
  BY DEF Splitting
<1> QED BY <1>1, SplitterCuts, ZenonT(60) DEF IsSplit, SplitOf

(* What the splitter does with the next bytes. *)
LEMMA EarlyGoes ==
    ASSUME NEW pr, NEW ps, Client(pr, ps), NEW q \in Nat, NEW r \in Nat, q <= r, r <= Len(FlattenSeq(ps)),
           NEW sp, NEW c, IsEarly(pr, ps, q, sp, c)
    PROVE  LET split == Split(sp, Interval(q, r), SubSeq(FlattenSeq(ps), q + 1, r))
           IN /\ split.parts \in Seq(Seq(Nat))
              /\ IsEarly(pr, ps, r, split.after, Cat(c, split.parts)) \/ IsOff(pr, ps, r, split.after, Cat(c, split.parts))
<1> DEFINE split == Split(sp, Interval(q, r), SubSeq(FlattenSeq(ps), q + 1, r))
           N == Len(ps)
<1>1. PICK j \in 0..N : Reach(pr, ps, q, j) /\ sp = Holding(pr, ps, j, q) /\ c = Slices(ps, 0, j)
  BY DEF IsEarly
<1>2. /\ Packed(ps) /\ N \in Nat /\ Len(FlattenSeq(ps)) \in Nat
      /\ \A k \in 0..N : EndOf(ps, k) \in Nat /\ EndOf(ps, k) <= Len(FlattenSeq(ps))
  BY EndsAre DEF Client
<1>3. EndOf(ps, j) <= q /\ (\A k \in 1..j : NextPacketLen(pr, ps[k]) = Len(ps[k]))
  BY <1>1 DEF Reach
<1>4. PICK m \in j..N : Reach(pr, ps, r, m)
  <2>1. r \in EndOf(ps, j)..Len(FlattenSeq(ps))
    BY <1>2, <1>3
  <2> QED BY <1>1, <1>3, <2>1, ReachIs
<1>5. \/ split = [parts |-> Slices(ps, j, m), after |-> Holding(pr, ps, m, r)]
      \/ /\ m = N - 1 /\ NextPacketLen(pr, ps[m + 1]) = 0 /\ EndOf(ps, m) < r
         /\ split = [parts |-> Append(Slices(ps, j, m), Interval(EndOf(ps, m), r)), after |-> Spent(pr)]
  <2>1. Splitting(pr, ps, j, q, r, m)
    BY <1>1, <1>3, <1>4 DEF Splitting
  <2>2. IsSplit(pr, ps, j, r, m, SplitOf(ps, Holding(pr, ps, j, q), q, r))
    BY <2>1, SplitsSo
  <2>3. split = SplitOf(ps, Holding(pr, ps, j, q), q, r)
    BY <1>1 DEF SplitOf
  <2> HIDE DEF split
  <2> QED BY <2>2, <2>3 DEF IsSplit
<1>6. Slices(ps, j, m) \in Seq(Seq(Nat)) /\ Cat(c, Slices(ps, j, m)) = Slices(ps, 0, m) /\ Slices(ps, 0, m) \in Seq(Seq(Nat))
      /\ m \in 0..N /\ c \in Seq(Seq(Nat))
  <2>1. m \in 0..N /\ 0 \in 0..N /\ m \in 0..N
    BY <1>2
  <2> QED BY <1>1, <1>2, <2>1, SlicesAre, SlicesGrow
<1> HIDE DEF split, N
<1>7. CASE split = [parts |-> Slices(ps, j, m), after |-> Holding(pr, ps, m, r)]
  <2>1. split.parts = Slices(ps, j, m) /\ split.after = Holding(pr, ps, m, r)
    BY <1>7
  <2>2. IsEarly(pr, ps, r, split.after, Cat(c, split.parts))
    BY <1>4, <1>6, <2>1 DEF IsEarly, N
  <2> QED BY <1>6, <2>1, <2>2 DEF split
<1>8. CASE /\ m = N - 1 /\ NextPacketLen(pr, ps[m + 1]) = 0 /\ EndOf(ps, m) < r
           /\ split = [parts |-> Append(Slices(ps, j, m), Interval(EndOf(ps, m), r)), after |-> Spent(pr)]
  <2> DEFINE a == EndOf(ps, m)
             y == Interval(a, r)
             x == Slices(ps, j, m)
             rest == <<y>>
  <2>1. split.parts = Append(x, y) /\ split.after = Spent(pr)
    BY <1>8
  <2>2. a \in Nat /\ a <= r
    BY <1>2, <1>6, <1>8
  <2> HIDE DEF a
  <2>3. y \in Seq(Nat)
    BY <2>2, Intervals
  <2>4. rest \in Seq(Seq(Nat)) /\ FlattenSeq(rest) = y
    BY <2>3, FlatOne
  <2> HIDE DEF x, y
  <2>5. Append(x, y) = Cat(x, rest) /\ Append(x, y) \in Seq(Seq(Nat))
    BY <1>6, <2>3, AppendIsConcat, AppendProperties DEF Cat, x
  <2>6. Cat(c, Cat(x, rest)) = Cat(Slices(ps, 0, m), rest)
    <3>1. Cat(Cat(c, x), rest) = Cat(c, Cat(x, rest))
      <4> HIDE DEF rest
      <4> QED BY <1>6, <2>4, Cats DEF x
    <3> QED BY <1>6, <3>1 DEF x
  <2>7. FlattenSeq(Cat(Slices(ps, 0, m), rest)) = Interval(0, r)
    <3>1. FlattenSeq(Slices(ps, 0, m)) = Interval(0, a)
      BY <1>2, <1>6, SlicesFlat DEF a, N
    <3>2. Cat(Interval(0, a), y) = Interval(0, r)
      BY <2>2, IntervalsJoin DEF y
    <3>3. FlattenSeq(Slices(ps, 0, m) \o rest) = Cat(FlattenSeq(Slices(ps, 0, m)), FlattenSeq(rest))
      <4> HIDE DEF rest
      <4> QED BY <1>6, <2>4, FlatCat
    <3> QED BY <2>4, <3>1, <3>2, <3>3 DEF Cat
  <2>8. IsComplete(pr, ps, r, Cat(c, split.parts), m, rest)
    <3> HIDE DEF rest
    <3> QED BY <1>4, <2>1, <2>4, <2>5, <2>6, <2>7 DEF IsComplete
  <2>9. m + 1 = N
    BY <1>2, <1>8
  <2>10. IsOff(pr, ps, r, split.after, Cat(c, split.parts))
    <3> HIDE DEF rest
    <3> QED BY <1>8, <2>1, <2>4, <2>8, <2>9 DEF IsOff, N
  <2> QED BY <2>1, <2>5, <2>10 DEF split
<1> QED BY <1>5, <1>7, <1>8

(* A splitter that gave up lets everything pass. *)
LEMMA OffGoes ==
    ASSUME NEW pr, NEW ps, Client(pr, ps), Len(ps) >= 1, NEW q \in Nat, NEW r \in Nat, q <= r, r <= Len(FlattenSeq(ps)),
           NEW sp, NEW c \in Seq(Seq(Nat)), IsOff(pr, ps, q, sp, c)
    PROVE  LET split == Split(sp, Interval(q, r), SubSeq(FlattenSeq(ps), q + 1, r))
           IN split.parts \in Seq(Seq(Nat)) /\ IsOff(pr, ps, r, split.after, Cat(c, split.parts))
<1> DEFINE y == Interval(q, r)
           split == Split(sp, y, SubSeq(FlattenSeq(ps), q + 1, r))
           N == Len(ps)
           m == N - 1
           x == Slices(ps, 0, m)
           next == <<y>>
<1>1. PICK rest \in Seq(Seq(Nat)) : IsComplete(pr, ps, q, c, m, rest) /\ sp = Spent(pr) /\ NextPacketLen(pr, ps[N]) = 0
  BY DEF IsOff
<1>2. /\ Packed(ps) /\ N \in Nat /\ m \in 0..N /\ 0 \in 0..N /\ m + 1 = N
      /\ \A k \in 0..N : EndOf(ps, k) \in Nat
  BY EndsAre DEF Client
<1>3. Reach(pr, ps, q, m) /\ c = Cat(x, rest) /\ FlattenSeq(c) = Interval(0, q)
  BY <1>1 DEF IsComplete
<1>4. split = [parts |-> <<y>>, after |-> sp]
  <2>1. sp.disabled = TRUE
    BY <1>1 DEF Spent, SplitterAt
  <2> HIDE DEF y
  <2> QED BY <2>1 DEF Split
<1>5. split.parts = next /\ split.after = Spent(pr)
  <2> HIDE DEF split
  <2> QED BY <1>1, <1>4
<1>6. y \in Seq(Nat)
  BY Intervals
<1>7. next \in Seq(Seq(Nat)) /\ FlattenSeq(next) = y
  BY <1>6, FlatOne
<1>8. x \in Seq(Seq(Nat))
  <2> HIDE DEF m
  <2> QED BY <1>2, SlicesAre
<1> HIDE DEF y, next, x, split, m, N
<1>9. Cat(c, next) = Cat(x, Cat(rest, next)) /\ Cat(rest, next) \in Seq(Seq(Nat))
  BY <1>3, <1>7, <1>8, Cats
<1>10. FlattenSeq(Cat(c, next)) = Interval(0, r)
  <2>1. FlattenSeq(c \o next) = Cat(FlattenSeq(c), FlattenSeq(next))
    BY <1>7, FlatCat
  <2>2. Cat(Interval(0, q), y) = Interval(0, r)
    BY IntervalsJoin DEF y
  <2> QED BY <1>3, <1>7, <2>1, <2>2 DEF Cat
<1>11. Reach(pr, ps, r, m)
  <2>1. EndOf(ps, m) <= q /\ EndOf(ps, m) \in Nat
    BY <1>2, <1>3 DEF Reach
  <2>2. EndOf(ps, m) <= r
    BY <2>1
  <2> QED BY <1>1, <1>2, <1>3, <2>2 DEF Reach, N
<1>12. IsComplete(pr, ps, r, Cat(c, next), m, Cat(rest, next))
  BY <1>9, <1>10, <1>11 DEF IsComplete, x
<1>13. IsOff(pr, ps, r, split.after, Cat(c, split.parts))
  BY <1>1, <1>5, <1>9, <1>12 DEF IsOff, m, N
<1> QED BY <1>5, <1>7, <1>13 DEF split, y

(* The buffers of a splitter, emptied. *)
LEMMA SplitterEmpties ==
    \A p, c, b, d, e : Emptying(SplitterAt(p, c, b, d), e, e) = SplitterAt(p, e, e, d)
<1>1. ASSUME NEW p, NEW c, NEW b, NEW d, NEW e PROVE Emptying(SplitterAt(p, c, b, d), e, e) = SplitterAt(p, e, e, d)
  <2>1. /\ Cutting(SplitterAt(p, c, b, d), e, e, d) = SplitterAt(p, e, e, d)
        /\ Emptying(SplitterAt(p, c, b, d), e, e) = SplitterAt(p, e, e, d)
    BY SplitterPuts
  <2> QED BY <2>1
<1> QED BY <1>1

(* The two buffers hold the same bytes, encrypted and not. *)
Twins(ps, sp) == sp.plain = [i \in 1..Len(sp.cipher) |-> FlattenSeq(ps)[sp.cipher[i]]]
LEMMA TwinsEmpty == \A ps, pr, d : Twins(ps, SplitterAt(pr, <<>>, <<>>, d))
<1>1. Len(<<>>) = 0
  OBVIOUS
<1>2. \A ps : [i \in 1..0 |-> FlattenSeq(ps)[<<>>[i]]] = <<>>
  OBVIOUS
<1>3. \A pr, d : SplitterAt(pr, <<>>, <<>>, d).cipher = <<>> /\ SplitterAt(pr, <<>>, <<>>, d).plain = <<>>
  BY DEF SplitterAt
<1> QED BY <1>1, <1>2, <1>3 DEF Twins

(* So they do while the splitter waits, and when it gave up. *)
LEMMA TwinsWait ==
    ASSUME NEW pr, NEW ps, Client(pr, ps), NEW r \in Nat, r <= Len(FlattenSeq(ps)), NEW sp, NEW c,
           IsEarly(pr, ps, r, sp, c) \/ IsOff(pr, ps, r, sp, c)
    PROVE  Twins(ps, sp)
<1>1. CASE IsEarly(pr, ps, r, sp, c)
  <2>1. PICK j \in 0..Len(ps) : Reach(pr, ps, r, j) /\ sp = Holding(pr, ps, j, r)
    BY <1>1 DEF IsEarly
  <2> DEFINE a == EndOf(ps, j)
             x == Interval(a, r)
             b == Buffered(ps, j, r)
             T == FlattenSeq(ps)
  <2>2. a \in Nat /\ a <= r /\ r \in a..Len(T)
    BY <2>1, EndsAre DEF Reach, Client
  <2>3. b \in Seq(Nat) /\ Len(b) = r - a /\ \A i \in 1..(r - a) : b[i] = T[a + i]
    BY <2>2, Buffers DEF Client
  <2>4. x \in Seq(Nat) /\ Len(x) = r - a /\ \A i \in 1..(r - a) : x[i] = a + i
    <3> HIDE DEF a
    <3> QED BY <2>2, Intervals
  <2>5. sp.cipher = x /\ sp.plain = b
    BY <2>1 DEF Holding, SplitterAt
  <2> HIDE DEF a, x, b, T
  <2>6. b = [i \in 1..(r - a) |-> b[i]]
    BY <2>3, LenProperties
  <2>7. b = [i \in 1..Len(x) |-> T[x[i]]]
    BY <2>3, <2>4, <2>6
  <2> QED BY <2>5, <2>7 DEF Twins, T
<1>2. CASE IsOff(pr, ps, r, sp, c)
  BY <1>2, TwinsEmpty DEF IsOff, Spent
<1> QED BY <1>1, <1>2

(* What the splitter lets go of at the end. *)
LEMMA FlushGoes ==
    ASSUME NEW pr, NEW ps, Client(pr, ps), Len(ps) >= 1, NEW r \in Nat, r <= Len(FlattenSeq(ps)),
           NEW sp, NEW c, c \in Seq(Seq(Nat)), IsEarly(pr, ps, r, sp, c) \/ IsOff(pr, ps, r, sp, c)
    PROVE  /\ Flush(sp).parts \in Seq(Seq(Nat)) /\ Flush(sp).after.proto = pr /\ Twins(ps, Flush(sp).after)
           /\ IsLate(pr, ps, r, Flush(sp).after, Cat(c, Flush(sp).parts))
<1> DEFINE N == Len(ps)
           parts == Flush(sp).parts
           after == Flush(sp).after
<1>1. /\ Packed(ps) /\ N \in Nat /\ N - 1 \in 0..N /\ \A k \in 0..N : EndOf(ps, k) \in Nat
  BY EndsAre DEF Client
<1>2. parts = IF sp.cipher = <<>> THEN <<>> ELSE <<sp.cipher>>
  BY DEF Flush
<1>3. after = Emptying(sp, <<>>, <<>>)
  BY DEF Flush, Emptying
<1> HIDE DEF parts, after
<1>4. CASE IsEarly(pr, ps, r, sp, c)
  <2>1. PICK j \in 0..N : Reach(pr, ps, r, j) /\ sp = Holding(pr, ps, j, r) /\ c = Slices(ps, 0, j)
    BY <1>4 DEF IsEarly
  <2> DEFINE a == EndOf(ps, j)
             x == Interval(a, r)
  <2>2. a \in Nat /\ a <= r /\ 0 \in 0..N /\ j \in 0..N
    BY <1>1, <2>1 DEF Reach
  <2>3. sp.cipher = x
    BY <2>1 DEF Holding, SplitterAt
  <2>4. after = SplitterAt(pr, <<>>, <<>>, FALSE)
    <3>1. sp = SplitterAt(pr, x, Buffered(ps, j, r), FALSE)
      BY <2>1 DEF Holding
    <3> DEFINE d == FALSE
               e == <<>>
               b == Buffered(ps, j, r)
    <3>2. after = Emptying(SplitterAt(pr, x, b, d), e, e)
      BY <1>3, <3>1
    <3> HIDE DEF x, b, d, e
    <3>3. Emptying(SplitterAt(pr, x, b, d), e, e) = SplitterAt(pr, e, e, d)
      BY SplitterEmpties
    <3> QED BY <3>2, <3>3 DEF d, e
  <2>5. x \in Seq(Nat) /\ Cat(Interval(0, a), x) = Interval(0, r)
    <3> DEFINE o == 0
    <3>1. o \in Nat /\ o <= a
      BY <2>2
    <3> HIDE DEF a, o
    <3>2. Cat(Interval(o, a), Interval(a, r)) = Interval(o, r)
      BY <2>2, <3>1, IntervalsJoin
    <3>3. Interval(a, r) \in Seq(Nat)
      BY <2>2, Intervals
    <3> QED BY <3>2, <3>3 DEF o
  <2>6. FlattenSeq(c) = Interval(0, a)
    BY <1>1, <2>1, SlicesFlat
  <2> HIDE DEF a, x, N
  <2>7. parts \in Seq(Seq(Nat)) /\ FlattenSeq(parts) = x
    <3>1. CASE x = <<>>
      <4>1. FlattenSeq(<<>>) = <<>>
        <5>1. Len(<<>>) = 0
          OBVIOUS
        <5> QED BY <5>1 DEF FlattenSeq
      <4> QED BY <1>2, <2>3, <3>1, <4>1, EmptySeq
    <3>2. CASE x # <<>>
      <4>1. parts = <<x>>
        BY <1>2, <2>3, <3>2
      <4> QED BY <2>5, <4>1, FlatOne
    <3> QED BY <3>1, <3>2
  <2>8. FlattenSeq(Cat(c, parts)) = Interval(0, r)
    <3>1. FlattenSeq(c \o parts) = Cat(FlattenSeq(c), FlattenSeq(parts))
      BY <2>7, FlatCat
    <3> QED BY <2>5, <2>6, <2>7, <3>1 DEF Cat
  <2>9. IsComplete(pr, ps, r, Cat(c, parts), j, parts)
    BY <2>1, <2>7, <2>8 DEF IsComplete
  <2>10. after.cipher = <<>> /\ after.proto = pr
    BY <2>4 DEF SplitterAt
  <2>11. IsLate(pr, ps, r, after, Cat(c, parts))
    BY <2>1, <2>7, <2>9, <2>10 DEF IsLate, N
  <2>12. Twins(ps, after)
    BY <2>4, TwinsEmpty
  <2> QED BY <2>7, <2>10, <2>11, <2>12 DEF parts, after
<1>5. CASE IsOff(pr, ps, r, sp, c)
  <2>1. PICK rest \in Seq(Seq(Nat)) : IsComplete(pr, ps, r, c, N - 1, rest) /\ sp = Spent(pr)
    BY <1>5 DEF IsOff
  <2>2. sp.cipher = <<>>
    BY <2>1 DEF Spent, SplitterAt
  <2>3. after = SplitterAt(pr, <<>>, <<>>, TRUE)
    <3> DEFINE d == TRUE
               e == <<>>
    <3>1. after = Emptying(SplitterAt(pr, e, e, d), e, e)
      BY <1>3, <2>1 DEF Spent
    <3> HIDE DEF d, e
    <3>2. Emptying(SplitterAt(pr, e, e, d), e, e) = SplitterAt(pr, e, e, d)
      BY SplitterEmpties
    <3> QED BY <3>1, <3>2 DEF d, e
  <2>4. parts = <<>> /\ <<>> \in Seq(Seq(Nat)) /\ Cat(c, <<>>) = c
    BY <1>2, <2>2, Cats
  <2>5. after.cipher = <<>> /\ after.proto = pr
    BY <2>3 DEF SplitterAt
  <2>6. IsLate(pr, ps, r, after, Cat(c, parts))
    BY <1>1, <2>1, <2>4, <2>5 DEF IsLate
  <2>7. Twins(ps, after)
    BY <2>3, TwinsEmpty
  <2> QED BY <2>4, <2>5, <2>6, <2>7 DEF parts, after
<1> QED BY <1>4, <1>5

(* The direction to the peer, step by step.  What it writes when it may: *)
LEMMA UpSends ==
    ASSUME UpInv, ~failed, NEW parts \in Seq(Seq(Nat)), NEW next \in {"drain", "tail"}, Send(parts, next),
           packets' = packets, received' \in Nat, received' <= Len(Stream), splitter'.proto = Proto,
           next = "drain" => \/ IsEarly(Proto, packets, received', splitter', Cat(Contents(out), parts))
                             \/ IsOff(Proto, packets, received', splitter', Cat(Contents(out), parts)),
           next = "tail" => IsLate(Proto, packets, received', splitter', Cat(Contents(out), parts))
    PROVE  UpInv'
<1>1. UpShape /\ out \in Seq(Frames)
  BY DEF UpInv
<1>2. UpShape'
  BY <1>1 DEF UpShape, Proto, Stream
<1>3. CASE ~wsClosed /\ out' = out \o Data(parts) /\ up' = next /\ UNCHANGED failed
  <2>1. Data(parts) \in Seq(Frames) /\ Contents(Data(parts)) = parts
    BY ContentsData
  <2>2. out \o Data(parts) \in Seq(Frames)
    BY <1>1, <2>1, ConcatProperties
  <2>3. Contents(out \o Data(parts)) = Cat(Contents(out), Contents(Data(parts)))
    BY <1>1, <2>1, ContentsCat
  <2>4. out' \in Seq(Frames) /\ Contents(out') = Cat(Contents(out), parts)
    BY <1>3, <2>1, <2>2, <2>3
  <2>5. Proto' = Proto
    BY DEF Proto
  <2>6. up' = "drain" => Early' \/ Off'
    BY <1>3, <2>4, <2>5 DEF Early, Off
  <2>7. up' = "tail" => Over'
    BY <1>3, <2>4, <2>5 DEF Over
  <2>8. up' \in {"drain", "tail"} /\ failed' = FALSE
    BY <1>3
  <2> QED BY <1>2, <2>4, <2>6, <2>7, <2>8 DEF UpInv
<1>4. CASE wsClosed /\ up' = "done" /\ failed' = TRUE /\ UNCHANGED out
  BY <1>1, <1>4 DEF UpInv
<1> QED BY <1>3, <1>4 DEF Send

Emitted == \/ out' = out
           \/ ~wsClosed /\ \E x \in Seq(Frames) : out' = out \o x /\ \A i \in 1..Len(x) : x[i].op = "data"
(* What is sent is data, and nothing is sent after the close. *)
LEMMA SendWrites == ASSUME NEW parts \in Seq(Seq(Nat)), NEW next, Send(parts, next) PROVE Emitted
<1>1. Data(parts) \in Seq(Frames)
  BY ContentsData
<1>2. \A i \in 1..Len(Data(parts)) : Data(parts)[i].op = "data"
  <2>1. Len(parts) \in Nat /\ Len(Data(parts)) = Len(parts)
    BY LenProperties DEF Data
  <2>2. \A i \in 1..Len(parts) : Data(parts)[i].op = "data"
    BY DEF Data, Frame
  <2> QED BY <2>1, <2>2
<1> QED BY <1>1, <1>2 DEF Send, Emitted

(* A chunk of the stream is read, cut at the packets and sent. *)
LEMMA UpReads == ASSUME UpInv, ReadChunk PROVE UpInv' /\ Emitted /\ Twins(packets, splitter')
<1>1. /\ UpShape /\ out \in Seq(Frames) /\ ~failed /\ (Early \/ Off) /\ up = "read"
  BY DEF UpInv, ReadChunk
<1>2. PICK n \in 1..(Len(Stream) - received) :
         LET split == Split(splitter, Interval(received, received + n), SubSeq(Stream, received + 1, received + n))
         IN /\ received' = received + n /\ splitter' = split.after
            /\ IF split.parts = <<>> THEN UNCHANGED <<up, out, failed>> ELSE Send(split.parts, "drain")
  BY DEF ReadChunk
<1> DEFINE r == received + n
           sp == splitter
           c == Contents(out)
           split == SplitOf(packets, splitter, received, r)
           parts == split.parts
           after == split.after
<1>3. /\ received' = r /\ splitter' = after
      /\ IF parts = <<>> THEN UNCHANGED <<up, out, failed>> ELSE Send(parts, "drain")
  BY <1>2 DEF SplitOf, Stream
<1>4. /\ Client(Proto, packets) /\ Len(packets) >= 1 /\ received \in Nat /\ received <= Len(Stream)
  BY <1>1, Clients DEF UpShape
<1>5. Len(Stream) \in Nat
  BY <1>4, EndsAre DEF Client, Stream
<1>6. r \in Nat /\ received <= r /\ r <= Len(Stream)
  BY <1>4, <1>5
<1>7. c \in Seq(Seq(Nat)) /\ Cat(c, <<>>) = c
  BY <1>1, Contained, Cats
<1> HIDE DEF r
<1>8. parts \in Seq(Seq(Nat))
      /\ (IsEarly(Proto, packets, r, after, Cat(c, parts)) \/ IsOff(Proto, packets, r, after, Cat(c, parts)))
  <2>1. CASE Early
    <3>1. IsEarly(Proto, packets, received, splitter, c)
      BY <2>1 DEF Early
    <3> HIDE DEF c
    <3> QED BY <1>4, <1>6, <3>1, EarlyGoes, Zenon DEF SplitOf, Stream
  <2>2. CASE Off
    <3>1. IsOff(Proto, packets, received, splitter, c)
      BY <2>2 DEF Off
    <3> HIDE DEF c
    <3> QED BY <1>4, <1>6, <1>7, <3>1, OffGoes, Zenon DEF SplitOf, Stream
  <2> QED BY <1>1, <2>1, <2>2
<1> HIDE DEF split, c
<1>9. after.proto = Proto
  <2>1. \A k : Holding(Proto, packets, k, r).proto = Proto
    BY DEF Holding, SplitterAt
  <2>2. Spent(Proto).proto = Proto
    BY DEF Spent, SplitterAt
  <2> QED BY <1>8, <2>1, <2>2 DEF IsEarly, IsOff
<1>10. packets' = packets
  BY DEF ReadChunk
<1>11. Twins(packets, splitter')
  <2>1. Twins(packets, after)
    <3> HIDE DEF parts
    <3> QED BY <1>4, <1>6, <1>8, TwinsWait DEF Stream
  <2> QED BY <1>3, <2>1
<1> HIDE DEF parts, after
<1>12. CASE parts = <<>>
  <2>1. UNCHANGED <<up, out, failed>>
    BY <1>3, <1>12
  <2>2. UpShape'
    BY <1>1, <1>3, <1>6, <1>9, <1>10 DEF UpShape, Proto, Stream
  <2>3. Contents(out') = Cat(c, parts) /\ Proto' = Proto
    BY <1>3, <1>7, <1>9, <1>12, <2>1 DEF c, Proto
  <2>4. Early' \/ Off'
    BY <1>3, <1>8, <1>10, <2>3 DEF Early, Off
  <2>5. UpInv'
    BY <1>1, <2>1, <2>2, <2>4 DEF UpInv
  <2> QED BY <1>11, <2>1, <2>5 DEF Emitted
<1>13. CASE parts # <<>>
  <2>1. Send(parts, "drain")
    BY <1>3, <1>13
  <2>2. received' \in Nat /\ received' <= Len(Stream) /\ splitter'.proto = Proto
    BY <1>3, <1>6, <1>9
  <2>3. \/ IsEarly(Proto, packets, received', splitter', Cat(Contents(out), parts))
        \/ IsOff(Proto, packets, received', splitter', Cat(Contents(out), parts))
    BY <1>3, <1>8 DEF c
  <2>4. Emitted
    BY <1>8, <2>1, SendWrites
  <2> QED BY <1>1, <1>8, <1>10, <1>11, <2>1, <2>2, <2>3, <2>4, UpSends
<1> QED BY <1>12, <1>13, <1>11

(* The client ended its stream: what waited is sent. *)
LEMMA UpEnds == ASSUME UpInv, ReadEnd PROVE UpInv' /\ Emitted /\ Twins(packets, splitter')
<1> DEFINE c == Contents(out)
           parts == Flush(splitter).parts
           after == Flush(splitter).after
<1>1. /\ UpShape /\ out \in Seq(Frames) /\ ~failed /\ (Early \/ Off) /\ up = "read"
  BY DEF UpInv, ReadEnd
<1>2. /\ splitter' = after /\ packets' = packets /\ received' = received
      /\ IF parts = <<>> THEN up' = "done" /\ UNCHANGED <<out, failed>> ELSE Send(parts, "tail")
  BY DEF ReadEnd
<1>3. /\ Client(Proto, packets) /\ Len(packets) >= 1 /\ received \in Nat /\ received <= Len(Stream)
  BY <1>1, Clients DEF UpShape
<1>4. c \in Seq(Seq(Nat)) /\ Cat(c, <<>>) = c
  BY <1>1, Contained, Cats
<1>5. IsEarly(Proto, packets, received, splitter, c) \/ IsOff(Proto, packets, received, splitter, c)
  BY <1>1 DEF Early, Off
<1> HIDE DEF c
<1>6. parts \in Seq(Seq(Nat)) /\ Twins(packets, after) /\ after.proto = Proto /\ IsLate(Proto, packets, received, after, Cat(c, parts))
  BY <1>3, <1>4, <1>5, FlushGoes DEF Stream
<1> HIDE DEF parts, after
<1>7. Twins(packets, splitter')
  BY <1>2, <1>6
<1>8. CASE parts = <<>>
  <2>1. up' = "done" /\ UNCHANGED <<out, failed>>
    BY <1>2, <1>8
  <2>2. UpShape'
    BY <1>1, <1>2, <1>6 DEF UpShape, Proto, Stream
  <2>3. Contents(out') = Cat(c, parts) /\ Proto' = Proto
    BY <1>2, <1>4, <1>6, <1>8, <2>1 DEF c, Proto
  <2>4. Over'
    BY <1>2, <1>6, <2>3 DEF Over
  <2>5. UpInv'
    BY <1>1, <2>1, <2>2, <2>4 DEF UpInv
  <2> QED BY <1>7, <2>1, <2>5 DEF Emitted
<1>9. CASE parts # <<>>
  <2>1. Send(parts, "tail")
    BY <1>2, <1>9
  <2>2. received' \in Nat /\ received' <= Len(Stream) /\ splitter'.proto = Proto
    BY <1>2, <1>3, <1>6
  <2>3. IsLate(Proto, packets, received', splitter', Cat(Contents(out), parts))
    BY <1>2, <1>6 DEF c
  <2>4. Emitted
    BY <1>6, <2>1, SendWrites
  <2> QED BY <1>1, <1>2, <1>6, <1>7, <2>1, <2>2, <2>3, <2>4, UpSends
<1> QED BY <1>8, <1>9, <1>7

(* The stream, the splitter and what was sent stay as they are. *)
UpSame == UNCHANGED <<packets, received, splitter>> /\ out' \in Seq(Frames) /\ Contents(out') = Contents(out)
(* Such a step leaves this direction as it was, or ends it. *)
LEMMA UpStays ==
    ASSUME UpInv, UpSame, up' \in {"read", "drain", "tail", "done"}, failed' \in BOOLEAN, failed' => up' = "done",
           ~failed' => /\ ~failed /\ (up' \in {"read", "drain"} => up \in {"read", "drain"})
                       /\ (up' \in {"tail", "done"} => up \in {"tail", "done"})
    PROVE  UpInv'
<1>1. CASE failed'
  BY <1>1 DEF UpInv, UpSame
<1>2. CASE ~failed'
  <2>1. UpShape' = UpShape /\ Early' = Early /\ Off' = Off /\ Over' = Over
    BY DEF UpSame, UpShape, Early, Off, Over, Proto, Stream
  <2>2. UpShape /\ (up \in {"read", "drain"} => Early \/ Off) /\ (up \in {"tail", "done"} => Over)
    BY <1>2 DEF UpInv
  <2> QED BY <1>2, <2>1, <2>2 DEF UpInv, UpSame
<1> QED BY <1>1, <1>2

(* NoScores was read: the splitter waits at the beginning. *)
LEMMA UpBegins == ASSUME BridgeInit PROVE UpInv
<1>1. PICK p \in DOMAIN Transport : splitter = NewSplitter(p) /\ packets \in Streams(p)
  BY DEF BridgeInit
<1>2. received = 0 /\ up = "read" /\ out = <<>> /\ failed = FALSE
  BY DEF BridgeInit, BridgeBegins
<1>3. Client(p, packets) /\ Len(packets) \in Nat /\ Len(packets) >= 1
  BY <1>1, Clients
<1>4. Packed(packets) /\ Len(Stream) \in Nat /\ EndOf(packets, 0) = 0 /\ Stream \in Seq(Nat)
  BY <1>3, EndsAre, FlatCat DEF Client, Stream, Packed
<1>5. Proto = p
  BY <1>1 DEF Proto, NewSplitter
<1>6. UpShape
  BY <1>1, <1>2, <1>4, <1>5 DEF UpShape
<1>7. out \in Seq(Frames) /\ Contents(out) = <<>>
  <2>1. Len(<<>>) = 0 /\ <<>> \in Seq(Frames)
    OBVIOUS
  <2>2. FlattenSeq(<<>>) = <<>>
    BY <2>1 DEF FlattenSeq
  <2>3. [i \in 1..0 |-> Part(<<>>[i])] = <<>>
    OBVIOUS
  <2>4. Contents(<<>>) = <<>>
    BY <2>1, <2>2, <2>3 DEF Contents
  <2> QED BY <1>2, <2>1, <2>4
<1>8. Slices(packets, 0, 0) = <<>>
  <2>1. 0 - 0 = 0
    OBVIOUS
  <2>2. [i \in 1..0 |-> Interval(EndOf(packets, 0 + i - 1), EndOf(packets, 0 + i))] = <<>>
    OBVIOUS
  <2> QED BY <2>1, <2>2 DEF Slices
<1>9. splitter = Holding(p, packets, 0, 0)
  <2>1. Interval(0, 0) = <<>>
    <3>1. 0 - 0 = 0
      OBVIOUS
    <3>2. [i \in 1..0 |-> 0 + i] = <<>>
      OBVIOUS
    <3> QED BY <3>1, <3>2 DEF Interval
  <2>2. Buffered(packets, 0, 0) = <<>>
    <3>1. SubSeq(Stream, 1, 0) = <<>>
      BY <1>4, SubSeqEmpty
    <3>2. 0 + 1 = 1
      OBVIOUS
    <3> QED BY <1>4, <3>1, <3>2 DEF Buffered, Stream
  <2> QED BY <1>1, <1>4, <2>1, <2>2 DEF Holding, SplitterAt, NewSplitter
<1>10. Reach(p, packets, 0, 0)
  <2>1. CASE Len(packets) > 0
    <3>1. 1 \in 1..Len(packets) /\ 0 \in 0..Len(packets) /\ 1 \in 0..Len(packets)
      BY <1>3
    <3>2. EndOf(packets, 0) < EndOf(packets, 1)
      <4>1. \A k \in 0..Len(packets) : \A i \in 0..Len(packets) : i < k => EndOf(packets, i) < EndOf(packets, k)
        BY <1>4, EndsGrow DEF Packed
      <4> QED BY <3>1, <4>1
    <3> QED BY <1>3, <1>4, <3>1, <3>2 DEF Reach
  <2> QED BY <1>3, <2>1
<1>11. Early
  <2>1. 0 \in 0..Len(packets)
    BY <1>3
  <2> QED BY <1>2, <1>5, <1>7, <1>8, <1>9, <1>10, <2>1 DEF Early, IsEarly
<1> QED BY <1>2, <1>6, <1>7, <1>11 DEF UpInv

(* The direction to the client. *)
Series(n, v) == [i \in 1..n |-> v]
(* The bytes of a message, which all are its number. *)
LEMMA Repeats ==
    ASSUME NEW m \in Nat, NEW n \in Nat, NEW v \in Nat
    PROVE  /\ Series(m, v) \in Seq(Nat) /\ Len(Series(m, v)) = m /\ (Series(m, v) = <<>> <=> m = 0)
           /\ Series(m, v) \o Series(n, v) = Series(m + n, v)
<1>1. ASSUME NEW k \in Nat PROVE Series(k, v) \in Seq(Nat) /\ Len(Series(k, v)) = k /\ \A i \in 1..k : Series(k, v)[i] = v
  <2>1. Series(k, v) \in Seq(Nat)
    BY IsASeq DEF Series
  <2>2. Len(Series(k, v)) = k
    BY DEF Series
  <2> QED BY <2>1, <2>2 DEF Series
<1> DEFINE x == Series(m, v)
           y == Series(n, v)
<1>2. x \in Seq(Nat) /\ y \in Seq(Nat) /\ Len(x) = m /\ Len(y) = n /\ (\A i \in 1..m : x[i] = v) /\ (\A i \in 1..n : y[i] = v)
  BY <1>1
<1> HIDE DEF x, y
<1>3. x \o y \in Seq(Nat) /\ Len(x \o y) = m + n /\ \A i \in 1..(m + n) : (x \o y)[i] = IF i <= m THEN x[i] ELSE y[i - m]
  BY <1>2, ConcatProperties
<1>4. ASSUME NEW i \in 1..(m + n) PROVE (x \o y)[i] = v
  <2>1. CASE i <= m
    BY <1>2, <1>3, <2>1
  <2>2. CASE ~(i <= m)
    <3>1. i - m \in 1..n
      BY <2>2
    <3> QED BY <1>2, <1>3, <2>2, <3>1
  <2> QED BY <2>1, <2>2
<1>5. x \o y = [i \in 1..(m + n) |-> (x \o y)[i]]
  BY <1>3, LenProperties
<1>6. x \o y = Series(m + n, v)
  BY <1>4, <1>5 DEF Series
<1>7. x = <<>> <=> m = 0
  BY <1>2, EmptySeq
<1> QED BY <1>2, <1>6, <1>7 DEF x, y

(* Their type and length. *)
LEMMA RepeatIs ==
    ASSUME NEW n \in Nat, NEW v \in Nat
    PROVE  Series(n, v) \in Seq(Nat) /\ Len(Series(n, v)) = n /\ (Series(n, v) = <<>> <=> n = 0)
BY Repeats

(* A fragment after what was there. *)
LEMMA RepeatJoin == \A m \in Nat, n \in Nat, v \in Nat : Series(m, v) \o Series(n, v) = Series(m + n, v)
BY Repeats

(* An empty message. *)
LEMMA RepeatNone == \A v : Series(0, v) = <<>>
BY DEF Series

DownInv == /\ begun \in Nat /\ messages \in Seq(Nat) /\ delivered \in Seq(Seq(Nat))
           /\ MessagesAreWhole
           /\ down # "done" => frag = Series(begun, Len(messages) + 1) /\ begun <= MaxMessage

(* NoScores was delivered. *)
LEMMA DownBegins == ASSUME BridgeInit PROVE DownInv
<1>1. begun = 0 /\ messages = <<>> /\ delivered = <<>> /\ frag = <<>>
  BY DEF BridgeInit, BridgeBegins
<1>2. Len(<<>>) = 0 /\ <<>> \in Seq(Nat) /\ <<>> \in Seq(Seq(Nat))
  OBVIOUS
<1>3. Series(0, 1) = <<>>
  BY Repeats
<1>4. MaxMessage \in Nat
  BY BridgeAssumption
<1> QED BY <1>1, <1>2, <1>3, <1>4 DEF DownInv, MessagesAreWhole

Holds(k, n) == n <= MaxMessage /\ delivered' = Append(delivered, Series(n, k)) /\ messages' = Append(messages, n)
(* One more message was delivered. *)
LEMMA Delivers ==
    ASSUME DownInv, down # "done", NEW n \in Nat, Holds(Len(messages) + 1, n), frag' = <<>>, begun' = 0
    PROVE  DownInv'
<1> DEFINE k == Len(messages)
           x == Series(n, k + 1)
<1>1. /\ messages \in Seq(Nat) /\ delivered \in Seq(Seq(Nat)) /\ Len(delivered) = k /\ k \in Nat
      /\ \A i \in 1..k : messages[i] <= MaxMessage /\ delivered[i] = Series(messages[i], i)
  <2>1. Len(messages) \in Nat
    BY LenProperties DEF DownInv
  <2> QED BY <2>1 DEF DownInv, MessagesAreWhole, Series
<1>2. x \in Seq(Nat)
  <2> DEFINE v == k + 1
  <2>1. v \in Nat
    BY <1>1
  <2> HIDE DEF v
  <2>2. Series(n, v) \in Seq(Nat)
    BY <2>1, RepeatIs
  <2> QED BY <2>2 DEF v
<1>3. delivered' = Append(delivered, x) /\ messages' = Append(messages, n) /\ n <= MaxMessage
  BY DEF Holds
<1> HIDE DEF x, k
<1>4. /\ delivered' \in Seq(Seq(Nat)) /\ Len(delivered') = k + 1 /\ delivered'[k + 1] = x
      /\ \A i \in 1..k : delivered'[i] = delivered[i]
  BY <1>1, <1>2, <1>3, AppendProperties
<1>5. /\ messages' \in Seq(Nat) /\ Len(messages') = k + 1 /\ messages'[k + 1] = n
      /\ \A i \in 1..k : messages'[i] = messages[i]
  BY <1>1, <1>3, AppendProperties DEF k
<1>6. ASSUME NEW i \in 1..(k + 1) PROVE messages'[i] <= MaxMessage /\ delivered'[i] = Series(messages'[i], i)
  <2>1. CASE i \in 1..k
    BY <1>1, <1>4, <1>5, <2>1
  <2>2. CASE i = k + 1
    BY <1>3, <1>4, <1>5, <2>2 DEF x
  <2> QED BY <1>1, <2>1, <2>2
<1>7. MessagesAreWhole'
  BY <1>1, <1>4, <1>5, <1>6 DEF MessagesAreWhole, Series
<1>8. Series(0, Len(messages') + 1) = <<>>
  BY RepeatNone
<1>9. MaxMessage \in Nat
  BY BridgeAssumption
<1> QED BY <1>4, <1>5, <1>7, <1>8, <1>9 DEF DownInv

(* NoScores was delivered: a fragment more, or the message is too large. *)
LEMMA Fragments ==
    ASSUME DownInv, down # "done", delivered' = delivered, begun' \in Nat,
           messages' = messages \/ (down' = "done" /\ \E n \in Nat : messages' = Append(messages, n)),
           down' # "done" => frag' = Series(begun', Len(messages) + 1) /\ begun' <= MaxMessage
    PROVE  DownInv'
<1>1. /\ messages \in Seq(Nat) /\ delivered \in Seq(Seq(Nat)) /\ Len(messages) \in Nat
  BY LenProperties DEF DownInv
<1>2. messages' \in Seq(Nat) /\ Len(messages') >= Len(messages) /\ Len(messages') \in Nat
      /\ \A i \in 1..Len(messages) : messages'[i] = messages[i]
  <2>1. CASE messages' = messages
    BY <1>1, <2>1
  <2>2. CASE \E n \in Nat : messages' = Append(messages, n)
    <3>1. PICK n \in Nat : messages' = Append(messages, n)
      BY <2>2
    <3>2. /\ Append(messages, n) \in Seq(Nat) /\ Len(Append(messages, n)) = Len(messages) + 1
          /\ \A i \in 1..Len(messages) : Append(messages, n)[i] = messages[i]
      BY <1>1, AppendProperties
    <3> QED BY <1>1, <3>1, <3>2
  <2> QED BY <2>1, <2>2
<1>3. Len(delivered) = Len(messages)
  BY DEF DownInv, MessagesAreWhole
<1>4. \A i \in 1..Len(delivered) : i <= Len(messages) /\ messages[i] <= MaxMessage /\ delivered[i] = [h \in 1..messages[i] |-> i]
  BY DEF DownInv, MessagesAreWhole
<1>5. \A i \in 1..Len(delivered') : i <= Len(messages') /\ messages'[i] <= MaxMessage /\ delivered'[i] = [h \in 1..messages'[i] |-> i]
  <2>1. ASSUME NEW i \in 1..Len(delivered')
        PROVE  i <= Len(messages') /\ messages'[i] <= MaxMessage /\ delivered'[i] = [h \in 1..messages'[i] |-> i]
    <3>1. i \in 1..Len(delivered) /\ i \in 1..Len(messages) /\ delivered'[i] = delivered[i] /\ messages'[i] = messages[i]
      BY <1>1, <1>2, <1>3, <1>4
    <3>2. i <= Len(messages')
      BY <1>1, <1>2, <3>1
    <3> QED BY <1>4, <3>1, <3>2
  <2> QED BY <2>1
<1>6. down' # "done" => messages' = messages /\ Len(delivered') = Len(messages')
  BY <1>3
<1>7. MessagesAreWhole'
  BY <1>5, <1>6 DEF MessagesAreWhole
<1> QED BY <1>1, <1>2, <1>6, <1>7 DEF DownInv

(* The peer's next frame of data, whatever its length. *)
LEMMA DownFrames == ASSUME DownInv, DataFrame PROVE DownInv'
<1> DEFINE k == Len(messages) + 1
<1>1. PICK n \in 0..(MaxMessage + 1), fin \in BOOLEAN :
         /\ begun + n <= MaxMessage + 1 /\ Assemble(n, fin)
         /\ IF fin THEN messages' = Append(messages, begun + n) /\ begun' = 0 ELSE begun' = begun + n /\ UNCHANGED messages
  BY DEF DataFrame
<1>2. /\ down = "frame" /\ begun \in Nat /\ MaxMessage \in Nat /\ n \in Nat /\ begun + n \in Nat
      /\ Len(messages) \in Nat /\ k \in Nat
  BY BridgeAssumption, LenProperties DEF DataFrame, DownInv
<1>3. frag = Series(begun, k)
  BY <1>2 DEF DownInv
<1> HIDE DEF k
<1>4. Sent(n) = Series(n, k)
  BY DEF Sent, Series, k
<1>5. frag \o Sent(n) = Series(begun + n, k) /\ Len(frag \o Sent(n)) = begun + n /\ (frag = <<>> <=> begun = 0)
  <2>1. Series(begun, k) \o Series(n, k) = Series(begun + n, k)
    BY <1>2, RepeatJoin
  <2>2. Series(begun, k) = <<>> <=> begun = 0
    BY <1>2, RepeatIs
  <2>3. Len(Series(begun + n, k)) = begun + n
    <3> DEFINE m == begun + n
    <3>1. m \in Nat
      BY <1>2
    <3> HIDE DEF m
    <3>2. Len(Series(m, k)) = m
      BY <1>2, <3>1, RepeatIs
    <3> QED BY <3>2 DEF m
  <2> QED BY <1>3, <1>4, <2>1, <2>2, <2>3
<1>6. ASSUME TooLarge PROVE DownInv'
  <2>1. down' = "done" /\ delivered' = delivered
    BY <1>6 DEF TooLarge
  <2>2. messages' = messages \/ \E m \in Nat : messages' = Append(messages, m)
    BY <1>1, <1>2
  <2>3. begun' \in Nat
    BY <1>1, <1>2
  <2> QED BY <1>2, <2>1, <2>2, <2>3, Fragments
<1>7. ASSUME Deliver(Series(begun + n, k)), frag' = <<>>, fin, begun + n <= MaxMessage PROVE DownInv'
  <2>1. delivered' = Append(delivered, Series(begun + n, k)) /\ messages' = Append(messages, begun + n) /\ begun' = 0
    BY <1>1, <1>7 DEF Deliver
  <2>2. Holds(Len(messages) + 1, begun + n)
    BY <1>7, <2>1 DEF Holds, k
  <2> DEFINE m == begun + n
  <2>3. m \in Nat /\ Holds(Len(messages) + 1, m)
    BY <1>2, <2>2
  <2> HIDE DEF m
  <2> QED BY <1>2, <1>7, <2>1, <2>3, Delivers
<1>8. CASE n > MaxMessage
  <2>1. TooLarge
    <3>1. ~(n <= MaxMessage)
      BY <1>2, <1>8
    <3> QED BY <1>1, <1>8, <3>1 DEF Assemble
  <2> QED BY <1>6, <2>1
<1>9. CASE n <= MaxMessage /\ fin /\ frag = <<>>
  <2>1. Deliver(Sent(n)) /\ frag' = <<>>
    <3>1. ~(n > MaxMessage)
      BY <1>2, <1>9
    <3> QED BY <1>1, <1>9, <3>1 DEF Assemble
  <2>2. begun + n = n
    BY <1>2, <1>5, <1>9
  <2> QED BY <1>4, <1>7, <1>9, <2>1, <2>2
<1>10. CASE n <= MaxMessage /\ ~(fin /\ frag = <<>>)
  <2>1. LET all == frag \o Sent(n)
        IN CASE Len(all) > MaxMessage -> TooLarge /\ frag' = all
             [] Len(all) <= MaxMessage /\ fin -> Deliver(all) /\ frag' = <<>>
             [] OTHER -> frag' = all /\ UNCHANGED <<delivered, down>>
    <3>1. ~(n > MaxMessage)
      BY <1>2, <1>10
    <3> QED BY <1>1, <1>10, <3>1 DEF Assemble
  <2>2. CASE begun + n > MaxMessage
    <3>1. ~(begun + n <= MaxMessage)
      BY <1>2, <2>2
    <3>2. TooLarge
      BY <1>5, <2>1, <2>2, <3>1
    <3> QED BY <1>6, <3>2
  <2>3. CASE begun + n <= MaxMessage /\ fin
    <3>1. ~(begun + n > MaxMessage)
      BY <1>2, <2>3
    <3>2. Deliver(Series(begun + n, k)) /\ frag' = <<>>
      BY <1>5, <2>1, <2>3, <3>1
    <3> QED BY <1>7, <2>3, <3>2
  <2>4. CASE begun + n <= MaxMessage /\ ~fin
    <3>1. ~(begun + n > MaxMessage)
      BY <1>2, <2>4
    <3>2. frag' = Series(begun + n, k) /\ UNCHANGED <<delivered, down>>
      BY <1>5, <2>1, <2>4, <3>1
    <3>3. begun' = begun + n /\ messages' = messages
      BY <1>1, <2>4
    <3>4. frag' = Series(begun', Len(messages) + 1) /\ begun' \in Nat /\ begun' <= MaxMessage /\ delivered' = delivered
      BY <1>2, <2>4, <3>2, <3>3 DEF k
    <3> QED BY <1>2, <3>3, <3>4, Fragments
  <2> QED BY <1>2, <2>2, <2>3, <2>4
<1> QED BY <1>2, <1>8, <1>9, <1>10

(* Steps of the others. *)
LEMMA DownStays ==
    ASSUME DownInv, UNCHANGED <<begun, messages, frag, delivered>>, down' # "done" => down # "done"
    PROVE  DownInv'
BY DEF DownInv, MessagesAreWhole

(* The close: once written it is the last frame, and the peer's turn is over. *)
CloseInv == /\ wsClosed \in BOOLEAN /\ session \in {"wait", "close", "over"} /\ pings \in 0..MaxPings
            /\ down \in {"frame", "pong", "bye", "drain", "done"}
            /\ session # "wait" => up = "done" /\ down = "done"
            /\ wsClosed => down \in {"bye", "done"}
            /\ \A i \in 1..Len(out) : out[i].op = "close" => i = Len(out) /\ wsClosed

(* NoScores was written. *)
LEMMA CloseBegins == ASSUME BridgeInit PROVE CloseInv
<1>1. Len(<<>>) = 0
  OBVIOUS
<1>2. wsClosed = FALSE /\ session = "wait" /\ pings = 0 /\ down = "frame" /\ out = <<>>
  BY DEF BridgeInit, BridgeBegins
<1>0. 0 \in 0..MaxPings
  BY BridgeAssumption
<1>3. \A i \in 1..Len(out) : out[i].op = "close" => i = Len(out) /\ wsClosed
  <2>1. 1..Len(out) = {}
    BY <1>1, <1>2
  <2> QED BY <2>1
<1>4. wsClosed \in BOOLEAN /\ ~wsClosed
  BY <1>2
<1> QED BY <1>0, <1>2, <1>3, <1>4 DEF CloseInv

(* A frame that is no close, or several, before the close. *)
LEMMA CloseWaits ==
    ASSUME CloseInv, out \in Seq(Frames), Emitted, wsClosed' = wsClosed, down' = down, session' = session, pings' = pings,
           session = "wait"
    PROVE  CloseInv'
<1>1. CASE out' = out
  BY <1>1 DEF CloseInv
<1>2. CASE ~wsClosed /\ \E x \in Seq(Frames) : out' = out \o x /\ \A i \in 1..Len(x) : x[i].op = "data"
  <2>1. PICK x \in Seq(Frames) : out' = out \o x /\ \A i \in 1..Len(x) : x[i].op = "data"
    BY <1>2
  <2>2. /\ Len(out) \in Nat /\ Len(x) \in Nat /\ Len(out \o x) = Len(out) + Len(x)
        /\ \A i \in 1..(Len(out) + Len(x)) : (out \o x)[i] = IF i <= Len(out) THEN out[i] ELSE x[i - Len(out)]
    BY LenProperties, ConcatProperties
  <2>3. \A i \in 1..Len(out) : out[i].op # "close"
    BY <1>2 DEF CloseInv
  <2>4. ASSUME NEW i \in 1..Len(out') PROVE out'[i].op # "close"
    <3>0. i \in 1..(Len(out) + Len(x)) /\ out'[i] = IF i <= Len(out) THEN out[i] ELSE x[i - Len(out)]
      BY <2>1, <2>2
    <3>1. CASE i <= Len(out)
      <4>1. i \in 1..Len(out) /\ out'[i] = out[i]
        BY <2>2, <3>0, <3>1
      <4> QED BY <2>3, <4>1
    <3>2. CASE ~(i <= Len(out))
      <4>1. i - Len(out) \in 1..Len(x) /\ out'[i] = x[i - Len(out)]
        BY <2>2, <3>0, <3>2
      <4>2. x[i - Len(out)].op = "data"
        BY <2>1, <4>1
      <4> QED BY <4>1, <4>2
    <3> QED BY <3>1, <3>2
  <2> QED BY <2>4 DEF CloseInv
<1> QED BY <1>1, <1>2 DEF Emitted

(* One frame more, at an end that is no close yet. *)
LEMMA CloseGoes ==
    ASSUME CloseInv, out \in Seq(Frames), ~wsClosed, NEW f \in Frames, out' = Append(out, f), wsClosed' \in BOOLEAN,
           f.op = "close" => wsClosed', session' \in {"wait", "close", "over"}, pings' \in 0..MaxPings,
           down' \in {"frame", "pong", "bye", "drain", "done"}, session' # "wait" => up' = "done" /\ down' = "done",
           wsClosed' => down' \in {"bye", "done"}
    PROVE  CloseInv'
<1>1. /\ Len(out) \in Nat /\ Len(out') = Len(out) + 1 /\ out'[Len(out) + 1] = f
      /\ \A i \in 1..Len(out) : out'[i] = out[i]
  BY LenProperties, AppendProperties
<1>2. \A i \in 1..Len(out) : out[i].op # "close"
  BY DEF CloseInv
<1>3. ASSUME NEW i \in 1..Len(out'), out'[i].op = "close" PROVE i = Len(out') /\ wsClosed'
  <2>1. CASE i \in 1..Len(out)
    BY <1>1, <1>2, <1>3, <2>1
  <2>2. CASE i = Len(out) + 1
    BY <1>1, <1>3, <2>2
  <2> QED BY <1>1, <2>1, <2>2
<1> QED BY <1>3 DEF CloseInv

TwinInv == Twins(packets, splitter)
BridgeInv == UpInv /\ TwinInv /\ DownInv /\ CloseInv

(* The invariant holds at first ... *)
LEMMA BridgeBegun == BridgeInit => BridgeInv
<1>1. ASSUME BridgeInit PROVE TwinInv
  <2>1. PICK p \in DOMAIN Transport : splitter = NewSplitter(p)
    BY <1>1 DEF BridgeInit
  <2>2. splitter = SplitterAt(p, <<>>, <<>>, FALSE)
    BY <2>1 DEF NewSplitter, SplitterAt
  <2> QED BY <2>2, TwinsEmpty DEF TwinInv
<1> QED BY <1>1, UpBegins, DownBegins, CloseBegins DEF BridgeInv

(* ... and every step keeps it. *)
LEMMA BridgeStep == BridgeInv /\ [BridgeNext]_bridgeVars => BridgeInv'
<1> SUFFICES ASSUME BridgeInv, [BridgeNext]_bridgeVars PROVE BridgeInv'
  OBVIOUS
<1> USE DEF BridgeInv
<1>0. out \in Seq(Frames) /\ failed \in BOOLEAN /\ up \in {"read", "drain", "tail", "done"} /\ (failed => up = "done")
  BY DEF UpInv
<1>11. UNCHANGED <<packets, splitter>> => TwinInv'
  BY DEF TwinInv
<1>1. ASSUME ReadChunk PROVE BridgeInv'
  <2>1. UpInv' /\ Emitted /\ TwinInv'
    <3>1. packets' = packets
      BY <1>1 DEF ReadChunk
    <3> QED BY <1>1, <3>1, UpReads DEF TwinInv
  <2>2. UNCHANGED <<downVars, wsClosed, session>> /\ session = "wait"
    BY <1>1 DEF ReadChunk, CloseInv
  <2>3. DownInv'
    BY <2>2, DownStays DEF downVars
  <2>4. CloseInv'
    BY <1>0, <2>1, <2>2, CloseWaits DEF downVars
  <2> QED BY <2>1, <2>3, <2>4
<1>2. ASSUME ReadEnd PROVE BridgeInv'
  <2>1. UpInv' /\ Emitted /\ TwinInv'
    <3>1. packets' = packets
      BY <1>2 DEF ReadEnd
    <3> QED BY <1>2, <3>1, UpEnds DEF TwinInv
  <2>2. UNCHANGED <<downVars, wsClosed, session>> /\ session = "wait"
    BY <1>2 DEF ReadEnd, CloseInv
  <2>3. DownInv'
    BY <2>2, DownStays DEF downVars
  <2>4. CloseInv'
    BY <1>0, <2>1, <2>2, CloseWaits DEF downVars
  <2> QED BY <2>1, <2>3, <2>4
<1>3. ASSUME Drained PROVE BridgeInv'
  <2>1. UpSame
    BY <1>0, <1>3 DEF Drained, UpSame
  <2>2. /\ up' \in {"read", "drain", "tail", "done"} /\ failed' \in BOOLEAN /\ (failed' => up' = "done")
        /\ ~failed' => /\ ~failed /\ (up' \in {"read", "drain"} => up \in {"read", "drain"})
                       /\ (up' \in {"tail", "done"} => up \in {"tail", "done"})
    <3>1. CASE up = "drain" /\ up' = "read" /\ UNCHANGED failed
      BY <1>0, <3>1
    <3>2. CASE up = "tail" /\ up' = "done" /\ UNCHANGED failed
      BY <1>0, <3>2
    <3>3. CASE up \in {"read", "drain", "tail"} /\ up' = "done" /\ failed' = TRUE
      BY <1>0, <3>3
    <3> QED BY <1>3, <3>1, <3>2, <3>3 DEF Drained
  <2>3. UpInv'
    BY <2>1, <2>2, UpStays
  <2>4. DownInv'
    BY <1>3, DownStays DEF Drained, downVars
  <2>5. CloseInv'
    BY <1>3 DEF Drained, downVars, CloseInv
  <2>9. TwinInv'
    BY <1>11, <2>1 DEF UpSame
  <2> QED BY <2>3, <2>4, <2>5, <2>9
<1>4. ASSUME DataFrame PROVE BridgeInv'
  <2>1. UpSame /\ UNCHANGED <<up, failed>>
    BY <1>0, <1>4 DEF DataFrame, UpSame, upVars
  <2>2. UpInv'
    BY <1>0, <2>1, UpStays
  <2>3. DownInv'
    BY <1>4, DownFrames
  <2>4. down' \in {"frame", "drain", "done"} /\ down = "frame"
    <3>1. PICK n \in 0..(MaxMessage + 1), fin \in BOOLEAN : Assemble(n, fin)
      BY <1>4 DEF DataFrame
    <3>2. down = "frame" /\ n \in Nat /\ MaxMessage \in Nat
      BY <1>4, BridgeAssumption DEF DataFrame
    <3>3. \A m : Deliver(m) => down' = "drain"
      BY DEF Deliver
    <3>4. TooLarge => down' = "done"
      BY DEF TooLarge
    <3>5. CASE n > MaxMessage
      <4>1. ~(n <= MaxMessage)
        BY <3>2, <3>5
      <4>2. TooLarge
        BY <3>1, <3>5, <4>1 DEF Assemble
      <4> QED BY <3>2, <3>4, <4>2
    <3>6. CASE n <= MaxMessage /\ fin /\ frag = <<>>
      <4>1. ~(n > MaxMessage)
        BY <3>2, <3>6
      <4>2. Deliver(Sent(n))
        BY <3>1, <3>6, <4>1 DEF Assemble
      <4> QED BY <3>2, <3>3, <4>2
    <3>7. CASE n <= MaxMessage /\ ~(fin /\ frag = <<>>)
      <4>1. ~(n > MaxMessage)
        BY <3>2, <3>7
      <4>2. TooLarge \/ Deliver(frag \o Sent(n)) \/ UNCHANGED down
        BY <3>1, <3>7, <4>1 DEF Assemble
      <4> QED BY <3>2, <3>3, <3>4, <4>2
    <3> QED BY <3>2, <3>5, <3>6, <3>7
  <2>5. CloseInv'
    BY <1>4, <2>1, <2>4 DEF DataFrame, upVars, CloseInv
  <2>9. TwinInv'
    BY <1>11, <2>1 DEF UpSame
  <2> QED BY <2>2, <2>3, <2>5, <2>9
<1>5. ASSUME Ping PROVE BridgeInv'
  <2> DEFINE f == Frame("pong", <<pings + 1>>)
  <2>1. pings' \in 0..MaxPings /\ pings' = pings + 1 /\ out' = Append(out, f) /\ down = "frame" /\ down' = "pong"
        /\ UNCHANGED <<upVars, begun, messages, frag, delivered, wsClosed, session>>
    BY <1>5, BridgeAssumption DEF Ping, CloseInv
  <2>2. f \in Frames /\ f.op = "pong"
    BY <2>1 DEF Frames, Frame
  <2> HIDE DEF f
  <2>3. UpSame /\ UNCHANGED <<up, failed>>
    <3>1. Append(out, f) \in Seq(Frames) /\ Contents(Append(out, f)) = Contents(out)
      BY <1>0, <2>2, ContentsStay
    <3> QED BY <2>1, <3>1 DEF UpSame, upVars
  <2>4. UpInv'
    BY <1>0, <2>3, UpStays
  <2>5. DownInv'
    BY <2>1, DownStays
  <2>6. ~wsClosed /\ wsClosed \in BOOLEAN /\ session = "wait"
    BY <2>1 DEF CloseInv
  <2>7. /\ wsClosed' \in BOOLEAN /\ (f.op = "close" => wsClosed') /\ session' \in {"wait", "close", "over"} /\ pings' \in 0..MaxPings
        /\ down' \in {"frame", "pong", "bye", "drain", "done"} /\ (session' # "wait" => up' = "done" /\ down' = "done")
        /\ wsClosed' => down' \in {"bye", "done"}
    BY <2>1, <2>2, <2>6
  <2>8. CloseInv'
    BY <1>0, <2>1, <2>2, <2>6, <2>7, CloseGoes
  <2>9. TwinInv'
    BY <1>11, <2>3 DEF UpSame
  <2> QED BY <2>4, <2>5, <2>8, <2>9
<1>6. ASSUME PeerCloses PROVE BridgeInv'
  <2> DEFINE f == Frame("close", <<>>)
  <2>1. wsClosed' = TRUE /\ out' = Append(out, f) /\ down = "frame" /\ down' = "bye"
        /\ UNCHANGED <<upVars, begun, messages, pings, frag, delivered, session>>
    BY <1>6 DEF PeerCloses
  <2>2. f \in Frames /\ f.op = "close"
    BY DEF Frames, Frame
  <2> HIDE DEF f
  <2>3. UpSame /\ UNCHANGED <<up, failed>>
    <3>1. Append(out, f) \in Seq(Frames) /\ Contents(Append(out, f)) = Contents(out)
      BY <1>0, <2>2, ContentsStay
    <3> QED BY <2>1, <3>1 DEF UpSame, upVars
  <2>4. UpInv'
    BY <1>0, <2>3, UpStays
  <2>5. DownInv'
    BY <2>1, DownStays
  <2>6. ~wsClosed /\ session = "wait" /\ pings \in 0..MaxPings
    BY <2>1 DEF CloseInv
  <2>7. /\ wsClosed' \in BOOLEAN /\ (f.op = "close" => wsClosed') /\ session' \in {"wait", "close", "over"} /\ pings' \in 0..MaxPings
        /\ down' \in {"frame", "pong", "bye", "drain", "done"} /\ (session' # "wait" => up' = "done" /\ down' = "done")
        /\ wsClosed' => down' \in {"bye", "done"}
    BY <2>1, <2>6
  <2>8. CloseInv'
    BY <1>0, <2>1, <2>2, <2>6, <2>7, CloseGoes
  <2>9. TwinInv'
    BY <1>11, <2>3 DEF UpSame
  <2> QED BY <2>4, <2>5, <2>8, <2>9
<1>7. ASSUME DownDrained PROVE BridgeInv'
  <2>1. UpSame /\ UNCHANGED <<up, failed>>
    BY <1>0, <1>7 DEF DownDrained, UpSame, upVars
  <2>2. UpInv'
    BY <1>0, <2>1, UpStays
  <2>3. DownInv'
    BY <1>7, DownStays DEF DownDrained
  <2>4. CloseInv'
    BY <1>7 DEF DownDrained, CloseInv, upVars
  <2>9. TwinInv'
    BY <1>11, <2>1 DEF UpSame
  <2> QED BY <2>2, <2>3, <2>4, <2>9
<1>8. ASSUME CancelOther PROVE BridgeInv'
  <2>1. UpSame
    BY <1>0, <1>8 DEF CancelOther, UpSame
  <2>2. /\ up' \in {"read", "drain", "tail", "done"} /\ failed' \in BOOLEAN /\ (failed' => up' = "done")
        /\ ~failed' => /\ ~failed /\ (up' \in {"read", "drain"} => up \in {"read", "drain"})
                       /\ (up' \in {"tail", "done"} => up \in {"tail", "done"})
    BY <1>0, <1>8 DEF CancelOther
  <2>3. UpInv'
    BY <2>1, <2>2, UpStays
  <2>4. DownInv'
    BY <1>8, DownStays DEF CancelOther
  <2>5. CloseInv'
    BY <1>8 DEF CancelOther, CloseInv
  <2>9. TwinInv'
    BY <1>11, <2>1 DEF UpSame
  <2> QED BY <2>3, <2>4, <2>5, <2>9
<1>9. ASSUME CloseBridge PROVE BridgeInv'
  <2> DEFINE f == Frame("close", <<>>)
  <2>1. /\ session = "close" /\ session' = "over" /\ wsClosed' = TRUE /\ UNCHANGED <<upVars, downVars>>
        /\ IF wsClosed THEN UNCHANGED out ELSE out' = Append(out, f)
    BY <1>9 DEF CloseBridge
  <2>2. f \in Frames /\ f.op = "close"
    BY DEF Frames, Frame
  <2> HIDE DEF f
  <2>3. UpSame /\ UNCHANGED <<up, failed>>
    <3>1. Append(out, f) \in Seq(Frames) /\ Contents(Append(out, f)) = Contents(out)
      BY <1>0, <2>2, ContentsStay
    <3> QED BY <1>0, <2>1, <3>1 DEF UpSame, upVars
  <2>4. UpInv'
    BY <1>0, <2>3, UpStays
  <2>5. DownInv'
    BY <2>1, DownStays DEF downVars
  <2>6. up = "done" /\ down = "done" /\ pings \in 0..MaxPings
    BY <2>1 DEF CloseInv
  <2>9. TwinInv'
    BY <1>11, <2>3 DEF UpSame
  <2>7. CASE wsClosed
    <3>1. CloseInv'
      BY <2>1, <2>6, <2>7 DEF CloseInv, upVars, downVars
    <3> QED BY <2>4, <2>5, <2>9, <3>1
  <2>8. CASE ~wsClosed
    <3>1. CloseInv'
      BY <1>0, <2>1, <2>2, <2>6, <2>8, CloseGoes DEF upVars, downVars
    <3> QED BY <2>4, <2>5, <2>9, <3>1
  <2> QED BY <2>7, <2>8
<1>10. ASSUME UNCHANGED bridgeVars PROVE BridgeInv'
  <2>1. UpSame /\ UNCHANGED <<up, failed>>
    BY <1>0, <1>10 DEF UpSame, upVars, bridgeVars
  <2>2. UpInv'
    BY <1>0, <2>1, UpStays
  <2>3. DownInv'
    BY <1>10, DownStays DEF bridgeVars, downVars
  <2>4. CloseInv'
    BY <1>10 DEF CloseInv, bridgeVars, upVars, downVars
  <2>9. TwinInv'
    BY <1>11, <2>1 DEF UpSame
  <2> QED BY <2>2, <2>3, <2>4, <2>9
<1> QED BY <1>1, <1>2, <1>3, <1>4, <1>5, <1>6, <1>7, <1>8, <1>9, <1>10 DEF BridgeNext

(* What waits to be sent is kept twice, encrypted and plain, and the two are the same bytes of the
   stream; a message under way is never longer than MAX_MESSAGE_LEN (bridge.py 50-138,
   raw_websocket.py 62-290). *)
THEOREM BridgeTypes == BridgeSpec => []BridgeTypeOK
<1>1. BridgeInv => BridgeTypeOK
  <2> SUFFICES ASSUME BridgeInv PROVE BridgeTypeOK
    OBVIOUS
  <2>1. up \in {"read", "drain", "tail", "done"} /\ failed \in BOOLEAN
    BY DEF BridgeInv, UpInv
  <2>2. /\ down \in {"frame", "pong", "bye", "drain", "done"} /\ session \in {"wait", "close", "over"}
        /\ wsClosed \in BOOLEAN /\ pings \in 0..MaxPings
    BY DEF BridgeInv, CloseInv
  <2>3. splitter.plain = [i \in 1..Len(splitter.cipher) |-> Stream[splitter.cipher[i]]]
    BY DEF BridgeInv, TwinInv, Twins, Stream
  <2>4. ASSUME down # "done" PROVE Len(frag) <= MaxMessage /\ Len(frag) = begun
    <3>1. begun \in Nat /\ frag = Series(begun, Len(messages) + 1) /\ begun <= MaxMessage /\ Len(messages) \in Nat
      BY <2>4, LenProperties DEF BridgeInv, DownInv
    <3>2. Len(messages) + 1 \in Nat
      BY <3>1
    <3>3. Len(frag) = begun
      BY <3>1, <3>2, RepeatIs
    <3> QED BY <3>1, <3>3
  <2> QED BY <2>1, <2>2, <2>3, <2>4 DEF BridgeTypeOK
<1> QED BY <1>1, BridgeBegun, BridgeStep, PTL DEF BridgeSpec

(* However the client's stream is cut on its way, whatever fragments the peer's messages come in, and
   in whatever order the two directions, the pings, the loss of the connection and the closes fall:
   each side gets what the other sent (bridge_ws_reencrypt, bridge.py 326-451). *)
THEOREM BridgeFaithful == BridgeSpec => []BridgeIsFaithful
<1>1. BridgeInit => BridgeInv
  BY BridgeBegun
<1>2. BridgeInv /\ [BridgeNext]_bridgeVars => BridgeInv'
  BY BridgeStep
<1>3. BridgeInv => BridgeIsFaithful
  <2> SUFFICES ASSUME BridgeInv PROVE BridgeIsFaithful
    OBVIOUS
  <2>1. OnePacketPerFrame /\ StreamIsKept
    BY UpIsFaithful DEF BridgeInv
  <2>2. MessagesAreWhole
    BY DEF BridgeInv, DownInv
  <2>3. CloseIsLast
    BY DEF BridgeInv, CloseInv, CloseIsLast
  <2> QED BY <2>1, <2>2, <2>3 DEF BridgeIsFaithful
<1> QED BY <1>1, <1>2, <1>3, PTL DEF BridgeSpec
==============================================================================
