--------------------------- MODULE SettingsStore ---------------------------
(***************************************************************************)
(* The settings on disk (zapret_core.py 700-882, 1155-1179): threads       *)
(* change single fields of config.json under one lock; an import replaces  *)
(* config.json and presets.json together, or neither, and an update of the *)
(* domain lists the lists (three of them, one file here) and the time kept *)
(* in config.json.  A file is replaced whole by os.replace, which may      *)
(* fail; the program may die at any step.                                  *)
(***************************************************************************)
EXTENDS Naturals, SequencesExt

CONSTANTS Writer,          \* the threads that call update_config
          NoHolder, Importer,
          Key, Val, Unset, \* the fields of config.json
          Stamp, Today,    \* lists_last_update and the time now
          Imported,        \* what an imported file holds in every field
          Missing, Damaged, \* a file that is not there, one that does not parse
          MaxImport        \* bound on the transactions

ASSUME StoreAssumption == /\ NoHolder \notin Writer /\ Importer \notin Writer /\ NoHolder # Importer
                          /\ Unset \notin Val /\ Imported \notin Val /\ Unset # Imported
                          /\ Stamp \in Key /\ Today \in Val /\ MaxImport \in Nat
                          /\ {Missing, Damaged} \cap [Key -> Val \cup {Unset, Imported}] = {}

Other == {"presets", "lists"}
Files == {"config"} \cup Other
EmptyConfig == [k \in Key |-> Unset]

VARIABLES onDisk,   \* the files
          backup,   \* their .backup copies
          holder,   \* who holds _cfg_write_lock
          loaded,   \* writer -> the configuration it changes, when it holds the lock
          step,     \* where the transaction of several files is
          todo,     \* the files still to copy, to replace or to put back
          files,    \* the files of the transaction
          before,   \* the files as it read them (previous)
          changed,  \* the files it has replaced
          result,   \* how the last one ended, until the files change again
          imports   \* the number of transactions

storeVars == <<onDisk, backup, holder, loaded, step, todo, files, before, changed, result, imports>>
import == <<step, todo, files, before, changed, imports>>

StoreInit == /\ onDisk = [config |-> Missing, presets |-> 0, lists |-> 0]
             /\ backup = [f \in Files |-> Missing]
             /\ holder = NoHolder /\ loaded = [w \in Writer |-> EmptyConfig]
             /\ step = "none" /\ todo = {} /\ files = {} /\ before = onDisk /\ changed = {}
             /\ result = "none" /\ imports = 0

(* load_config: a missing file is empty, a broken one too, once it was copied aside. *)
Fields(c) == IF c \in {Missing, Damaged} THEN EmptyConfig ELSE c
-----------------------------------------------------------------------------
(* Mutant: the file is read before the lock is taken. *)
LoadUnlocked(w) == /\ \/ loaded' = [loaded EXCEPT ![w] = Fields(onDisk.config)] /\ UNCHANGED holder
                      \/ holder = NoHolder /\ holder' = w /\ UNCHANGED loaded
                   /\ UNCHANGED <<onDisk, backup, import, result>>

(* update_config reads the file inside the lock. *)
Load(w) == /\ holder = NoHolder /\ holder' = w
           /\ loaded' = [loaded EXCEPT ![w] = Fields(onDisk.config)]
           /\ UNCHANGED <<onDisk, backup, import, result>>

(* ... and replaces it, or fails and leaves it as it was. *)
Save(w) == /\ holder = w /\ holder' = NoHolder
           /\ \/ \E k \in Key, v \in Val \cup {Unset} :
                    onDisk' = [onDisk EXCEPT !.config = [loaded[w] EXCEPT ![k] = v]]
              \/ UNCHANGED onDisk
           /\ loaded' = [loaded EXCEPT ![w] = EmptyConfig]
           /\ result' = "none"
           /\ UNCHANGED <<backup, import>>
-----------------------------------------------------------------------------
(* A transaction reads what it is going to replace. *)
Transaction(fs) == /\ holder = NoHolder /\ holder' = Importer
                   /\ imports < MaxImport /\ imports' = imports + 1
                   /\ before' = onDisk /\ files' = fs /\ todo' = fs /\ changed' = {}
                   /\ step' = "backup" /\ result' = "none"
                   /\ UNCHANGED <<onDisk, backup, loaded>>

(* A file of settings that was accepted: it holds either part, or both. *)
ImportBegin == \E fs \in {{"config"}, {"presets"}, {"config", "presets"}} : Transaction(fs)

(* All lists were downloaded and are valid; config.json is read inside the lock. *)
UpdateLists == Transaction({"lists", "config"})

(* The order of either dict. *)
Order      == <<"lists", "config", "presets">>
FirstOf(s) == Order[SelectInSeq(Order, LAMBDA f : f \in s)]
LastOf(s)  == Order[SelectLastInSeq(Order, LAMBDA f : f \in s)]

ImportEnds(how) == /\ holder' = NoHolder /\ step' = "none" /\ todo' = {} /\ result' = how

(* Mutant: the copies of the old files are not made. *)
NoCopy == /\ step = "backup" /\ todo' = files /\ step' = "replace"
          /\ UNCHANGED <<backup, holder, result, onDisk, loaded, files, before, changed, imports>>

Copy == /\ step = "backup"
        /\ \/ /\ todo # {} /\ todo' = todo \ {FirstOf(todo)}
              /\ backup' = IF before[FirstOf(todo)] = Missing THEN backup
                           ELSE [backup EXCEPT ![FirstOf(todo)] = before[FirstOf(todo)]]
              /\ UNCHANGED <<holder, step, result>>
           \/ todo = {} /\ todo' = files /\ step' = "replace" /\ UNCHANGED <<backup, holder, result>>
           \/ todo # {} /\ ImportEnds("failed") /\ UNCHANGED backup
        /\ UNCHANGED <<onDisk, loaded, files, before, changed, imports>>

New(f) == CASE f \in Other -> imports
            [] f = "config" /\ "lists" \notin files -> [k \in Key |-> Imported]
            [] f = "config" /\ "lists" \in files -> [Fields(before.config) EXCEPT ![Stamp] = Today]

ReplaceFiles == /\ step = "replace"
                /\ \/ /\ todo # {} /\ todo' = todo \ {FirstOf(todo)}
                      /\ onDisk' = [onDisk EXCEPT ![FirstOf(todo)] = New(FirstOf(todo))]
                      /\ changed' = changed \cup {FirstOf(todo)}
                      /\ UNCHANGED <<holder, step, result>>
                   \/ todo # {} /\ step' = "undo" /\ todo' = changed /\ UNCHANGED <<onDisk, changed, holder, result>>
                   \/ todo = {} /\ ImportEnds("ok") /\ UNCHANGED <<onDisk, changed>>
                /\ UNCHANGED <<backup, loaded, files, before, imports>>

(* The files it replaced, last first; one that cannot be put back does not keep
   the others from it. *)
Undo == /\ step = "undo"
        /\ \/ /\ todo # {} /\ todo' = todo \ {LastOf(todo)}
              /\ \/ onDisk' = [onDisk EXCEPT ![LastOf(todo)] = before[LastOf(todo)]] /\ changed' = changed \ {LastOf(todo)}
                 \/ UNCHANGED <<onDisk, changed>>
              /\ UNCHANGED <<holder, step, result>>
           \/ todo = {} /\ ImportEnds(IF changed = {} THEN "failed" ELSE "torn") /\ UNCHANGED <<onDisk, changed>>
        /\ UNCHANGED <<backup, loaded, files, before, imports>>
-----------------------------------------------------------------------------
(* The program dies: the lock goes, the files stay. *)
StoreCrash == /\ holder # NoHolder /\ holder' = NoHolder
              /\ loaded' = [w \in Writer |-> EmptyConfig]
              /\ step' = "none" /\ todo' = {}
              /\ result' = IF holder = Importer THEN "crashed" ELSE result
              /\ UNCHANGED <<onDisk, backup, files, before, changed, imports>>

(* Somebody else damages config.json: the loader takes it for empty. *)
Damage == /\ holder = NoHolder /\ onDisk.config \notin {Missing, Damaged}
          /\ onDisk' = [onDisk EXCEPT !.config = Damaged] /\ result' = "none"
          /\ UNCHANGED <<backup, holder, loaded, import>>

StoreNext == \/ \E w \in Writer : Load(w) \/ Save(w)
             \/ ImportBegin \/ UpdateLists \/ Copy \/ ReplaceFiles \/ Undo
             \/ StoreCrash \/ Damage

StoreSpec == StoreInit /\ [][StoreNext]_storeVars
-----------------------------------------------------------------------------
Stored == [Key -> Val \cup {Unset, Imported}] \cup {Missing, Damaged}

(* Types; and the files of a transaction are replaced only under the lock. *)
StoreTypeOK == /\ onDisk.config \in Stored /\ backup.config \in Stored /\ before.config \in Stored
               /\ \A f \in Other : onDisk[f] \in 0..MaxImport /\ before[f] \in 0..MaxImport
               /\ holder \in Writer \cup {NoHolder, Importer}
               /\ loaded \in [Writer -> [Key -> Val \cup {Unset, Imported}]]
               /\ changed \subseteq files /\ files \subseteq Files
               /\ step # "none" <=> holder = Importer

(* An import or an update of the lists that reports success left its files new, one that
   reports failure all files old; a torn one (a failed rollback, or a crash) leaves them all
   old, all new, or the old ones complete beside them (_write_transaction 800-829). *)
TornImportKeepsBackups ==
    LET old == onDisk = before
        new == \A f \in files : onDisk[f] = New(f)
    IN /\ result = "ok" => new
       /\ result = "failed" => old
       /\ result \in {"torn", "crashed"} =>
             old \/ new \/ \A f \in files : before[f] = Missing \/ backup[f] = before[f]

Abstract == INSTANCE AtomicStore WITH
                config <- Fields(onDisk.config), rest <- [f \in Other |-> onDisk[f]],
                priorConfig <- Fields(before.config), priorRest <- [f \in Other |-> before[f]]

(* The store is the abstract one: no thread's field is lost to another thread's
   read-modify-write (update_config 755-763), to the time that an update of the lists
   writes (1172-1176), or to a transaction that was undone. *)
StoreIsAtomic == Abstract!Spec
=============================================================================
