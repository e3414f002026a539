---------------------------- MODULE AtomicStore ----------------------------
(***************************************************************************)
(* What the settings files promise to the threads that use them: a field   *)
(* is changed in one step that leaves every other field alone, whichever   *)
(* other threads change theirs; a file is otherwise replaced as a whole by *)
(* an import or an update of the lists, put back to what it was before, or *)
(* damaged from outside, and then it counts as empty.                      *)
(***************************************************************************)
EXTENDS Naturals

CONSTANTS Key, Val, Unset, Imported, Other  \* Other: the files next to config.json

VARIABLES config,   \* field -> value
          rest,     \* another file -> the number of the transaction its contents come from
          priorConfig, priorRest  \* both as the last transaction found them

vars == <<config, rest, priorConfig, priorRest>>
prior == <<priorConfig, priorRest>>

Empty == [k \in Key |-> Unset]
Old   == [f \in Other |-> 0]

Init == config = Empty /\ rest = Old /\ priorConfig = Empty /\ priorRest = Old

Change == \E k \in Key, v \in Val \cup {Unset} : config' = [config EXCEPT ![k] = v]
Lose   == config' = Empty
Note   == priorConfig' = config /\ priorRest' = rest /\ UNCHANGED <<config, rest>>

ReplaceConfig == config' \in {[k \in Key |-> Imported], priorConfig}
ReplaceRest   == \E f \in Other : /\ rest' = [rest EXCEPT ![f] = rest'[f]]
                                  /\ rest'[f] = priorRest[f] \/ rest[f] < rest'[f]

Next == \/ Note
        \/ (Change \/ Lose \/ ReplaceConfig) /\ UNCHANGED <<rest, prior>>
        \/ ReplaceRest /\ UNCHANGED <<config, prior>>

Spec == Init /\ [][Next]_vars
=============================================================================
