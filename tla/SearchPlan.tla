----------------------------- MODULE SearchPlan -----------------------------
(***************************************************************************)
(* What the automatic search measures, shows and saves (zapret_search.py;  *)
(* zapret_app.pyw 2908-3121).  A quick probe of every strategy orders the  *)
(* candidates, full ones rank them; meanwhile the user cancels, a newer    *)
(* command takes the token, or the conditions of the measurement change.   *)
(* BypassControl has what the search does to processes and the service.    *)
(* A strategy is its place in the order of prioritize_presets.             *)
(***************************************************************************)
EXTENDS Integers, SequencesExt, Listing

CONSTANTS Strategies,          \* how many there are
          BestRank, FullRank,  \* ranks of a measurement; from FullRank on it reached every target
          Conditions,          \* what recovery_context may find: lists, game mode, network
          MaxSearch            \* bound: searches

ASSUME SearchAssumption == /\ Strategies \in Nat \ {0} /\ MaxSearch \in Nat
                           /\ BestRank \in Nat /\ FullRank \in 1..BestRank

Enough == 3  \* a fast search ends with so many that reached every target

VARIABLES searching,   \* where the search is
          fast,     \* auto_fast
          scores,   \* the quick scores, in the order they were taken
          ranking,  \* the candidates that are still to be measured fully
          trial,    \* the strategy that is being measured; 0: none
          cancel,   \* auto_cancel, or the token is no longer valid
          world,    \* the conditions now
          context,  \* recovery_context at the start of the search
          returned, \* history: in the search the conditions changed, and changed back
          shown,    \* _search_results
          complete, \* _auto_completed
          recoveryPool, poolContext, \* recovery_pool and recovery_context of the settings
          previous, \* _previous_search, with the pool (history: it is not set to None)
          searches

searchVars == <<searching, fast, scores, ranking, trial, cancel, world, context, returned, shown,
                complete, recoveryPool, poolContext, previous, searches>>

Result(s, r) == [name |-> s, rank |-> r, world |-> world]
Full(r)      == r.rank >= FullRank
Sorted(rs)   == LET by == Ranked([i \in 1..Len(rs) |-> rs[i].rank]) IN [k \in 1..Len(rs) |-> rs[by[k]]]
Passing(rs)  == LET good == Kept(rs, {r \in ToSet(rs) : Full(r)}) IN [i \in 1..Len(good) |-> good[i].name]
Cancels      == ~cancel /\ cancel' = TRUE

(* At first, or after an earlier search found the first strategy. *)
SearchInit == /\ searching = "rest" /\ fast = FALSE /\ scores = <<>> /\ ranking = <<>> /\ trial = 0
              /\ cancel = FALSE /\ world \in Conditions /\ context = world /\ returned = FALSE /\ complete = FALSE
              /\ shown \in {<<>>, <<Result(1, FullRank)>>} /\ recoveryPool = Passing(shown) /\ poolContext = world
              /\ previous = [shown |-> shown, pool |-> recoveryPool, context |-> world] /\ searches = 0
-----------------------------------------------------------------------------
(* on_auto_start keeps what is shown and begins afresh. *)
SearchStart == /\ searching = "rest" /\ searches < MaxSearch /\ searches' = searches + 1
               /\ previous' = [shown |-> shown, pool |-> recoveryPool, context |-> poolContext]
               /\ shown' = <<>> /\ cancel' = FALSE /\ complete' = FALSE /\ fast' \in BOOLEAN
               /\ context' = world /\ returned' = FALSE /\ searching' = "quick"
               /\ UNCHANGED <<scores, ranking, trial, world, recoveryPool, poolContext>>

Measuring == UNCHANGED <<fast, world, context, returned, recoveryPool, poolContext, previous, searches>>

(* An error, or Superseded: what was not done is left. *)
SearchAborts == /\ searching \in {"quick", "full"} /\ searching' = "finally"
                /\ trial' = 0 /\ scores' = <<>> /\ ranking' = <<>>
                /\ UNCHANGED <<cancel, shown, complete>> /\ Measuring

TrialBegin == /\ trial = 0 /\ ~cancel
              /\ \/ searching = "quick" /\ Len(scores) < Strategies /\ trial' = Len(scores) + 1
                 \/ searching = "full" /\ ranking # <<>> /\ trial' = Head(ranking)
              /\ UNCHANGED <<searching, scores, ranking, cancel, shown, complete>> /\ Measuring

(* A probe that was cancelled, or whose strategy died, counts as failed. *)
QuickEnd == /\ searching = "quick" /\ trial # 0 /\ trial' = 0
            /\ \E score \in {0, 1} : scores' = Append(scores, score) /\ (cancel => score = 0)
            /\ UNCHANGED <<searching, ranking, cancel, shown, complete>> /\ Measuring

(* sorted((-score, index)): the quick probes order the candidates and drop none. *)
InOrder == Ranked(scores)

QuickOver == /\ searching = "quick" /\ Len(scores) = Strategies
             /\ searching' = "full" /\ ranking' = InOrder /\ scores' = <<>>
             /\ UNCHANGED <<trial, cancel, shown, complete>> /\ Measuring

(* A full measurement is published, unless the search was cancelled in it. *)
FullEnd == /\ searching = "full" /\ trial # 0 /\ ~cancel /\ trial' = 0
           /\ \E r \in 0..BestRank : shown' = Append(shown, Result(trial, r))
           /\ ranking' = IF fast /\ Len(Passing(shown')) >= Enough THEN <<>> ELSE Tail(ranking)
           /\ UNCHANGED <<searching, scores, cancel, complete>> /\ Measuring

(* Mutant: the conditions are not compared with those of the start. *)
SearchOverAnyway == /\ searching = "full" /\ trial = 0 /\ ranking = <<>> /\ ~cancel
                    /\ searching' = "finally" /\ shown' = Sorted(shown) /\ complete' = TRUE
                    /\ UNCHANGED <<scores, ranking, trial, cancel>> /\ Measuring

(* All are measured; the results count if the conditions are those of the start (2985),
   or are so again (3030-3032). *)
SearchOver == /\ searching = "full" /\ trial = 0 /\ ranking = <<>> /\ ~cancel /\ world = context
              /\ searching' = "finally" /\ shown' = Sorted(shown) /\ complete' = TRUE
              /\ UNCHANGED <<scores, ranking, trial, cancel>> /\ Measuring

(* finally: the bypass is put back; when that fails nothing was completed. *)
PutBack == /\ searching = "finally" /\ searching' = "posted"
           /\ \/ UNCHANGED complete
              \/ complete' = FALSE
           /\ cancel' = (cancel \/ ~complete')
           /\ UNCHANGED <<scores, ranking, trial, shown>> /\ Measuring

Restored == /\ shown' = previous.shown /\ cancel' = TRUE
            /\ UNCHANGED <<recoveryPool, poolContext, complete>>

Saved == /\ recoveryPool' = Passing(Sorted(shown)) /\ poolContext' = context
         /\ UNCHANGED <<shown, cancel, complete>>

(* Mutant: what came between the end of the search and this handler is not looked at. *)
ShowLate == /\ searching = "posted" /\ searching' = "rest"
            /\ IF complete THEN Saved ELSE Restored
            /\ UNCHANGED <<fast, scores, ranking, trial, world, context, returned, previous, searches>>

(* _auto_done saves the pool, or (cancelled, or the settings cannot be written) shows what
   was there before. *)
Show == /\ searching = "posted" /\ searching' = "rest"
        /\ \/ ~cancel /\ Saved
           \/ Restored
        /\ UNCHANGED <<fast, scores, ranking, trial, world, context, returned, previous, searches>>
-----------------------------------------------------------------------------
Interrupt == /\ searching # "rest" /\ Cancels
             /\ UNCHANGED <<searching, fast, scores, ranking, trial, world, context, returned, shown, complete,
                            recoveryPool, poolContext, previous, searches>>

(* The lists are updated, the game mode is switched, another network is used. *)
ConditionsChange == /\ world' \in Conditions \ {world}
                    /\ returned' = (returned \/ (searching \in {"quick", "full"} /\ world' = context))
                    /\ UNCHANGED <<searching, fast, scores, ranking, trial, cancel, context, shown, complete,
                                   recoveryPool, poolContext, previous, searches>>

SearchNext == \/ SearchStart \/ SearchAborts \/ TrialBegin \/ QuickEnd \/ QuickOver \/ FullEnd
              \/ SearchOver \/ PutBack \/ Show \/ Interrupt \/ ConditionsChange

SearchSpec == SearchInit /\ [][SearchNext]_searchVars
-----------------------------------------------------------------------------
SearchTypeOK == /\ searching \in {"rest", "quick", "full", "finally", "posted"}
                /\ trial \in 0..Strategies /\ world \in Conditions /\ context \in Conditions
                /\ \A i \in 1..Len(shown) : shown[i].name \in 1..Strategies /\ shown[i].rank \in 0..BestRank
                /\ Len(scores) <= Strategies /\ Len(ranking) <= Strategies
                /\ {ranking[i] : i \in 1..Len(ranking)} \cap {shown[i].name : i \in 1..Len(shown)} = {}
                /\ fast \in BOOLEAN /\ cancel \in BOOLEAN /\ complete \in BOOLEAN /\ returned \in BOOLEAN

(* A search that was cancelled, superseded or failed, as late as in the handler that shows
   its results, leaves the results and the recovery pool of the one before (3105-3113
   "Запасные стратегии сохранены").  One that counts has measured every strategy, or
   enough of them, and saves the passing ones best first; all were measured under the
   conditions it saves, unless these had changed and come back (3030-3032 compare only
   the start and the end). *)
SearchIsAllOrNothing ==
    searching = "rest" /\ searches > 0 =>
       IF cancel
       THEN shown = previous.shown /\ recoveryPool = previous.pool /\ poolContext = previous.context
       ELSE /\ \/ Len(shown) = Strategies
               \/ fast /\ Len(recoveryPool) = Enough
            /\ \A i, j \in 1..Len(shown) : i < j => shown[i].rank >= shown[j].rank /\ shown[i].name # shown[j].name
            /\ ~returned => \A i \in 1..Len(shown) : shown[i].world = poolContext
            /\ recoveryPool = Passing(shown)
=============================================================================
