---------------------------- MODULE LatestIntent ----------------------------
(***************************************************************************)
(* What the runtime controller promises to the rest of the program: of all *)
(* the intents that were ever expressed, only the latest one is admitted   *)
(* to act, one at a time, and none is admitted after the program was shut. *)
(* An intent already acting is not interrupted by a later one: it finishes *)
(* first.  RuntimeController is shown to implement this specification.     *)
(***************************************************************************)
EXTENDS Naturals

VARIABLES latest,     \* the number of the latest intent
          admitted,   \* the number of the intent last admitted to act
          acting,     \* an admitted intent is acting now
          shut        \* nothing is admitted any more

vars == <<latest, admitted, acting, shut>>

Init == latest = 0 /\ admitted = 0 /\ acting = FALSE /\ shut = FALSE

Express == latest' = latest + 1 /\ UNCHANGED <<admitted, acting, shut>>

Admit == /\ ~acting /\ ~shut
         /\ admitted' = latest
         /\ acting' = TRUE
         /\ UNCHANGED <<latest, shut>>

Finish == acting /\ acting' = FALSE /\ UNCHANGED <<latest, admitted, shut>>

Shut == ~shut /\ shut' = TRUE /\ UNCHANGED <<latest, admitted, acting>>

Next == Express \/ Admit \/ Finish \/ Shut

Spec == Init /\ [][Next]_vars
=============================================================================
