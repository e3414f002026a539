------------------------ MODULE MCRuntimeController ------------------------
(* Three threads: one that holds the lock, and two that wait for it with an older
   and a newer token. *)
EXTENDS RuntimeController
CONSTANTS w1, w2, w3
=============================================================================
