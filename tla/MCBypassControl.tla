-------------------------- MODULE MCBypassControl --------------------------
(* The workers are interchangeable: Init and every action treat them alike. *)
EXTENDS BypassControl, TLC
CONSTANTS w1, w2, w3, s1, s2

Symmetry == Permutations(Worker)
=============================================================================
