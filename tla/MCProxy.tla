------------------------------ MODULE MCProxy ------------------------------
EXTENDS TgProxy
Symmetry == Permutations(Client) \cup Permutations(Socket)
=============================================================================
