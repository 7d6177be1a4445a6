------------------------------ MODULE MCRwsPool ------------------------------
(* Model-checking instance of RwsPool.  Its threads, daemons and clients are *)
(* interchangeable.                                                          *)
EXTENDS RwsPool, TLC

MCSymmetry ==
  Permutations(Users) \cup Permutations(Daemons) \cup Permutations(Servers)

=============================================================================
