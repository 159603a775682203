------------------------------- MODULE MCKeys -------------------------------
(* Constants of the KeyBootstrap runs. *)
EXTENDS KeyBootstrap, TLC

ProcsAlike == Permutations(Procs)
=============================================================================
