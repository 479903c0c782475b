-------------------------- MODULE MCRuntimeAdapter --------------------------
(* RuntimeAdapter with the settings server and command line processes.      *)
EXTENDS RuntimeAdapter, TLC

AnyOrder == Permutations(Pids) \cup Permutations(Commands)
=============================================================================
