-------------------------- MODULE MCManagedRuntime --------------------------
(* Small instances of ManagedRuntime for TLC. *)
EXTENDS ManagedRuntime, TLC

CONSTANTS r1, r2, r3, MaxIdle, MaxReadiness, MaxShutdown

MCIdle      == [b \in 1 .. N |-> MaxIdle]
MCReadiness == [b \in 1 .. N |-> MaxReadiness]
MCShutdown  == [b \in 1 .. N |-> MaxShutdown]
MCSymmetry  == Permutations(Requests)
=============================================================================
