------------------------- MODULE MCProxySupervisor -------------------------
(***************************************************************************)
(* ProxySupervisor with two settings, the port and a backend's model.  The *)
(* new model does not load with the old port.                              *)
(***************************************************************************)
EXTENDS ProxySupervisor, TLC

CONSTANTS port, model, old, new

MCSettings == {port, model}
MCOfBackends == {model}
MCValues == {old, new}
MCValid == {f \in [MCSettings -> MCValues] : ~(f[model] = new /\ f[port] = old)}
MCPresets == {[s \in MCSettings |-> old]}

AnyProc == Permutations(Procs)
=============================================================================
