---------------------------- MODULE MCEvalStore ----------------------------
EXTENDS EvalStore, TLC

MCCandidates == {[backend |-> "b1", model |-> "m"], [backend |-> "b2", model |-> "m"]}
MCSelections == {<<"f1", "f2">>}
MCOutcomes == {"passed", "timeout"}
Symmetry == Permutations(Users)
=============================================================================
