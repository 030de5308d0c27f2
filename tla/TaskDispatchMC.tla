--------------------------- MODULE TaskDispatchMC ---------------------------
(* TaskDispatch for TLC.  Spec tells no two machines apart.                    *)
EXTENDS TaskDispatch, TLC

CONSTANTS m1, m2

TwoMachines == {m1, m2}
Symmetry == Permutations(Machines)
=============================================================================
