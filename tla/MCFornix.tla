------------------------------ MODULE MCFornix ------------------------------
EXTENDS Fornix, TLC

Symmetry == Permutations(Files) \cup Permutations(FileRequests)

Spec == FornixInit /\ [][FornixNext]_fornixVars
=============================================================================
