-------------------------- MODULE MCSwingOperation --------------------------
EXTENDS SwingOperation, TLC

InstanceSymmetry == Permutations(Executions) \cup Permutations(Roots)
=============================================================================
