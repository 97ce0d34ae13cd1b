-------------------------- MODULE MCProcessManager --------------------------
EXTENDS ProcessManager, TLC

Symmetry == Permutations(Procs) \cup Permutations(Tasks)
=============================================================================
