--------------------------- MODULE MCRunnerConnect ---------------------------
(* RunnerConnect on two devices, which are interchangeable.                *)
EXTENDS RunnerConnect, TLC

Symmetry == Permutations(Devices)
=============================================================================
